SPECIFICATION Spec
CONSTANTS
  LimbBits = 4
  LimbBytes = 2
  Radix = 3
  Batch = 2
  DefaultPrec = 4
  CheckPrec = 5
  GuardBits = 2
  Pow5Table = 2
  GoMaxExp = 20
  ExpMax = 99
  Saturated = 5
  PrecMax = 41
  MaxDigits = 3
  MaxExponent = 12
  Limbs <- MCLimbs
  MaxDividend = 4
  MaxDivisor = 3
  Wholes <- MCWholes
  Fracs <- MCFracs
  Exps <- MCExps
  Odd <- MCOdd
  PrecSuffixes <- MCSuffixes
  Mags <- MCMags
  Exponents <- MCExponents
  Precs <- MCPrecs
  Scales <- MCScales
  ExponentBounds <- MCExponentBounds
  DigitBounds <- MCDigitBounds
INVARIANTS
  DivideTracks
  ArithmeticExact
  LiteralNearest
  FloatOneForm
  LiteralSurvives
  DecimalOneForm
