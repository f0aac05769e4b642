------------------------------ MODULE BigFloat ------------------------------
(***************************************************************************)
(* pxf.BigFloat as text, src/pxf/bigfloat.cc: ParseBigFloatLiteral, which  *)
(* turns a decimal literal with an optional precision suffix into a        *)
(* mantissa, an exponent and a precision, and FormatBigFloatLiteral, which *)
(* writes one.  A literal is a sequence of characters; a Nat is a number,  *)
(* and BigNat has the arithmetic.  The widths of the code's integers and   *)
(* its guard bits are constants, so that the numbers TLC handles reach     *)
(* them.                                                                   *)
(***************************************************************************)
EXTENDS BigNat

CONSTANTS DefaultPrec,   \* kDefaultPrec, 256
          CheckPrec,     \* kCheckPrec, 2^14
          GuardBits,     \* 64: what big.Float.Parse keeps beyond prec
          Pow5Table,     \* 27: the last power of five it has exactly
          GoMaxExp,      \* kGoMaxExp, INT32_MAX
          ExpMax,        \* INT64_MAX, for a literal's written exponent
          Saturated,     \* kSaturated, 2^55
          PrecMax        \* UINT32_MAX

ASSUME WidthAssumption ==
  /\ {DefaultPrec, CheckPrec, GuardBits, Pow5Table, GoMaxExp} \subseteq Nat \ {0}
  /\ GoMaxExp < Saturated * 10 /\ Saturated * 10 <= ExpMax /\ GoMaxExp < PrecMax

GoMinExp == -GoMaxExp - 1
Numerals == <<"0", "1", "2", "3", "4", "5", "6", "7", "8", "9">>
IsDigit(c) == c \in ToSet(Numerals)
DigitValue(c) == CHOOSE d \in 0..9 : Numerals[d + 1] = c

RECURSIVE NumberOf(_)
NumberOf(ds) == IF ds = <<>> THEN 0 ELSE 10 * NumberOf(Front(ds)) + DigitValue(Last(ds))
RECURSIVE Digits(_)
Digits(n) == IF n < 10 THEN <<Numerals[n + 1]>> ELSE Digits(n \div 10) \o <<Numerals[(n % 10) + 1]>>

\* Where the run of digits that starts at i ends.
DigitsEnd(s, i) == CHOOSE j \in i..(Len(s) + 1) : /\ \A k \in i..(j - 1) : IsDigit(s[k])
                                                  /\ j = Len(s) + 1 \/ ~IsDigit(s[j])
At(s, i, chars) == i \in 1..Len(s) /\ s[i] \in chars
Width(b) == IF b THEN 1 ELSE 0

\* RoundToBits on numbers: the top bits of m, ties to even, and the shift.
RoundBits(m, bits, sticky) ==
  LET shift == BitLength(m) - bits
      kept == m \div 2 ^ shift
      rest == m % 2 ^ shift
      half == 2 ^ (shift - 1)
  IN IF shift <= 0 THEN [m |-> m, shift |-> 0]
     ELSE [m |-> IF rest > half \/ (rest = half /\ (sticky \/ kept % 2 = 1)) THEN kept + 1 ELSE kept,
           shift |-> shift]

\* Mutant: the digits of 2^prec, and no more.
PrecDigitsOnly(prec) == LET log == 19728
                        IN (prec * (log \div 256) + (prec * (log % 256)) \div 256) \div 256 + 1

\* detail::Pow2Digits by its fixed-point product, the fraction cut to 16 bits,
\* and the digits a literal of that precision needs.
BigFloatPrecDigits(prec) == LET log == 19728
                            IN (prec * (log \div 256) + (prec * (log % 256)) \div 256) \div 256 + 2
-----------------------------------------------------------------------------
RECURSIVE SaturatingExponent(_, _)
SaturatingExponent(ds, e) ==
  IF ds = <<>> THEN e
  ELSE IF e < Saturated THEN SaturatingExponent(Tail(ds), e * 10 + DigitValue(Head(ds)))
  ELSE Saturated * 10

RECURSIVE DropZeros(_)
DropZeros(ds) == IF ds # <<>> /\ Head(ds) = "0" THEN DropZeros(Tail(ds)) ELSE ds

\* value = digits * 10^exp10, the digits with no zero at either end.
Literal(neg, digits, exp10) ==
  LET kept == Reverse(DropZeros(Reverse(digits)))
  IN [ok |-> TRUE, neg |-> neg, digits |-> DropZeros(kept),
      exp10 |-> IF kept = <<>> THEN 0 ELSE exp10 + Len(digits) - Len(kept)]

SplitLiteral(s) ==
  LET first == 1 + Width(At(s, 1, {"-", "+"}))
      whole == DigitsEnd(s, first)
      point == At(s, whole, {"."})
      frac == IF point THEN DigitsEnd(s, whole + 1) ELSE whole
      hasExp == At(s, frac, {"e", "E"})
      exp == frac + 1 + Width(At(s, frac + 1, {"+", "-"}))
      end == IF hasExp THEN DigitsEnd(s, exp) ELSE frac
      e == IF hasExp THEN SaturatingExponent(SubSeq(s, exp, end - 1), 0) ELSE 0
      scale == IF point THEN frac - whole - 1 ELSE 0
  IN IF \/ whole = first /\ ~(point /\ At(s, whole + 1, ToSet(Numerals)))
        \/ hasExp /\ (exp > Len(s) \/ end = exp)
        \/ end # Len(s) + 1
     THEN [ok |-> FALSE]
     ELSE Literal(At(s, 1, {"-"}), SelectSeq(SubSeq(s, first, frac - 1), IsDigit),
                  (IF At(s, frac + 1, {"-"}) THEN -e ELSE e) - scale)

RECURSIVE ExponentMagnitude(_, _, _)
\* strconv.ParseInt's magnitude, -1 where it passes the limit.
ExponentMagnitude(ds, mag, limit) ==
  IF ds = <<>> THEN mag
  ELSE LET d == DigitValue(Head(ds))
       IN IF mag > (limit - d) \div 10 THEN -1 ELSE ExponentMagnitude(Tail(ds), mag * 10 + d, limit)

\* A literal as big.Float.Parse scans it.  SplitLiteral accepted it.
ScanLikeGo(s) ==
  LET first == 1 + Width(At(s, 1, {"-", "+"}))
      end == CHOOSE j \in first..(Len(s) + 1) :
                /\ \A k \in first..(j - 1) : IsDigit(s[k]) \/ s[k] = "."
                /\ j = Len(s) + 1 \/ ~(IsDigit(s[j]) \/ s[j] = ".")
      neg == At(s, end + 1, {"-"})
      exp == end + 1 + Width(At(s, end + 1, {"+", "-"}))
      mag == ExponentMagnitude(SubSeq(s, exp, Len(s)), 0, ExpMax + Width(neg))
      points == {k \in first..(end - 1) : s[k] = "."}
  IN [ok |-> mag >= 0, mant |-> NumberOf(SelectSeq(SubSeq(s, first, end - 1), IsDigit)),
      frac |-> IF points = {} THEN 0 ELSE end - 1 - (CHOOSE k \in points : TRUE),
      exp |-> IF neg THEN -mag ELSE mag]

\* The significant digits a literal is bounded by.
CountLiteralDigits(s) ==
  LET end == CHOOSE j \in 1..(Len(s) + 1) : /\ \A k \in 1..(j - 1) : s[k] \notin {"e", "E", "p"}
                                            /\ j = Len(s) + 1 \/ s[j] \in {"e", "E", "p"}
  IN Len(DropZeros(SelectSeq(SubSeq(s, 1, end - 1), IsDigit)))

\* A suffix's bit count, 0 where it is not one; a long one is refused unread.
ParsePrecision(ds) ==
  IF Len(ds) > Len(Digits(PrecMax)) \/ ~(\A i \in 1..Len(ds) : IsDigit(ds[i])) THEN 0
  ELSE IF NumberOf(ds) > PrecMax THEN 0 ELSE NumberOf(ds)
-----------------------------------------------------------------------------
(* big.Float.Parse as the code follows it.                                 *)

Finite(m, exp) == [form |-> "finite", m |-> m, exp |-> exp]
GoZero == [form |-> "zero"]
GoInf == [form |-> "inf"]

SetExpAndRound(m, exp, prec) ==
  LET r == RoundBits(m, prec, FALSE)
  IN CASE exp < GoMinExp -> GoZero
       [] exp > GoMaxExp -> GoInf
       [] exp \in GoMinExp..GoMaxExp /\ BitLength(r.m) <= prec -> Finite(r.m, exp)
       [] OTHER -> IF exp >= GoMaxExp THEN GoInf ELSE Finite(r.m \div 2, exp + 1)

GoMul(x, y, prec) ==
  IF x.form = "finite" /\ y.form = "finite"
  THEN SetExpAndRound(x.m * y.m,
         x.exp + y.exp - (BitLength(x.m) + BitLength(y.m) - BitLength(x.m * y.m)), prec)
  ELSE IF "inf" \in {x.form, y.form} THEN GoInf ELSE GoZero

RECURSIVE SquareAndMultiply(_, _, _, _)
SquareAndMultiply(z, f, n, prec) ==
  LET product == IF n % 2 = 1 THEN GoMul(z, f, prec) ELSE z
  IN IF n = 0 THEN z
     ELSE IF n = 1 THEN product
     ELSE SquareAndMultiply(product, GoMul(f, f, prec + GuardBits), n \div 2, prec)

GoPow5(n, prec) ==
  LET exact(k) == Finite(5 ^ k, BitLength(5 ^ k))
  IN IF n <= Pow5Table THEN exact(n)
     ELSE SquareAndMultiply(exact(Pow5Table), exact(1), n - Pow5Table, prec)

\* The exponent of num/den, and whether rounding to prec bits carries it.
ExactExponentAndCarry(num, den, prec) ==
  LET A(at) == IF at >= 0 THEN den * 2 ^ at ELSE den
      B(at) == IF at >= 0 THEN num ELSE num * 2 ^ (-at)
      lens == BitLength(num) - BitLength(den)
      e == IF B(lens) >= A(lens) THEN lens + 1 ELSE lens
  IN [e |-> e, carries |-> /\ prec + 1 < BitLength(A(e))
                           /\ A(e) - B(e) <= A(e) \div 2 ^ (prec + 1)]

RoundedBinaryExponent(num, den, prec) ==
  LET r == ExactExponentAndCarry(num, den, prec) IN r.e + Width(r.carries)

\* The quotient's range and exponent; its mantissa is not made.
GoQuo(m, exp2, p, prec) ==
  LET r == ExactExponentAndCarry(m, p.m, prec)
      exp == r.e + (exp2 - BitLength(m)) - (p.exp - BitLength(p.m))
  IN CASE exp < GoMinExp -> GoZero
       [] exp > GoMaxExp \/ (r.carries /\ exp >= GoMaxExp) -> GoInf
       [] OTHER -> Finite(0, exp + Width(r.carries))

\* form "error" where big.Float.Parse fails.
GoParse(scan, prec) ==
  LET bits == BitLength(scan.mant)
      exp2 == bits - scan.frac + scan.exp
      exp5 == exp2 - bits
      reach == exp2 * 10000 + exp5 * 23219
      power == GoPow5(IF exp5 < 0 THEN -exp5 ELSE exp5, prec + GuardBits)
  IN CASE scan.mant = 0 -> GoZero
       [] scan.mant # 0 /\ exp2 \notin GoMinExp..GoMaxExp -> [form |-> "error"]
       [] scan.mant # 0 /\ exp2 \in GoMinExp..GoMaxExp ->
            CASE exp5 = 0 -> SetExpAndRound(scan.mant, exp2, prec)
              [] exp5 < 0 /\ reach + 40000 < GoMinExp * 10000 -> GoZero
              [] exp5 > 0 /\ reach - 40000 > GoMaxExp * 10000 -> GoInf
              [] OTHER -> IF exp5 > 0 THEN GoMul(Finite(scan.mant, exp2), power, prec)
                          ELSE IF power.form = "inf" THEN GoZero
                          ELSE GoQuo(scan.mant, exp2, power, prec)
-----------------------------------------------------------------------------
Refused(why) == [st |-> why]
Fields(neg, mantissa, exponent, prec) ==
  [st |-> "ok", neg |-> neg, mantissa |-> mantissa, exponent |-> exponent, prec |-> prec]
ExceedsBound(e, limit) == e > limit \/ e < -limit
BelowWire(e, prec) == e - prec < GoMinExp

\* The prec-bit mantissa nearest num/den, and its exponent.
DivideAndRound(neg, num, den, prec, bin) ==
  LET scale == prec + 2 - BitLength(num) + BitLength(den)
      n == IF scale >= 0 THEN num * 2 ^ scale ELSE num
      d == IF scale >= 0 THEN den ELSE den * 2 ^ (-scale)
      r == RoundBits(n \div d, prec, n % d # 0)
      carried == BitLength(r.m) > prec
      q == IF carried THEN r.m \div 2 ELSE r.m
      exponent == -scale + r.shift + Width(carried)
  IN IF exponent + BitLength(q) # bin THEN Refused("internal error") ELSE Fields(neg, q, exponent, prec)

\* The exact value rounded once, the limits asked again of its exponent.
ExactValue(lit, prec, maxExponent) ==
  LET digits == NumberOf(lit.digits)
      num == IF lit.exp10 >= 0 THEN digits * 10 ^ lit.exp10 ELSE digits
      den == IF lit.exp10 >= 0 THEN 1 ELSE 10 ^ (-lit.exp10)
      bin == RoundedBinaryExponent(num, den, prec)
  IN CASE ExceedsBound(bin, maxExponent) -> Refused("past bound")
       [] ~ExceedsBound(bin, maxExponent) /\ BelowWire(bin, prec) -> Refused("below wire")
       [] OTHER -> DivideAndRound(lit.neg, num, den, prec, bin)

\* Mutant: the exponent of a capped Parse is held to the bound as it is.
PlaceAtBound(lit, go, prec, suffixed, maxExponent) ==
  CASE go.form = "error" -> Refused("invalid")
    [] go.form # "error" /\ lit.digits = <<>> -> Fields(lit.neg, 0, 0, IF suffixed THEN prec ELSE 0)
    [] go.form = "inf" -> Refused("above range")
    [] go.form = "zero" /\ lit.digits # <<>> -> Refused("below range")
    [] go.form = "finite" -> IF ExceedsBound(go.exp, maxExponent) THEN Refused("past bound")
                             ELSE ExactValue(lit, prec, maxExponent)

\* The questions asked of what big.Float.Parse made of the literal.
PlaceThenRound(lit, go, prec, suffixed, maxExponent) ==
  CASE go.form = "error" -> Refused("invalid")
    [] go.form # "error" /\ lit.digits = <<>> -> Fields(lit.neg, 0, 0, IF suffixed THEN prec ELSE 0)
    [] go.form = "inf" -> Refused("above range")
    [] go.form = "zero" /\ lit.digits # <<>> -> Refused("below range")
    [] go.form = "finite" ->
         CASE prec > GoMaxExp -> Refused("too wide")
           [] prec <= GoMaxExp /\ BelowWire(go.exp, prec) -> Refused("below wire")
           [] OTHER ->
                IF ExceedsBound(IF prec > CheckPrec /\ go.exp > 0 THEN go.exp - 1 ELSE go.exp, maxExponent)
                THEN Refused("past bound") ELSE ExactValue(lit, prec, maxExponent)

Scanned(lit, scan, prec, suffixed, maxExponent) ==
  IF ~lit.ok \/ ~scan.ok THEN Refused("invalid")
  ELSE PlaceThenRound(lit, GoParse(scan, IF prec > CheckPrec THEN CheckPrec ELSE prec),
                      prec, suffixed, maxExponent)

IsInfinity(s) == SubSeq(s, 1 + Width(At(s, 1, {"-", "+"})), Len(s)) \in {<<"i", "n", "f">>, <<"I", "n", "f">>}

\* s is the literal, suffix the digits after its "p".
ParseBigFloatLiteral(s, suffix, maxDigits, maxExponent) ==
  LET suffixed == suffix # <<>>
      prec == IF suffixed THEN ParsePrecision(suffix) ELSE DefaultPrec
      lit == SplitLiteral(s)
  IN CASE suffixed /\ prec = 0 -> Refused("bad suffix")
       [] suffixed /\ prec # 0 /\ BigFloatPrecDigits(prec) > maxDigits -> Refused("suffix digits")
       [] OTHER -> IF CountLiteralDigits(s) > maxDigits THEN Refused("digits")
                   ELSE IF IsInfinity(s) THEN Refused("above range")
                   ELSE Scanned(lit, IF lit.ok THEN ScanLikeGo(s) ELSE lit, prec, suffixed, maxExponent)
-----------------------------------------------------------------------------
RoundedMantissa(f) == LET r == RoundBits(f.mantissa, f.prec, FALSE)
                      IN [m |-> r.m, exponent |-> f.exponent + r.shift]

CheckBigFloatLimits(f, maxDigits, maxExponent) ==
  LET r == RoundedMantissa(f)
  IN CASE f.mantissa # 0 /\ ExceedsBound(f.exponent + BitLength(f.mantissa), maxExponent) -> "exponent"
       [] f.mantissa # 0 /\ ExceedsBound(r.exponent + BitLength(r.m), maxExponent) -> "rounded exponent"
       [] OTHER -> IF BigFloatPrecDigits(f.prec) > maxDigits THEN "digits" ELSE "none"

RECURSIVE Decimate(_, _, _, _)
\* x with value in [10^x, 10^(x+1)), from an estimate at most one off, and
\* the division that has the digits.
Decimate(num, den, digits, x) ==
  LET p == digits - 1 - x
      a == IF p >= 0 THEN num * 10 ^ p ELSE num
      d == IF p >= 0 THEN den ELSE den * 10 ^ (-p)
      q == a \div d
  IN IF q >= 10 ^ digits THEN Decimate(num, den, digits, x + 1)
     ELSE IF q < 10 ^ (digits - 1) THEN Decimate(num, den, digits, x - 1)
     ELSE [x |-> x, q |-> q, r |-> a % d, d |-> d]

Estimate(bin) == LET t == (bin - 1) * 30103
                 IN IF t < 0 THEN -((-t) \div 100000) - 1 ELSE t \div 100000

\* The digits rounded half to even; 99...9 may round up to the next power.
RoundedDigits(c, digits) ==
  LET q == IF 2 * c.r > c.d \/ (2 * c.r = c.d /\ c.q % 2 = 1) THEN c.q + 1 ELSE c.q
  IN IF q = 10 ^ digits THEN [q |-> 10 ^ (digits - 1), x |-> c.x + 1] ELSE [q |-> q, x |-> c.x]

\* C's %g.
Printed(d, x, digits) ==
  LET zeros(n) == [i \in 1..n |-> "0"]
      magnitude == Digits(IF x < 0 THEN -x ELSE x)
  IN CASE x < -4 \/ x >= digits ->
            <<d[1]>> \o (IF Len(d) > 1 THEN <<".">> \o Tail(d) ELSE <<>>)
              \o <<"e", IF x < 0 THEN "-" ELSE "+">> \o zeros(2 - Len(magnitude)) \o magnitude
       [] x \in -4..(-1) -> <<"0", ".">> \o zeros(-x - 1) \o d
       [] OTHER -> IF Len(d) <= x + 1 THEN d \o zeros(x + 1 - Len(d))
                   ELSE SubSeq(d, 1, x + 1) \o <<".">> \o SubSeq(d, x + 2, Len(d))

PrintRounded(c, digits) == Printed(Reverse(DropZeros(Reverse(Digits(c.q)))), c.x, digits)

FormatMantissa(m, exponent, digits) ==
  PrintRounded(RoundedDigits(
    Decimate(IF exponent >= 0 THEN m * 2 ^ exponent ELSE m,
             IF exponent >= 0 THEN 1 ELSE 2 ^ (-exponent), digits, Estimate(exponent + BitLength(m))),
    digits), digits)

\* The literal and its suffix, or the limit the value is past.
FormatBigFloatLiteral(f, maxDigits, maxExponent) ==
  LET limit == CheckBigFloatLimits(f, maxDigits, maxExponent)
      r == RoundedMantissa(f)
      text(body) == (IF f.neg THEN <<"-">> ELSE <<>>) \o body
  IN CASE f.prec = 0 -> [st |-> "ok", text |-> text(<<"0">>), suffix |-> <<>>]
       [] f.prec # 0 /\ limit # "none" -> [st |-> limit]
       [] OTHER -> [st |-> "ok", suffix |-> Digits(f.prec),
                    text |-> text(IF r.m = 0 THEN <<"0">>
                                  ELSE FormatMantissa(r.m, r.exponent, BigFloatPrecDigits(f.prec)))]
=============================================================================
