----------------------------- MODULE BigNumbers -----------------------------
(***************************************************************************)
(* Big numbers at work.  A job is one number on its way through the code:  *)
(* a division in class Nat, one quotient digit per step; a BigFloat that   *)
(* arrives as a PXF literal or as a message, or that a program filled in   *)
(* itself, and is sent as a message and written as a literal, each read    *)
(* back by its reader; a Decimal or BigInt message, the same way.          *)
(***************************************************************************)
EXTENDS PbBig

CONSTANTS Limbs, MaxDividend, MaxDivisor,   \* the operands of divisions
          Wholes, Fracs, Exps, Odd,         \* the parts of literals; malformed ones
          PrecSuffixes,                         \* precision suffixes
          Mags, Exponents, Precs,           \* BigFloat messages
          Scales,                           \* Decimal messages
          ExponentBounds, DigitBounds       \* UnmarshalOptions; 0 is the default

VARIABLE job

DivJob == \E n \in 1..MaxDividend, l \in 1..MaxDivisor :
            \E a \in [1..n -> Limbs], d \in [1..l -> Limbs] :
              /\ a[n] # 0 /\ d[l] # 0
              /\ job = [kind |-> "div", st |-> "start", a |-> a, d |-> d]

TextJob(s, suffix) == job = [kind |-> "float", at |-> "text", text |-> s, suffix |-> suffix]

LiteralJob == \E neg \in {<<>>, <<"-">>}, w \in Wholes, f \in Fracs, e \in Exps, suffix \in PrecSuffixes :
                TextJob(neg \o w \o f \o e, suffix)

FloatJob == \E mag \in Mags, e \in Exponents, p \in Precs, neg \in BOOLEAN,
               maxE \in ExponentBounds, maxD \in DigitBounds :
              job = [kind |-> "float", at |-> "wire", maxE |-> maxE, maxD |-> maxD,
                     w |-> [mag |-> <<mag>>, exponent |-> <<e>>, prec |-> <<p>>, neg |-> neg]]

\* A struct or a protobuf message with its fields as they were set: pb::Marshal
\* and pxf's ReadBigFloatAsString take any, its mantissa wider than prec or not.
SetJob == \E mag \in Mags, e \in Exponents \cap GoMinExp..GoMaxExp, p \in Precs \cap 0..PrecMax, neg \in BOOLEAN :
            job = [kind |-> "float", at |-> "held", v |-> [mag |-> mag, exponent |-> e, prec |-> p, neg |-> neg]]

DecimalJob == \E mag \in Mags, scale \in Scales, neg \in BOOLEAN, maxD \in DigitBounds :
                job = [kind |-> "decimal", at |-> "wire", maxD |-> maxD,
                       w |-> [mag |-> <<mag>>, scale |-> <<scale>>, neg |-> neg]]

Init == DivJob \/ LiteralJob \/ (\E s \in Odd, suffix \in PrecSuffixes : TextJob(s, suffix)) \/ FloatJob \/ SetJob \/ DecimalJob
-----------------------------------------------------------------------------
Begin == /\ job.kind = "div" /\ job.st = "start"
         /\ job' = [kind |-> "div"] @@ DivStart(job.a, job.d)

Digit == /\ job.kind = "div" /\ job.st = "digits" /\ job.k >= 0
         /\ job' = DivDigit(job)

End == /\ job.kind = "div" /\ job.st = "digits" /\ job.k < 0
       /\ job' = DivEnd(job)

\* The BigFloat a parsed literal fills: its mantissa as bytes.
Held(f) == [neg |-> f.neg, mag |-> CarryBytes(f.mantissa), exponent |-> f.exponent, prec |-> f.prec]
AsFields(v) == Fields(v.neg, MagValue(v.mag), v.exponent, v.prec)

ReadText == /\ job.kind = "float" /\ job.at = "text"
            /\ LET r == ParseBigFloatLiteral(job.text, job.suffix, MaxDigits, MaxExponent)
               IN job' = [job EXCEPT !.at = IF r.st = "ok" THEN "held" ELSE "refused"]
                         @@ (IF r.st = "ok" THEN [v |-> Held(r)] ELSE [why |-> r.st])

ReadWire == /\ job.kind # "div" /\ job.at = "wire"
            /\ LET r == IF job.kind = "float" THEN UnmarshalBigFloatMsg(job.w, job.maxE, job.maxD)
                        ELSE UnmarshalDecimalMsg(job.w, job.maxD)
               IN job' = [job EXCEPT !.at = IF r.st = "ok" THEN "held" ELSE "refused"]
                         @@ (IF r.st = "ok" THEN [v |-> r.v] ELSE [why |-> r.st])

\* pb writes the message and the text is written, each from the value held.
Produce == /\ job.kind # "div" /\ job.at = "held"
           /\ job' = [job EXCEPT !.at = "sent"] @@
                (IF job.kind = "float"
                 THEN [out |-> MarshalBigFloatMsg(job.v),
                       lit |-> FormatBigFloatLiteral(AsFields(job.v), MaxDigits, MaxExponent)]
                 ELSE [out |-> MarshalDecimalMsg(job.v), lit |-> FormatDecimal(job.v),
                       int |-> MarshalBigIntMsg(job.v), intLit |-> FormatBigInt(job.v)])

\* What was refused stays refused.
Consume == /\ job.kind # "div" /\ job.at = "sent"
           /\ LET received == IF job.out.st # "ok" THEN job.out
                              ELSE IF job.kind = "float" THEN UnmarshalBigFloatMsg(job.out.w, 0, 0)
                              ELSE UnmarshalDecimalMsg(job.out.w, 0)
                  parsed == IF job.lit.st # "ok" THEN job.lit
                            ELSE IF job.kind = "float"
                            THEN ParseBigFloatLiteral(job.lit.text, job.lit.suffix, MaxDigits, MaxExponent)
                            ELSE ParseDecimal(job.lit.text)
              IN job' = [job EXCEPT !.at = "back"] @@ [received |-> received, parsed |-> parsed]

Done == /\ \/ job.kind = "div" /\ job.st = "done"
           \/ job.kind # "div" /\ job.at \in {"back", "refused"}
        /\ UNCHANGED job

Next == Begin \/ Digit \/ End \/ ReadText \/ ReadWire \/ Produce \/ Consume \/ Done

Spec == Init /\ [][Next]_job
-----------------------------------------------------------------------------
Trimmed(w) == w = <<>> \/ Last(w) # 0

\* In DivMod the dividend stays the quotient found so far times the divisor
\* plus what is left of it, and what is left is always below the divisor at
\* the next digit's place, so no digit overflows its limb: with the guess of
\* a digit corrected by two tests and by the divisor added back when it was
\* still one too large.  At the end quotient and remainder are the numbers'.
DivideTracks ==
  job.kind = "div" =>
    /\ job.st = "digits" =>
         /\ Value(Shl(job.a, job.shift)) = Value(job.q) * Value(job.v) + Value(job.u)
         /\ Value(job.u) < Value(job.v) * Base ^ (job.k + 1)
    /\ job.st = "done" =>
         /\ Value(job.a) = Value(job.q) * Value(job.d) + Value(job.r)
         /\ Value(job.r) < Value(job.d)
         /\ Trimmed(job.q) /\ Trimmed(job.r)

RECURSIVE RadixValue(_)
RadixValue(ds) == IF ds = <<>> THEN 0 ELSE Radix * RadixValue(Front(ds)) + Last(ds)

\* Class Nat computes what numbers do, on limbs with no leading zero limb:
\* products, differences, comparisons, shifts, rounding to a bit count, bytes
\* and decimal digits, at every limb and bit boundary.
ArithmeticExact ==
  job.kind = "div" /\ job.st = "start" =>
    LET a == job.a  d == job.d  va == Value(job.a)  vd == Value(job.d)
        is(w, v) == Value(w) = v /\ Trimmed(w)
    IN /\ is(Mul(a, d), va * vd)
       /\ is(AddSmall(a, d[1]), va + d[1]) /\ is(MulSmall(a, d[1]), va * d[1])
       /\ Cmp(a, d) = (IF va < vd THEN -1 ELSE IF va > vd THEN 1 ELSE 0)
       /\ va >= vd => is(SubLimbs(a, d), va - vd)
       /\ \A n \in 0..(2 * LimbBits + 1) :
            /\ is(Shl(d, n), vd * 2 ^ n) /\ is(Shr(a, n), va \div 2 ^ n)
            /\ n > 0 => \A sticky \in BOOLEAN :
                 LET r == RoundToBits(a, n, sticky)
                     s == RoundBits(va, n, sticky)
                 IN is(r.m, s.m) /\ r.shift = s.shift
       /\ FromBytes(ToBytes(a)) = a /\ MagValue(ToBytes(a)) = va
       /\ RadixValue(ToDecimal(a)) = va /\ ToDecimal(a)[1] # 0
       /\ \A n \in 0..4 : is(Pow10(n), Radix ^ n)
-----------------------------------------------------------------------------
Abs(x) == IF x < 0 THEN -x ELSE x
\* |m * 2^e - num / den| on the scale of den and of 2^at, at not above e.
Distance(m, e, at, num, den) == Abs(m * 2 ^ (e - at) * den - num * 2 ^ (IF at < 0 THEN -at ELSE 0))

\* No value of prec bits is nearer to num/den than m * 2^e, nor as near with
\* an even mantissa when m is odd.
NearestEven(m, e, num, den, prec) ==
  LET at == IF e - 1 < 0 THEN e - 1 ELSE 0
      mine == Distance(m, e, at, num, den)
  IN /\ BitLength(m) = prec
     /\ \A n \in (2 ^ (prec - 1))..(2 ^ prec - 1), x \in (e - 1)..(e + 1) :
          (x >= at /\ <<n, x>> # <<m, e>>) =>
             \/ Distance(n, x, at, num, den) > mine
             \/ Distance(n, x, at, num, den) = mine /\ (m % 2 = 0 \/ x < e)

\* The fraction a literal spells, and the precision its suffix asks for.
Numerator(lit) == NumberOf(lit.digits) * (IF lit.exp10 > 0 THEN 10 ^ lit.exp10 ELSE 1)
Denominator(lit) == IF lit.exp10 < 0 THEN 10 ^ (-lit.exp10) ELSE 1
AskedPrec(suffix) == IF suffix = <<>> THEN DefaultPrec ELSE NumberOf(suffix)

ValueOfLiteral(v, lit, suffix) ==
  /\ v.neg = lit.neg
  /\ IF lit.digits = <<>> THEN v.mag = <<>> /\ v.prec = (IF suffix = <<>> THEN 0 ELSE NumberOf(suffix))
     ELSE /\ v.prec = AskedPrec(suffix)
          /\ ~ExceedsBound(v.exponent + MagBits(v.mag), MaxExponent)
          /\ NearestEven(MagValue(v.mag), v.exponent, Numerator(lit), Denominator(lit), v.prec)

\* A number is a hair from where rounding carries it to the next power of two: within
\* the last bit that big.Float.Parse keeps of its power of five.
HairFromCarry(num, den, prec) ==
  LET e == ExactExponentAndCarry(num, den, prec).e
      unit == e - prec - 1
      scaled == num * (IF unit < 0 THEN 2 ^ (-unit) ELSE 1)
      tie == (2 ^ (prec + 1) - 1) * den * (IF unit > 0 THEN 2 ^ unit ELSE 1)
  IN Abs(scaled - tie) <= (tie \div (2 ^ (prec + 1) - 1)) \div 2 ^ (GuardBits - 1)

\* Why a literal of value num/den may be refused for its magnitude.
PastOrAtBound(num, den, prec) ==
  LET bin == RoundedBinaryExponent(num, den, prec)
  IN ExceedsBound(bin, MaxExponent) \/ (Abs(bin) = MaxExponent /\ HairFromCarry(num, den, prec))

\* A literal that is accepted becomes the value of prec bits nearest to the
\* number it spells, ties to even, and that value is within the bound.
\* Where it lies is asked first of big.Float.Parse's rounded powers of five:
\* a literal within the digits is refused for its magnitude when its rounded
\* value is past MaxBigFloatExponent and, as in Go, may be when that value is
\* exactly at the bound and the literal is a hair from the rounding carry.
\* No error of Parse's refuses a literal inside the bound or elsewhere at it,
\* and the two ways to the exponent never disagree.
LiteralNearest ==
  job.kind = "float" /\ "text" \in DOMAIN job =>
    LET lit == SplitLiteral(job.text)
    IN /\ job.at = "held" => lit.ok /\ ValueOfLiteral(job.v, lit, job.suffix)
       /\ job.at = "refused" =>
            /\ job.why # "internal error"
            /\ job.why \in {"past bound", "above range", "below range", "below wire"} /\ lit.ok =>
                 \/ lit.exp10 \notin (-7)..5   \* past the bound with MaxDigits digits
                 \/ PastOrAtBound(Numerator(lit), Denominator(lit), AskedPrec(job.suffix))
-----------------------------------------------------------------------------
\* Two BigFloats are one value: m1 * 2^e1 = m2 * 2^e2, and one precision.
SameFloat(v, x) ==
  LET low == IF v.exponent < x.exponent THEN v.exponent ELSE x.exponent
  IN /\ v.neg = x.neg /\ v.prec = x.prec
     /\ MagValue(v.mag) * 2 ^ (v.exponent - low) = MagValue(x.mag) * 2 ^ (x.exponent - low)

IsFloat(stage) == job.kind = "float" /\ job.at = stage

\* The value a BigFloat stands for: its mantissa rounded to prec, and zero
\* whatever its exponent when the mantissa or prec is.
Canonical(v) ==
  LET f == AsFields(v)
      r == RoundedMantissa(f)
  IN IF v.prec = 0 \/ f.mantissa = 0 THEN [v EXCEPT !.mag = <<>>, !.exponent = 0]
     ELSE [v EXCEPT !.mag = CarryBytes(r.m), !.exponent = r.exponent]

PastBound(v) == MagValue(v.mag) # 0 /\ ExceedsBound(v.exponent + BitLength(MagValue(v.mag)), MaxExponent)

\* A BigFloat, read or filled in, goes out in one form and survives it: the
\* message Marshal writes is one Unmarshal accepts, holding the same value
\* in a mantissa of exactly prec bits, and writing what was read gives the
\* same message again.  Marshal refuses a value for the limits alone: its
\* digits, or an exponent past the bound once it is rounded, which a mantissa
\* stored at the bound may be by a carry.
FloatOneForm ==
  IsFloat("back") =>
    /\ job.out.st = "ok" =>
         /\ job.received.st = "ok" /\ SameFloat(Canonical(job.v), job.received.v)
         /\ job.received.v.mag # <<>> => MagBits(job.received.v.mag) = job.v.prec
         /\ MarshalBigFloatMsg(job.received.v) = job.out
    /\ (job.out.st # "ok") <=> (PastBound(Canonical(job.v)) \/ BigFloatPrecDigits(job.v.prec) > MaxDigits)

\* Every literal written is read back as the value it was written from, at
\* its precision: the digits N of a precision are enough to recover every
\* value of it.  pxf writes a literal exactly when pb writes a message and
\* the exponent was within the bound before rounding too: a value that rounds
\* past the bound is written by neither, and one stored below it that rounds
\* up onto it by pb alone.
LiteralSurvives ==
  IsFloat("back") =>
    /\ job.lit.st = "ok" => job.parsed.st = "ok" /\ SameFloat(Canonical(job.v), Held(job.parsed))
    /\ (job.lit.st = "ok") <=> (job.out.st = "ok" /\ (job.v.prec = 0 \/ ~PastBound(job.v)))

\* A Decimal goes out with the smallest scale that holds it, and in no
\* other form: the message read back is the same number, its scale zero or
\* its last digit not zero, and it is never one Unmarshal refuses.  As text
\* it keeps its scale and reads back the same.  A BigInt does the same, with
\* no -0 either way.
DecimalOneForm ==
  job.kind = "decimal" /\ job.at = "back" =>
    LET v == job.v  r == job.received.v
        same(x, y) == MagValue(x.mag) * Radix ^ (IF y.scale > x.scale THEN y.scale - x.scale ELSE 0) =
                      MagValue(y.mag) * Radix ^ (IF x.scale > y.scale THEN x.scale - y.scale ELSE 0)
    IN /\ job.out.st = "ok" =>
            /\ job.received.st = "ok" /\ same(v, r) /\ r.neg = v.neg
            /\ r.scale >= 0 /\ (r.scale = 0 \/ MagValue(r.mag) % Radix # 0)
            /\ MarshalDecimalMsg(r) = job.out
       /\ job.out.st # "ok" => v.scale > MaxDigits \/ v.scale < -MaxDigits
       /\ job.lit.st = "ok" =>
            /\ job.parsed.st = "ok" /\ same(v, job.parsed.v) /\ job.parsed.v.neg = v.neg
            /\ job.parsed.v.scale = (IF v.scale < 0 THEN 0 ELSE v.scale)
       /\ UnmarshalBigIntMsg(job.int) = Signed(v.neg, v.mag)
       /\ job.intLit.st = "ok" => ParseBigInt(job.intLit.text).v = Signed(v.neg, v.mag)
=============================================================================
