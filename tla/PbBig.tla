-------------------------------- MODULE PbBig --------------------------------
(***************************************************************************)
(* The big numbers of src/pb/big.cc: pb::BigInt, pb::Decimal and           *)
(* pb::BigFloat hold their magnitude as big-endian bytes, and this module  *)
(* has the arithmetic on those bytes, the text forms and the messages      *)
(* Marshal writes and Unmarshal reads.  A message is a record with, for    *)
(* each field, the sequence of the values its occurrences carry, a number  *)
(* as its varint has it; ReadFields leaves the last of them.  Ten is Radix *)
(* here, as in BigNat.                                                     *)
(***************************************************************************)
EXTENDS BigFloat

CONSTANTS MaxDigits,     \* kMaxNumericLiteralDigits
          MaxExponent    \* kMaxBigFloatExponent

Byte == 2 ^ ByteBits

TrimLeadingZeros(mag) == Reverse(Trim(Reverse(mag)))
MagValue(mag) == LET sum[i \in 0..Len(mag)] == IF i = 0 THEN 0 ELSE sum[i - 1] * Byte + mag[i] IN sum[Len(mag)]

RECURSIVE CarryBytes(_)
\* The bytes inserted in front for what is left of a carry.
CarryBytes(carry) == IF carry = 0 THEN <<>> ELSE CarryBytes(carry \div Byte) \o <<carry % Byte>>

MulBy10(mag) ==
  LET n == Len(mag)
      v[i \in 1..n] == mag[i] * Radix + (IF i = n THEN 0 ELSE v[i + 1] \div Byte)
  IN IF n = 0 THEN <<>> ELSE CarryBytes(v[1] \div Byte) \o [i \in 1..n |-> v[i] % Byte]

AddU8(mag, a) ==
  LET n == Len(mag)
      s[i \in 1..n] == mag[i] + (IF i = n THEN a ELSE s[i + 1] \div Byte)
  IN CarryBytes(IF n = 0 THEN a ELSE s[1] \div Byte) \o [i \in 1..n |-> s[i] % Byte]

\* The quotient, with no leading zero byte, and the remainder.
DivBy10(mag) ==
  LET cur[i \in 1..Len(mag)] == (IF i = 1 THEN 0 ELSE (cur[i - 1] % Radix) * Byte) + mag[i]
  IN [q |-> TrimLeadingZeros([i \in 1..Len(mag) |-> cur[i] \div Radix]), r |-> cur[Len(mag)] % Radix]

MagBits(mag) == IF mag = <<>> THEN 0 ELSE (Len(mag) - 1) * ByteBits + BitLength(mag[1])

\* Drops the low n bits, 0 < n < the bit length, ties to even.
ShiftRightRounded(mag, n) ==
  LET bit(i) == (mag[Len(mag) - i \div ByteBits] \div 2 ^ (i % ByteBits)) % 2 = 1
      sticky == \E i \in 0..(n - 2) : bit(i)
      cut == SubSeq(mag, 1, Len(mag) - n \div ByteBits)
      moved == [i \in 1..Len(cut) |->
                  (((IF i = 1 THEN 0 ELSE cut[i - 1]) * Byte + cut[i]) \div 2 ^ (n % ByteBits)) % Byte]
  IN TrimLeadingZeros(IF bit(n - 1) /\ (sticky \/ Last(moved) % 2 = 1) THEN AddU8(moved, 1) ELSE moved)

ShiftLeft(mag, n) ==
  LET v[i \in 1..Len(mag)] == mag[i] * 2 ^ (n % ByteBits) + (IF i = Len(mag) THEN 0 ELSE v[i + 1] \div Byte)
      carry == v[1] \div Byte
  IN (IF carry # 0 THEN <<carry>> ELSE <<>>) \o [i \in 1..Len(mag) |-> v[i] % Byte] \o Zeros(n \div ByteBits)

RECURSIVE DigitsOf(_)
DigitsOf(mag) == IF mag = <<>> THEN <<>> ELSE DigitsOf(DivBy10(mag).q) \o <<DivBy10(mag).r>>

\* The digits of a magnitude, as numbers below Radix.
FormatMagnitude(mag) == IF mag = <<>> THEN <<0>> ELSE DigitsOf(mag)

RECURSIVE Accumulate(_, _)
Accumulate(mag, ds) == IF ds = <<>> THEN mag ELSE Accumulate(AddU8(MulBy10(mag), Head(ds)), Tail(ds))

Signed(neg, mag) == [neg |-> neg /\ mag # <<>>, mag |-> mag]
-----------------------------------------------------------------------------
(* The text forms: a sign, the digits before the point and those after it. *)

ParseBigInt(text) ==
  IF text.whole = <<>> THEN [st |-> "invalid"]
  ELSE [st |-> "ok", v |-> Signed(text.neg, TrimLeadingZeros(Accumulate(<<>>, text.whole)))]

ParseDecimal(text) ==
  IF text.whole = <<>> /\ text.frac = <<>> THEN [st |-> "invalid"]
  ELSE LET mag == TrimLeadingZeros(Accumulate(TrimLeadingZeros(Accumulate(<<>>, text.whole)), text.frac))
       IN [st |-> "ok", v |-> Signed(text.neg, mag) @@ [scale |-> Len(text.frac)]]

SignificantDigits(text) == Len(Trim(Reverse(text.whole \o text.frac)))

\* The length counts the sign and the point too; the digits decide.
BoundLiteral(text) ==
  LET length == Width(text.neg) + Len(text.whole) + (IF text.frac = <<>> THEN 0 ELSE 1 + Len(text.frac))
  IN IF length > MaxDigits /\ SignificantDigits(text) > MaxDigits THEN [st |-> "digits"]
     ELSE [st |-> "ok", text |-> text]

FormatBigInt(v) ==
  BoundLiteral([neg |-> v.neg /\ v.mag # <<>>, whole |-> FormatMagnitude(v.mag), frac |-> <<>>])

FormatDecimal(v) ==
  LET digits == FormatMagnitude(v.mag)
      padded == Zeros(v.scale + 1 - Len(digits)) \o digits
      point == Len(padded) - v.scale
      neg == v.neg /\ v.mag # <<>>
  IN CASE v.scale > MaxDigits \/ v.scale < -MaxDigits -> [st |-> "scale"]
       [] v.scale \in (-MaxDigits)..0 ->
            BoundLiteral([neg |-> neg, frac |-> <<>>,
                          whole |-> digits \o Zeros(IF v.mag = <<>> THEN 0 ELSE -v.scale)])
       [] OTHER -> BoundLiteral([neg |-> neg, whole |-> SubSeq(padded, 1, point),
                                 frac |-> SubSeq(padded, point + 1, Len(padded))])
-----------------------------------------------------------------------------
(* Decimal.scale: the value rewritten on limbs, a batch of digits a time.  *)

RECURSIVE ScaleUp(_, _)
ScaleUp(limbs, scale) ==
  LET step == IF -scale < Batch THEN -scale ELSE Batch
  IN IF scale >= 0 THEN [limbs |-> limbs, scale |-> scale]
     ELSE ScaleUp(MulSmall(limbs, Radix ^ step), scale + step)

RECURSIVE ScaleDown(_, _, _)
ScaleDown(limbs, scale, step) ==
  LET d == DivSmall(limbs, Radix ^ step)
  IN IF scale >= step /\ d.r = 0 THEN ScaleDown(d.q, scale - step, step)
     ELSE [limbs |-> limbs, scale |-> scale]

\* Mutant: whole batches of zeros only.
ReduceBatches(mag, scale) ==
  LET up == ScaleUp(FromBytes(mag), scale)
      batches == ScaleDown(up.limbs, up.scale, Batch)
  IN [mag |-> ToBytes(batches.limbs), scale |-> batches.scale]

\* The smallest scale >= 0 that holds a non-zero value exactly.
Reduce(mag, scale) ==
  LET up == ScaleUp(FromBytes(mag), scale)
      batches == ScaleDown(up.limbs, up.scale, Batch)
      ones == ScaleDown(batches.limbs, batches.scale, 1)
  IN [mag |-> ToBytes(ones.limbs), scale |-> ones.scale]
-----------------------------------------------------------------------------
(* The messages.                                                           *)

IntField(value) == IF value # 0 THEN <<value>> ELSE <<>>
\* A varint read as int32 and as uint32: its low bits.
Int32(x) == ((x - GoMinExp) % (GoMaxExp - GoMinExp + 1)) + GoMinExp
Uint32(x) == x % (PrecMax + 1)
\* The last of a field's occurrences, or its default.
LastOf(values, default) == IF values = <<>> THEN default ELSE Last(values)

MarshalBigIntMsg(v) == [mag |-> IF v.mag # <<>> THEN <<v.mag>> ELSE <<>>, neg |-> v.neg]

UnmarshalBigIntMsg(w) == Signed(w.neg, TrimLeadingZeros(LastOf(w.mag, <<>>)))

MarshalReduced(neg, r) ==
  IF r.scale > MaxDigits \/ r.scale < -MaxDigits THEN [st |-> "scale"]
  ELSE [st |-> "ok", w |-> [mag |-> <<r.mag>>, scale |-> IntField(r.scale), neg |-> neg]]

MarshalDecimalMsg(v) ==
  LET mag == TrimLeadingZeros(v.mag)
  IN IF mag = <<>> THEN [st |-> "ok", w |-> [mag |-> <<>>, scale |-> <<>>, neg |-> FALSE]]
     ELSE MarshalReduced(v.neg, IF v.scale >= -MaxDigits /\ v.scale # 0 THEN Reduce(mag, v.scale)
                                ELSE [mag |-> mag, scale |-> v.scale])

UnmarshalDecimalMsg(w, maxDigits) ==
  LET scale == Int32(LastOf(w.scale, 0))
      bound == IF maxDigits <= 0 THEN MaxDigits ELSE maxDigits
  IN IF scale > bound \/ scale < -bound THEN [st |-> "scale"]
     ELSE [st |-> "ok", v |-> Signed(w.neg, TrimLeadingZeros(LastOf(w.mag, <<>>))) @@ [scale |-> scale]]

\* Mutant: the bound is not asked of the rounded value.
MarshalUnbounded(v, mag, exponent) ==
  LET widened == exponent + MagBits(mag) - v.prec
      excess == MagBits(mag) - v.prec
  IN IF widened \notin GoMinExp..GoMaxExp THEN [st |-> "int32"]
     ELSE [st |-> "ok", w |-> [mag |-> <<IF excess > 0 THEN ShiftRightRounded(mag, excess)
                                         ELSE ShiftLeft(mag, -excess)>>,
                               exponent |-> IntField(widened), prec |-> <<v.prec>>, neg |-> v.neg]]

\* The widened mantissa of a value rounded to prec, or why it has none.
MarshalRounded(v, mag, exponent) ==
  LET widened == exponent + MagBits(mag) - v.prec
      excess == MagBits(mag) - v.prec
  IN CASE widened \notin GoMinExp..GoMaxExp -> [st |-> "int32"]
       [] widened \in GoMinExp..GoMaxExp /\ ExceedsBound(widened + v.prec, MaxExponent) -> [st |-> "past bound"]
       [] OTHER -> [st |-> "ok", w |-> [mag |-> <<IF excess > 0 THEN ShiftRightRounded(mag, excess)
                                                  ELSE ShiftLeft(mag, -excess)>>,
                                        exponent |-> IntField(widened), prec |-> <<v.prec>>, neg |-> v.neg]]

MarshalMantissa(v, mag) ==
  LET excess == MagBits(mag) - v.prec
  IN IF mag = <<>> THEN [st |-> "ok", w |-> [mag |-> <<>>, exponent |-> <<>>, prec |-> <<v.prec>>, neg |-> v.neg]]
     ELSE IF excess > 0 THEN MarshalRounded(v, ShiftRightRounded(mag, excess), v.exponent + excess)
     ELSE MarshalRounded(v, mag, v.exponent)

MarshalBigFloatMsg(v) ==
  CASE v.prec = 0 -> [st |-> "ok", w |-> [mag |-> <<>>, exponent |-> <<>>, prec |-> <<>>, neg |-> v.neg]]
    [] v.prec # 0 /\ BigFloatPrecDigits(v.prec) > MaxDigits -> [st |-> "digits"]
    [] OTHER -> MarshalMantissa(v, TrimLeadingZeros(v.mag))

\* The mantissa narrowed to prec; the bound was asked of the wire's.
NarrowMantissa(v) ==
  LET excess == MagBits(v.mag) - v.prec
      mag == IF excess > 0 THEN ShiftRightRounded(v.mag, excess) ELSE v.mag
      exponent == IF excess > 0 THEN v.exponent + excess ELSE v.exponent
  IN IF exponent + MagBits(mag) > GoMaxExp THEN [st |-> "overflow"]
     ELSE [st |-> "ok", v |-> [v EXCEPT !.mag = mag, !.exponent = Int32(exponent)]]

ReadBigFloat(v, maxExponent, maxDigits) ==
  CASE v.prec = 0 -> [st |-> "ok", v |-> [v EXCEPT !.mag = <<>>, !.exponent = 0]]
    [] v.prec # 0 /\ BigFloatPrecDigits(v.prec) > maxDigits -> [st |-> "digits"]
    [] OTHER -> IF v.mag = <<>> THEN [st |-> "ok", v |-> [v EXCEPT !.exponent = 0]]
                ELSE IF ExceedsBound(v.exponent + MagBits(v.mag), maxExponent) THEN [st |-> "past bound"]
                ELSE NarrowMantissa(v)

UnmarshalBigFloatMsg(w, maxExponent, maxDigits) ==
  ReadBigFloat([neg |-> w.neg, mag |-> TrimLeadingZeros(LastOf(w.mag, <<>>)),
                exponent |-> Int32(LastOf(w.exponent, 0)), prec |-> Uint32(LastOf(w.prec, 0))],
               IF maxExponent <= 0 THEN MaxExponent ELSE maxExponent,
               IF maxDigits <= 0 THEN MaxDigits ELSE maxDigits)
=============================================================================
