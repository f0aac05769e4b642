------------------------------- MODULE BigNat -------------------------------
(***************************************************************************)
(* The arbitrary-precision natural numbers of src/pxf/bigfloat.cc (class   *)
(* Nat): little-endian sequences of limbs with no leading zero limb, and   *)
(* the schoolbook algorithms on them.  The limb width is a constant, so    *)
(* that the cases which need a full limb (a carry, a borrow, a quotient    *)
(* digit guessed one too large) are met by small numbers; every cast to    *)
(* the code's uint32_t is % Base and every uint64_t product % Base^2.      *)
(* The loop of DivMod is a machine of its own, one digit of the quotient   *)
(* per step, because its state between two digits is what is hard to get   *)
(* right.                                                                  *)
(***************************************************************************)
EXTENDS Integers, Sequences, SequencesExt

CONSTANTS LimbBits,     \* 32 in the code
          LimbBytes,    \* 4: the bytes of one limb
          Radix, Batch  \* ten, and nine: Radix^Batch fits a limb

ASSUME LimbAssumption ==
  /\ {LimbBits, LimbBytes, Batch} \subseteq Nat \ {0}
  /\ Radix \in Nat \ {0, 1}
  /\ LimbBits % LimbBytes = 0
  /\ Radix ^ Batch < 2 ^ LimbBits

Base == 2 ^ LimbBits
ByteBits == LimbBits \div LimbBytes

RECURSIVE Value(_)
\* The number a sequence of limbs stands for: the reference of this module.
Value(w) == IF w = <<>> THEN 0 ELSE Head(w) + Base * Value(Tail(w))

\* The bit length of a number.
BitLength(v) == IF v = 0 THEN 0 ELSE 1 + CHOOSE i \in 0..30 : 2 ^ i <= v /\ v \div 2 ^ i = 1

RECURSIVE Trim(_)
Trim(w) == IF w # <<>> /\ Last(w) = 0 THEN Trim(Front(w)) ELSE w

Zeros(n) == [i \in 1..n |-> 0]

\* A big-endian byte string, as a BigFloat's mantissa field holds it.
FromBytes(be) ==
  Trim([i \in 1..((Len(be) + LimbBytes - 1) \div LimbBytes) |->
          LET byte(j) == LET at == Len(be) - ((i - 1) * LimbBytes + j)
                         IN IF at >= 1 THEN be[at] * 2 ^ (ByteBits * j) ELSE 0
              sum[j \in 0..LimbBytes] == IF j = 0 THEN 0 ELSE byte(j - 1) + sum[j - 1]
          IN sum[LimbBytes]])

BitLen(w) == IF w = <<>> THEN 0 ELSE (Len(w) - 1) * LimbBits + BitLength(Last(w))

ToBytes(w) ==
  LET n == (BitLen(w) + ByteBits - 1) \div ByteBits
  IN [j \in 1..n |-> LET i == n - j
                     IN (w[i \div LimbBytes + 1] \div 2 ^ (ByteBits * (i % LimbBytes))) % 2 ^ ByteBits]

Bit(w, i) == /\ i \div LimbBits < Len(w)
             /\ (w[i \div LimbBits + 1] \div 2 ^ (i % LimbBits)) % 2 = 1

\* Mutant: the bits below i in its own limb are not looked at.
AnyLimbBelow(w, i) == \E k \in 1..Len(w) : k <= i \div LimbBits /\ w[k] # 0

AnyBitBelow(w, i) ==
  \/ \E k \in 1..Len(w) : k <= i \div LimbBits /\ w[k] # 0
  \/ /\ i \div LimbBits < Len(w)
     /\ i % LimbBits # 0
     /\ (w[i \div LimbBits + 1] * 2 ^ (LimbBits - (i % LimbBits))) % Base # 0

\* In place in the code: the limbs, and a last one for the carry left over.
MulSmall(w, m) ==
  LET v[i \in 1..Len(w)] == w[i] * m + (IF i = 1 THEN 0 ELSE v[i - 1] \div Base)
      carry == IF w = <<>> THEN 0 ELSE v[Len(w)] \div Base
  IN Trim([i \in 1..Len(w) |-> v[i] % Base] \o IF carry # 0 THEN <<carry % Base>> ELSE <<>>)

RECURSIVE AddSmall(_, _)
AddSmall(w, a) ==
  IF a = 0 THEN w
  ELSE IF w = <<>> THEN <<a % Base>> \o AddSmall(<<>>, a \div Base)
  ELSE <<(Head(w) + a) % Base>> \o AddSmall(Tail(w), (Head(w) + a) \div Base)

\* a - b, a not less than b.
SubLimbs(a, b) ==
  LET t[i \in 1..Len(a)] == a[i] - (IF i <= Len(b) THEN b[i] ELSE 0)
                                 - (IF i > 1 /\ t[i - 1] < 0 THEN 1 ELSE 0)
  IN Trim([i \in 1..Len(a) |-> t[i] % Base])

\* The quotient and the remainder of a division by one limb, from the top.
DivSmall(w, d) ==
  LET v[i \in 1..Len(w)] == (IF i = Len(w) THEN 0 ELSE (v[i + 1] % d) * Base) + w[i]
  IN [q |-> Trim([i \in 1..Len(w) |-> v[i] \div d]), r |-> IF w = <<>> THEN 0 ELSE v[1] % d]

Shl(w, bits) ==
  LET limbs == bits \div LimbBits
      shifted(i) == IF i \in 1..Len(w) THEN w[i] * 2 ^ (bits % LimbBits) ELSE 0
  IN IF w = <<>> THEN w
     ELSE Trim(Zeros(limbs) \o [i \in 1..(Len(w) + 1) |->
                                  (shifted(i) % Base) + shifted(i - 1) \div Base])

Shr(w, bits) ==
  LET limbs == bits \div LimbBits
      above(i) == IF i + 1 <= Len(w) THEN w[i + 1] * Base ELSE 0
  IN IF limbs >= Len(w) THEN <<>>
     ELSE Trim([i \in 1..(Len(w) - limbs) |->
                  ((w[i + limbs] + above(i + limbs)) \div 2 ^ (bits % LimbBits)) % Base])

Cmp(a, b) ==
  LET differ == {i \in 1..Len(a) : a[i] # b[i]}
      top == CHOOSE i \in differ : \A j \in differ : j <= i
  IN CASE Len(a) # Len(b) -> IF Len(a) < Len(b) THEN -1 ELSE 1
       [] Len(a) = Len(b) /\ differ = {} -> 0
       [] OTHER -> IF a[top] < b[top] THEN -1 ELSE 1

RECURSIVE MulRows(_, _, _, _)
\* The rows of Mul from row i on, added into out.
MulRows(a, b, i, out) ==
  LET v[j \in 1..Len(b)] == a[i] * b[j] + out[i + j - 1] + (IF j = 1 THEN 0 ELSE v[j - 1] \div Base)
  IN IF i > Len(a) THEN out
     ELSE MulRows(a, b, i + 1,
            [x \in 1..Len(out) |-> IF x - i + 1 \in 1..Len(b) THEN v[x - i + 1] % Base
                                   ELSE IF x = i + Len(b) THEN v[Len(b)] \div Base ELSE out[x]])

Mul(a, b) == IF a = <<>> \/ b = <<>> THEN <<>> ELSE Trim(MulRows(a, b, 1, Zeros(Len(a) + Len(b))))

RECURSIVE Pow10(_)
\* Pow10 in whole batches, then digit by digit.
Pow10(n) == IF n = 0 THEN <<1>>
            ELSE IF n >= Batch THEN MulSmall(Pow10(n - Batch), Radix ^ Batch)
            ELSE MulSmall(Pow10(n - 1), Radix)

RECURSIVE Chunks(_)
\* The digits of a number, least significant first, a batch at a time.
Chunks(w) == IF w = <<>> THEN <<>>
             ELSE LET d == DivSmall(w, Radix ^ Batch)
                  IN [i \in 1..Batch |-> (d.r \div Radix ^ (i - 1)) % Radix] \o Chunks(d.q)

ToDecimal(w) == IF w = <<>> THEN <<0>> ELSE Reverse(Trim(Chunks(w)))

\* What keeps the top bits of m, ties to even: the mantissa and the shift.
RoundToBits(w, bits, sticky) ==
  LET shift == BitLen(w) - bits
      kept == Shr(w, shift)
      up == /\ Bit(w, shift - 1)
            /\ sticky \/ AnyBitBelow(w, shift - 1) \/ Bit(kept, 0)
  IN IF shift <= 0 THEN [m |-> w, shift |-> 0]
     ELSE [m |-> IF up THEN AddSmall(kept, 1) ELSE kept, shift |-> shift]
-----------------------------------------------------------------------------
(* DivMod, Knuth's Algorithm D: the division in progress is a record.      *)

\* The quotient and remainder known without the loop, or the normalized
\* operands the loop starts from.
DivStart(a, d) ==
  LET shift == LimbBits - BitLength(Last(d))
      wide == Shl(a, shift)
      size == (IF Len(wide) > Len(a) THEN Len(wide) ELSE Len(a)) + 1
      small == DivSmall(a, d[1])
      result(q, r) == [a |-> a, d |-> d, st |-> "done", q |-> q, r |-> r,
                       shift |-> 0, u |-> <<>>, v |-> <<>>, k |-> -1]
  IN CASE Cmp(a, d) < 0 -> result(<<>>, a)
       [] Cmp(a, d) >= 0 /\ Len(d) = 1 -> result(small.q, IF small.r = 0 THEN <<>> ELSE <<small.r>>)
       [] OTHER -> [a |-> a, d |-> d, st |-> "digits", q |-> Zeros(size - Len(d)), r |-> <<>>,
                    shift |-> shift, u |-> wide \o Zeros(size - Len(wide)), v |-> Shl(d, shift),
                    k |-> size - Len(d) - 1]

RECURSIVE Guess(_, _, _, _, _)
\* The quotient digit guessed from the top two limbs and corrected by the
\* third, as far as the code's two tests go.
Guess(qhat, rhat, v1, v2, u2) ==
  IF ~(qhat >= Base \/ (qhat * v2) % Base ^ 2 > rhat * Base + u2) THEN qhat
  ELSE IF rhat + v1 >= Base THEN qhat - 1
  ELSE Guess(qhat - 1, rhat + v1, v1, v2, u2)

QuotientGuess(s) ==
  LET n == Len(s.v)
      top == s.u[s.k + n + 1] * Base + s.u[s.k + n]
  IN Guess(top \div s.v[n], top % s.v[n], s.v[n], s.v[n - 1], s.u[s.k + n - 1])

\* u with qhat * v taken away at limb k; neg: the last limb went below zero.
MultiplySubtract(u, v, k, qhat) ==
  LET n == Len(v)
      p[i \in 1..n] == qhat * v[i] + (IF i = 1 THEN 0 ELSE p[i - 1] \div Base)
      t[i \in 1..n] == u[k + i] - (IF i > 1 /\ t[i - 1] < 0 THEN 1 ELSE 0) - (p[i] % Base)
      top == u[k + n + 1] - (IF t[n] < 0 THEN 1 ELSE 0) - p[n] \div Base
  IN [u |-> [x \in 1..Len(u) |-> IF x - k \in 1..n THEN t[x - k] % Base
                                 ELSE IF x = k + n + 1 THEN top % Base ELSE u[x]],
      neg |-> top < 0]

\* u with the divisor added back at limb k.
AddBack(u, v, k) ==
  LET n == Len(v)
      s[i \in 1..n] == u[k + i] + v[i] + (IF i = 1 THEN 0 ELSE s[i - 1] \div Base)
  IN [x \in 1..Len(u) |-> IF x - k \in 1..n THEN s[x - k] % Base
                          ELSE IF x = k + n + 1 THEN (u[x] + s[n] \div Base) % Base ELSE u[x]]

\* Mutant: the divisor is never added back.
DigitNeverBack(s, qhat, sub) ==
  [s EXCEPT !.u = sub.u, !.q[s.k + 1] = qhat % Base, !.k = s.k - 1]

DigitFrom(s, qhat, sub) ==
  [s EXCEPT !.u = IF sub.neg THEN AddBack(sub.u, s.v, s.k) ELSE sub.u,
            !.q[s.k + 1] = (IF sub.neg THEN qhat - 1 ELSE qhat) % Base,
            !.k = s.k - 1]

DigitOf(s, qhat) == DigitFrom(s, qhat, MultiplySubtract(s.u, s.v, s.k, qhat))

\* One turn of the loop.
DivDigit(s) == DigitOf(s, QuotientGuess(s))

DivEnd(s) == [s EXCEPT !.st = "done", !.q = Trim(s.q), !.r = Shr(Trim(s.u), s.shift)]
=============================================================================
