------------------------------- MODULE PbWire -------------------------------
(***************************************************************************)
(* The protobuf wire primitives of include/protowire/detail/wire.h, on     *)
(* sequences of bytes.  The widths are constants: a byte has PayloadBits   *)
(* bits below its continuation bit, a word WordBits bits, so that varints  *)
(* that end at, and run past, the last byte of a word are short.  A span   *)
(* is a sequence b and the indices from i up to, not including, e; what    *)
(* the code returns as a count is the index of the next byte here, and 0   *)
(* is its -1.                                                              *)
(***************************************************************************)
EXTENDS Integers, Sequences, SequencesExt

CONSTANTS PayloadBits,   \* 7
          WordBits,      \* 64
          FieldBits,     \* 31: the widest field number
          GroupLimit     \* kFieldValueRecursionLimit

ASSUME WireAssumption ==
  /\ {PayloadBits, FieldBits, GroupLimit} \subseteq Nat \ {0}
  /\ WordBits \in Nat /\ WordBits > FieldBits + 3 /\ WordBits % PayloadBits # 0

More == 2 ^ PayloadBits            \* the continuation bit
ByteSize == 2 * More
LastByte == WordBits \div PayloadBits   \* the index of a varint's last byte
LastMax == 2 ^ (WordBits % PayloadBits) - 1

WireTypes == [varint |-> 0, fixed64 |-> 1, bytes |-> 2, startGroup |-> 3, endGroup |-> 4, fixed32 |-> 5]

\* A signed value as the word that carries it, and the low bits of a word.
Word(v) == v % 2 ^ WordBits
LowSigned(x, bits) == LET low == x % 2 ^ bits IN IF low >= 2 ^ (bits - 1) THEN low - 2 ^ bits ELSE low

EncodeZigZag(v) == IF v >= 0 THEN 2 * v ELSE -2 * v - 1
DecodeZigZag(x) == IF x % 2 = 0 THEN x \div 2 ELSE -(x \div 2) - 1

RECURSIVE AppendVarint(_)
AppendVarint(v) == IF v < More THEN <<v>> ELSE <<(v % More) + More>> \o AppendVarint(v \div More)
AppendTag(num, type) == AppendVarint(num * 8 + WireTypes[type])
AppendFixed(v, n) == [i \in 1..n |-> (v \div ByteSize ^ (i - 1)) % ByteSize]
AppendBytes(s) == AppendVarint(Len(s)) \o s

Corrupt == [next |-> 0]

RECURSIVE VarintFrom(_, _, _, _, _)
VarintFrom(b, i, e, k, v) ==
  IF i + k >= e \/ k > LastByte THEN Corrupt
  ELSE IF k = LastByte /\ b[i + k] > LastMax THEN Corrupt
  ELSE IF b[i + k] < More THEN [next |-> i + k + 1, v |-> v + b[i + k] * More ^ k]
  ELSE VarintFrom(b, i, e, k + 1, v + (b[i + k] - More) * More ^ k)

ConsumeVarint(b, i, e) == VarintFrom(b, i, e, 0, 0)

TagOf(r) == IF r.next = 0 \/ r.v \div 8 \notin 1..(2 ^ FieldBits - 1) THEN Corrupt
            ELSE [next |-> r.next, num |-> r.v \div 8, type |-> r.v % 8]
ConsumeTag(b, i, e) == TagOf(ConsumeVarint(b, i, e))

ConsumeFixed(b, i, e, n) ==
  LET sum[k \in 0..n] == IF k = 0 THEN 0 ELSE sum[k - 1] + b[i + k - 1] * ByteSize ^ (k - 1)
  IN IF e - i < n THEN Corrupt ELSE [next |-> i + n, v |-> sum[n]]

BytesOf(r, e) == IF r.next = 0 THEN Corrupt
                 ELSE IF e - r.next < r.v THEN Corrupt
                 ELSE [next |-> r.next + r.v, from |-> r.next]
ConsumeBytes(b, i, e) == BytesOf(ConsumeVarint(b, i, e), e)

\* A field's value that is not a group.
ConsumePlainValue(b, i, e, type) ==
  CASE type = WireTypes.varint -> ConsumeVarint(b, i, e)
    [] type = WireTypes.fixed64 -> ConsumeFixed(b, i, e, 2)
    [] type = WireTypes.bytes -> ConsumeBytes(b, i, e)
    [] type = WireTypes.fixed32 -> ConsumeFixed(b, i, e, 1)
    [] OTHER -> Corrupt

RECURSIVE SkipGroups(_, _, _, _)
RECURSIVE SkipInGroup(_, _, _, _)
\* The fields of the groups that are open, the innermost last.
SkipGroups(b, i, e, open) ==
  IF open = <<>> THEN [next |-> i] ELSE SkipInGroup(b, e, open, ConsumeTag(b, i, e))

SkipInGroup(b, e, open, tag) ==
  CASE tag.next = 0 -> Corrupt
    [] tag.next # 0 /\ tag.type = WireTypes.endGroup ->
         IF tag.num # Last(open) THEN Corrupt ELSE SkipGroups(b, tag.next, e, Front(open))
    [] tag.next # 0 /\ tag.type = WireTypes.startGroup ->
         IF Len(open) > GroupLimit THEN Corrupt ELSE SkipGroups(b, tag.next, e, Append(open, tag.num))
    [] OTHER -> LET n == ConsumePlainValue(b, tag.next, e, tag.type)
                IN IF n.next = 0 THEN Corrupt ELSE SkipGroups(b, n.next, e, open)

ConsumeFieldValue(b, i, e, num, type) ==
  IF type = WireTypes.startGroup THEN SkipGroups(b, i, e, <<num>>) ELSE ConsumePlainValue(b, i, e, type)
=============================================================================
