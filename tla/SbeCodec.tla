------------------------------ MODULE SbeCodec ------------------------------
(***************************************************************************)
(* Codec::Marshal and Codec::Unmarshal (sbe/marshal.cc, sbe/unmarshal.cc,  *)
(* sbe/encoding_range.h) over the template SbeTemplate builds.  A byte has *)
(* ByteBits bits, and a field of n bytes holds what they hold, so int8 to  *)
(* uint64 keep their order of widths and their ranges.  A message is a     *)
(* function from field numbers to values: a number, a sequence of bytes, a *)
(* message, a sequence of entries.  Which fields are set is left out, as   *)
(* an SBE block cannot say.                                                *)
(*                                                                         *)
(* A float is a sign and a magnitude whose two largest values are infinity *)
(* and NaN; the magnitudes of float are spread over the lower half of the  *)
(* magnitudes of double, so that a double can lie between two floats and   *)
(* above them all.                                                         *)
(***************************************************************************)
EXTENDS SbeTemplate, SequencesExt, FiniteSetsExt

CONSTANTS ByteBits,                \* 8
          TemplateId, SchemaId, Version,
          MaxMessageSize, MaxRepeated,
          Work(_)                  \* what is asked of the codec of a schema

VARIABLES work,   \* [op |-> "write", msg], [op |-> "read", wire, into] or [op |-> "none"]
          done    \* the results so far: messages and wires in turn

codecVars == <<desc, stack, blocks, groups, st, work, done>>

Bits(size) == ByteBits * size
Word(v) == v % 2 ^ Bits(8)
Int64(w) == IF w >= 2 ^ (Bits(8) - 1) THEN w - 2 ^ Bits(8) ELSE w
Store(v, size) == [i \in 1..size |-> (v \div 2 ^ Bits(i - 1)) % 2 ^ ByteBits]
Load(b) == LET sum[i \in 0..Len(b)] == IF i = 0 THEN 0 ELSE sum[i - 1] + b[i] * 2 ^ Bits(i - 1) IN sum[Len(b)]
-----------------------------------------------------------------------------
(* Encodings and ranges.                                                   *)

SignedEncodings == {"int8", "int16", "int32", "int64"}
EncodingSize == [int8 |-> 1, int16 |-> 2, int32 |-> 4, int64 |-> 8, uint8 |-> 1, uint16 |-> 2, uint32 |-> 4,
                 uint64 |-> 8, float |-> 4, double |-> 8]
FloatTypes == {"float", "double"}
TextTypes == {"string", "bytes"}
DefaultEncoding == [bool |-> "uint8", int32 |-> "int32", int64 |-> "int64", uint32 |-> "uint32", uint64 |-> "uint64",
                    float |-> "float", double |-> "double", enum |-> "uint8"]

\* (sbe.encoding) is "" and (sbe.length) -1 where the field has none.
FieldEncodingSize(proto, encoding, length) ==
  LET no == [ok |-> FALSE, encoding |-> "", size |-> 0]
      yes(e, size) == [ok |-> TRUE, encoding |-> e, size |-> size]
  IN CASE encoding # "" ->
            IF \/ proto \in TextTypes \/ encoding \notin DOMAIN EncodingSize
               \/ (proto \in FloatTypes) # (encoding \in FloatTypes)
            THEN no ELSE yes(encoding, EncodingSize[encoding])
       [] encoding = "" /\ proto \in TextTypes -> IF length \in 0..MaxUint16 THEN yes("char", length) ELSE no
       [] OTHER -> yes(DefaultEncoding[proto], EncodingSize[DefaultEncoding[proto]])

SignedRange(size) == [lo |-> -(2 ^ (Bits(size) - 1)), hi |-> 2 ^ (Bits(size) - 1) - 1]
UnsignedRange(size) == [lo |-> 0, hi |-> 2 ^ Bits(size) - 1]

\* An enum is open, so any int32.
FieldRange(proto) == CASE proto \in {"int32", "enum"} -> SignedRange(4)
                       [] proto = "int64" -> SignedRange(8)
                       [] proto = "uint32" -> UnsignedRange(4)
                       [] proto = "bool" -> [lo |-> 0, hi |-> 1]
                       [] proto = "uint64" -> UnsignedRange(8)

EncRange(e) == IF e \in SignedEncodings THEN SignedRange(EncodingSize[e]) ELSE UnsignedRange(EncodingSize[e])

\* Only a field wider than its encoding is checked: the bounds are compared
\* at the top alone.
ChecksTopOnly(outer, inner) == outer.hi > inner.hi

\* Some value of outer is not in inner.
Exceeds(outer, inner) == outer.lo < inner.lo \/ outer.hi > inner.hi

RangeOf(f) ==
  CASE f.encoding = "float" -> [write |-> f.proto = "double", read |-> FALSE]
    [] f.encoding = "double" -> [write |-> FALSE, read |-> f.proto = "float"]
    [] OTHER -> [write |-> Exceeds(FieldRange(f.proto), EncRange(f.encoding)),
                 read |-> f.proto # "bool" /\ Exceeds(EncRange(f.encoding), FieldRange(f.proto))]

\* v is a word: a uint64, or an int64's bits.
InRange(v, unsigned, range) == IF ~unsigned /\ Int64(v) < 0 THEN Int64(v) >= range.lo ELSE v <= range.hi

Half(size) == 2 ^ (Bits(size) - 1)
Magnitude(f, size) == f % Half(size)
Infinity(size) == Half(size) - 2
MaxFloat == (Infinity(4) - 1) * Half(4)   \* as a double
FloatFits(d) == Magnitude(d, 8) >= Infinity(8) \/ Magnitude(d, 8) <= MaxFloat

SignOf(f, size) == f \div Half(size)
ToDouble(f) == LET m == Magnitude(f, 4)
               IN SignOf(f, 4) * Half(8) + (IF m >= Infinity(4) THEN m - Infinity(4) + Infinity(8) ELSE m * Half(4))
\* To nearest, and to even.
ToFloat(d) == LET m == Magnitude(d, 8)
                  q == m \div Half(4)
                  over == 2 * (m % Half(4)) - Half(4)
              IN SignOf(d, 8) * Half(4) + (IF m >= Infinity(8) THEN m - Infinity(8) + Infinity(4)
                                           ELSE IF over > 0 \/ (over = 0 /\ q % 2 = 1) THEN q + 1 ELSE q)
-----------------------------------------------------------------------------
(* Text.  0 is NUL, 1 a character, 2 a continuation, 3 what it continues.  *)

IsValidUTF8(s) == \A i \in DOMAIN s : /\ s[i] = 2 => i > 1 /\ s[i - 1] = 3
                                      /\ s[i] = 3 => i < Len(s) /\ s[i + 1] = 2

RECURSIVE CutFrom(_, _)
CutFrom(s, n) == IF n > 0 /\ s[n + 1] = 2 THEN CutFrom(s, n - 1) ELSE n
\* The cut at the limit whatever it divides.
CutAtLimit(s, size, isString) == IF Len(s) <= size THEN Len(s) ELSE size
CutLength(s, size, isString) == IF Len(s) <= size THEN Len(s) ELSE IF isString THEN CutFrom(s, size) ELSE size

Zeros(n) == [i \in 1..n |-> 0]
FixedString(s, n, size) == SubSeq(s, 1, n) \o Zeros(size - n)
DropZeros(b) == SubSeq(b, 1, Max({0} \cup {i \in DOMAIN b : b[i] # 0}))
-----------------------------------------------------------------------------
(* Marshal.                                                                *)

Done(result, v) == [st |-> result, v |-> v]
Put(buf, at, b) == [i \in 1..Max({Len(buf), at + Len(b)}) |->
                      IF i - at \in DOMAIN b THEN b[i - at] ELSE IF i <= Len(buf) THEN buf[i] ELSE 0]

WriteFloat(buf, at, f, d) ==
  CASE f.encoding = "double" -> Done("ok", Put(buf, at, Store(d, 8)))
    [] f.encoding = "float" /\ RangeOf(f).write /\ ~FloatFits(d) -> Done("range", buf)
    [] OTHER -> Done("ok", Put(buf, at, Store(ToFloat(d), 4)))

WriteInt(buf, at, f, w) ==
  IF RangeOf(f).write /\ ~InRange(w, f.proto \in {"bool", "uint32", "uint64"}, EncRange(f.encoding))
  THEN Done("range", buf) ELSE Done("ok", Put(buf, at, Store(w, f.size)))

WriteScalar(buf, at, f, v) ==
  IF f.encoding \in FloatTypes THEN WriteFloat(buf, at, f, IF f.proto = "float" THEN ToDouble(v) ELSE v)
  ELSE WriteInt(buf, at, f, Word(v))

WriteFixedString(buf, at, f, s) ==
  Done("ok", Put(buf, at, FixedString(s, CutLength(s, f.size, f.proto = "string"), f.size)))

RECURSIVE WriteFields(_, _, _, _)
\* A message with no fields has an empty composite, which is how the code
\* tells a scalar: it asks protobuf for the number in a message field, and
\* protobuf ends the program.
WriteField(buf, at, ft, f, v) ==
  CASE ft.sub # 0 -> WriteFields(buf, at, blocks[ft.sub], v)
    [] f.kind = "message" /\ ft.sub = 0 -> Done("fatal", buf)
    [] f.kind = "scalar" /\ f.encoding = "char" -> WriteFixedString(buf, at, f, v)
    [] OTHER -> WriteScalar(buf, at, f, v)

WriteFields(buf, base, block, msg) ==
  FoldLeft(LAMBDA r, ft : IF r.st # "ok" THEN r
                          ELSE WriteField(r.v, base + ft.offset, ft, desc[block.type][ft.num], msg[ft.num]),
           Done("ok", buf), block.fields)

WriteEntry(buf, block, entry) == WriteFields(buf \o Zeros(block.length), Len(buf), block, entry)

WriteGroup(buf, block, entries) ==
  IF Len(entries) > MaxUint16 THEN Done("entries", buf)
  ELSE FoldLeft(LAMBDA r, e : IF r.st # "ok" THEN r ELSE WriteEntry(r.v, block, e),
                Done("ok", buf \o Store(block.length, 2) \o Store(Len(entries), 2)), entries)

RootBlock == blocks[Len(blocks)]

Marshal(msg) ==
  FoldLeft(LAMBDA r, g : IF r.st # "ok" THEN r ELSE WriteGroup(r.v, blocks[g.block], msg[g.num]),
           WriteFields(Store(RootBlock.length, 2) \o Store(TemplateId, 2) \o Store(SchemaId, 2) \o Store(Version, 2)
                         \o Zeros(RootBlock.length), 8, RootBlock, msg),
           groups)
-----------------------------------------------------------------------------
(* Unmarshal.                                                              *)

DecodeText(b, f, old) ==
  IF f.proto = "bytes" THEN Done("ok", b)
  ELSE IF IsValidUTF8(DropZeros(b)) THEN Done("ok", DropZeros(b)) ELSE Done("utf8", old)

DecodeFloat(b, f, old) ==
  LET d == IF f.encoding = "float" THEN ToDouble(Load(b)) ELSE Load(b)
  IN IF f.encoding = "double" /\ RangeOf(f).read /\ ~FloatFits(d) THEN Done("range", old)
     ELSE Done("ok", IF f.proto = "float" THEN ToFloat(d) ELSE d)

\* Sign-extended as the primitive is.
Extended(b, f) == IF f.encoding \in SignedEncodings /\ Load(b) >= Half(f.size)
                  THEN Word(Load(b) - 2 ^ Bits(f.size)) ELSE Load(b)

Narrowed(w, size) == LET low == w % 2 ^ Bits(size) IN IF low >= Half(size) THEN low - 2 ^ Bits(size) ELSE low

DecodeInt(w, f, old) ==
  IF RangeOf(f).read /\ ~InRange(w, f.encoding \notin SignedEncodings, FieldRange(f.proto)) THEN Done("range", old)
  ELSE Done("ok", CASE f.proto = "bool" -> IF w # 0 THEN 1 ELSE 0
                    [] f.proto \in {"int32", "enum"} -> Narrowed(w, 4)
                    [] f.proto = "int64" -> Int64(w)
                    [] f.proto = "uint32" -> w % 2 ^ Bits(4)
                    [] f.proto = "uint64" -> w)

DecodeScalarField(b, f, old) ==
  CASE f.encoding = "char" -> DecodeText(b, f, old)
    [] f.encoding \in FloatTypes -> DecodeFloat(b, f, old)
    [] OTHER -> DecodeInt(Extended(b, f), f, old)

RECURSIVE DecodeFields(_, _, _, _)
DecodeField(data, at, ft, f, old) ==
  CASE ft.sub # 0 -> DecodeFields(data, at, blocks[ft.sub], old)
    [] f.kind = "message" /\ ft.sub = 0 -> Done("ok", old)
    [] OTHER -> DecodeScalarField(SubSeq(data, at + 1, at + ft.size), f, old)

RECURSIVE ZeroMessage(_)
ZeroField(f) == CASE f.kind = "message" -> ZeroMessage(f.type)
                  [] f.kind = "repeatedMessage" \/ f.encoding = "char" -> <<>>
                  [] OTHER -> 0
ZeroMessage(type) == [n \in DOMAIN desc[type] |-> ZeroField(desc[type][n])]

\* Setting a member of a oneof clears the others: the type's one oneof.
SetField(type, msg, num, r) ==
  Done(r.st, [n \in DOMAIN msg |->
                CASE n = num -> r.v
                  [] n # num /\ r.st = "ok" /\ desc[type][n].oneof /\ desc[type][num].oneof -> ZeroField(desc[type][n])
                  [] OTHER -> msg[n]])

DecodeFields(data, base, block, msg) ==
  FoldLeft(LAMBDA r, ft : IF r.st # "ok" THEN r
                          ELSE SetField(block.type, r.v, ft.num,
                                        DecodeField(data, base + ft.offset, ft, desc[block.type][ft.num], r.v[ft.num])),
           Done("ok", msg), block.fields)

U16(data, at) == Load(SubSeq(data, at + 1, at + 2))

\* pos after a group, or -1.
ValidateGroup(data, pos, g) ==
  LET block == U16(data, pos)
      count == U16(data, pos + 2)
  IN IF \/ pos = -1 \/ Len(data) < pos + 4 \/ block < blocks[g.block].length
        \/ count > 0 /\ block = 0
        \/ block > 0 /\ count > (Len(data) - pos - 4) \div block
        \/ count > MaxRepeated
     THEN -1 ELSE pos + 4 + block * count

\* The size, the header and every group, before anything is decoded.
Structured(data) ==
  /\ Len(data) \in 8..MaxMessageSize
  /\ U16(data, 2) = TemplateId /\ U16(data, 4) = SchemaId
  /\ U16(data, 0) >= RootBlock.length
  /\ Len(data) >= 8 + U16(data, 0)
  /\ FoldLeft(LAMBDA pos, g : ValidateGroup(data, pos, g), 8 + U16(data, 0), groups) # -1

\* The entries are appended one by one; the one that fails stays.
DecodeGroup(data, r, g, at) ==
  FoldLeft(LAMBDA s, i :
             IF s.st # "ok" THEN s
             ELSE LET e == DecodeFields(data, at + 4 + (i - 1) * U16(data, at), blocks[g.block],
                                        ZeroMessage(blocks[g.block].type))
                  IN Done(e.st, [s.v EXCEPT ![g.num] = Append(@, e.v)]),
           r, [i \in 1..U16(data, at + 2) |-> i])

DecodeGroups(data, msg) ==
  FoldLeft(LAMBDA s, g : IF s.r.st # "ok" THEN s
                         ELSE [r |-> DecodeGroup(data, s.r, g, s.at),
                               at |-> s.at + 4 + U16(data, s.at) * U16(data, s.at + 2)],
           [r |-> DecodeFields(data, 8, RootBlock, msg), at |-> 8 + U16(data, 0)], groups).r

\* The fields of the root block are decoded before the groups are checked.
DecodesRootFirst(data, msg) ==
  IF Structured(data) THEN DecodeGroups(data, msg)
  ELSE Done("refused", IF Len(data) >= 8 + RootBlock.length THEN DecodeFields(data, 8, RootBlock, msg).v ELSE msg)

Unmarshal(data, msg) == IF Structured(data) THEN DecodeGroups(data, msg) ELSE Done("refused", msg)
-----------------------------------------------------------------------------
(* Codec::New builds the template; then the messages and the wires of the  *)
(* work follow each other, the last from the one before.                   *)

CodecInit == Init /\ work \in Work(desc) /\ done = <<>>

Build == Step /\ UNCHANGED <<work, done>>

Rests == Len(done) = 3 \/ (done # <<>> /\ Last(done).st # "ok")
\* A message is written first, and after a wire was read.
Writes == (work.op = "write") = (Len(done) % 2 = 0)

MarshalNext == /\ st = "ok" /\ work.op # "none" /\ ~Rests /\ Writes
               /\ done' = Append(done, Marshal(IF done = <<>> THEN work.msg ELSE Last(done).v))
               /\ UNCHANGED <<desc, stack, blocks, groups, st, work>>

UnmarshalNext == /\ st = "ok" /\ work.op # "none" /\ ~Rests /\ ~Writes
                 /\ done' = Append(done, IF done = <<>> THEN Unmarshal(work.wire, work.into)
                                         ELSE Unmarshal(Last(done).v, ZeroMessage(Root)))
                 /\ UNCHANGED <<desc, stack, blocks, groups, st, work>>

CodecNext == Build \/ MarshalNext \/ UnmarshalNext
CodecSpec == CodecInit /\ [][CodecNext]_codecVars
-----------------------------------------------------------------------------
(* What a message keeps through its encoding, field by field.              *)

RECURSIVE Scalars(_, _)
\* The scalars of a message, however deep, each with its value.
Scalars(type, msg) ==
  UNION {LET f == desc[type][n]
         IN CASE f.kind = "message" -> Scalars(f.type, msg[n])
              [] f.kind = "repeatedMessage" -> UNION {Scalars(f.type, msg[n][i]) : i \in DOMAIN msg[n]}
              [] OTHER -> {[f |-> f, v |-> msg[n]]} : n \in DOMAIN msg}

\* The primitive has the value: a number in its range, a finite double that
\* no float is below.
Holds(f, v) ==
  CASE f.encoding = "char" -> TRUE
    [] f.encoding \in FloatTypes ->
         ~(f.proto = "double" /\ f.encoding = "float" /\ MaxFloat < Magnitude(v, 8) /\ Magnitude(v, 8) < Infinity(8))
    [] OTHER -> EncRange(f.encoding).lo <= v /\ v <= EncRange(f.encoding).hi

\* The float nearest to a double, the even one of two.
NearestFloat(d) ==
  LET dist(f) == IF Magnitude(ToDouble(f), 8) > Magnitude(d, 8) THEN Magnitude(ToDouble(f), 8) - Magnitude(d, 8)
                 ELSE Magnitude(d, 8) - Magnitude(ToDouble(f), 8)
      alike == {f \in 0..(2 ^ Bits(4) - 1) : /\ SignOf(f, 4) = SignOf(d, 8)
                                             /\ (Magnitude(f, 4) >= Infinity(4)) = (Magnitude(d, 8) >= Infinity(8))}
      near == {f \in alike : \A g \in alike : dist(f) <= dist(g)}
  IN CHOOSE f \in near : f % 2 = 0 \/ Cardinality(near) = 1

WholeChars(s, size) == Max({n \in 0..size : n <= Len(s) /\ IsValidUTF8(SubSeq(s, 1, n))})

Kept(f, v) ==
  CASE f.proto = "string" -> DropZeros(SubSeq(v, 1, WholeChars(v, f.size)))
    [] f.proto = "bytes" -> [i \in 1..f.size |-> IF i <= Len(v) THEN v[i] ELSE 0]
    [] f.proto = "double" /\ f.encoding = "float" -> ToDouble(NearestFloat(v))
    [] OTHER -> v

RECURSIVE KeptMessage(_, _)
\* Of a oneof in a group the last member is set, whichever was.
KeptMessage(type, msg) ==
  [n \in DOMAIN msg |->
     LET f == desc[type][n]
     IN CASE f.oneof /\ (\E m \in DOMAIN msg : m > n /\ desc[type][m].oneof) -> ZeroField(f)
          [] f.kind = "message" -> KeptMessage(f.type, msg[n])
          [] f.kind = "repeatedMessage" -> [i \in DOMAIN msg[n] |-> KeptMessage(f.type, msg[n][i])]
          [] OTHER -> Kept(f, msg[n])]

RECURSIVE HasEmpty(_, _)
\* A nested message without fields that Marshal comes to.
HasEmpty(type, msg) ==
  \E n \in DOMAIN msg :
    LET f == desc[type][n]
    IN CASE f.kind = "message" -> DOMAIN desc[f.type] = {} \/ HasEmpty(f.type, msg[n])
         [] f.kind = "repeatedMessage" -> \E i \in DOMAIN msg[n] : HasEmpty(f.type, msg[n][i])
         [] OTHER -> FALSE

Counts(msg) == {Len(msg[groups[i].num]) : i \in DOMAIN groups}
\* A group with entries but no bytes, or more than the reader takes.
GroupsRead(msg) == \A i \in DOMAIN groups :
                     LET n == Len(msg[groups[i].num])
                     IN n = 0 \/ (blocks[groups[i].block].length > 0 /\ n <= MaxRepeated)
HasOneof == \E t \in Types : \E n \in DOMAIN desc[t] : desc[t][n].oneof
TextFits(f, v) == f.proto = "string" => IsValidUTF8(v)

\* A message through Marshal and Unmarshal.  Marshal refuses it exactly when
\* a number is outside its encoding's range or a group has more entries than
\* numInGroup can state (a nested message without fields, which ends the
\* program, aside).  Otherwise each field is in its own bytes: Unmarshal
\* gives every number as it was, a double in a float as the nearest float,
\* of a string the whole characters that fit, of bytes exactly their length.
\* It refuses what Marshal wrote only for a group of empty entries, a limit,
\* or text that was no UTF-8.  Of a oneof in a group, which BuildGroupTemplate
\* alone allows, the last member is kept whichever was set.
RoundTrips ==
  work.op = "write" /\ done # <<>> =>
    /\ HasEmpty(Root, work.msg) => done[1].st # "ok"
    /\ ~HasEmpty(Root, work.msg) =>
         (done[1].st = "ok" <=> (\A x \in Scalars(Root, work.msg) : Holds(x.f, x.v)) /\ (\A n \in Counts(work.msg) : n <= MaxUint16))
    /\ Len(done) >= 2 /\ (\A x \in Scalars(Root, work.msg) : TextFits(x.f, x.v)) =>
         IF GroupsRead(work.msg) /\ Len(done[1].v) <= MaxMessageSize
         THEN done[2] = Done("ok", KeptMessage(Root, work.msg))
         ELSE done[2].st = "refused"
    /\ Len(done) = 3 /\ ~HasOneof => done[3] = done[1]

\* Where a wire may differ from what is written of it: a bool is any number
\* but 0, and a float field rounds the double it is sent as.
SameBytes(block, a, b) ==
  \A i \in DOMAIN block.fields :
    LET ft == block.fields[i]
        f == desc[block.type][ft.num]
    IN ~(f.kind = "scalar" /\ (f.proto = "bool" \/ (f.proto = "float" /\ f.encoding = "double")))
         => SubSeq(a, 9 + ft.offset, 8 + ft.offset + ft.size) = SubSeq(b, 9 + ft.offset, 8 + ft.offset + ft.size)

\* A wire that Unmarshal takes, from any writer, is a message that Marshal
\* writes: no value it accepts is outside the encoding it came in, the
\* fields of the root block have the bytes they had (a bool or a rounded
\* float aside), and the message reads back the same, unless it is past a
\* limit or has entries that only the writer's larger block gave bytes.
WireStable ==
  work.op = "read" /\ Len(done) >= 2 =>
    \/ HasEmpty(Root, done[1].v) /\ done[2].st = "fatal"
    \/ /\ done[2].st = "ok" /\ SameBytes(RootBlock, work.wire, done[2].v)
       /\ Len(done) = 3 /\ GroupsRead(done[1].v) /\ Len(done[2].v) <= MaxMessageSize =>
            done[3] = IF work.into = ZeroMessage(Root) THEN done[1] ELSE Done("ok", KeptMessage(Root, done[1].v))

\* UnmarshalInto checks the size, the header and every group before it
\* touches the caller's message: a wire refused for those leaves it as it
\* was.  Entries are added behind the ones it has, never more than the wire
\* has bytes for, also when a field of one of them is refused.
StructureFirst ==
  work.op = "read" /\ done # <<>> =>
    /\ done[1].st = "refused" => done[1].v = work.into
    /\ \A i \in DOMAIN groups :
         LET old == work.into[groups[i].num]
             new == done[1].v[groups[i].num]
         IN /\ IsPrefix(old, new)
            /\ (Len(new) - Len(old)) * blocks[groups[i].block].length <= Len(work.wire)
=============================================================================
