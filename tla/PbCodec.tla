------------------------------ MODULE PbCodec ------------------------------
(***************************************************************************)
(* pb::Marshal and pb::Unmarshal, include/protowire/pb.h: C++ structs that *)
(* declare their fields, as protobuf messages.  Types gives each struct    *)
(* type its fields in the order of PROTOWIRE_FIELDS: a number, a shape     *)
(* (plain, optional, ptr, vector, map: the template the member is), the    *)
(* kind of its element, and for a map the kind of its key and whether it   *)
(* is a std::map, which sorts its keys, or a std::unordered_map.  A struct *)
(* is a sequence of member values; an optional or a pointer <<>> or <<v>>; *)
(* a map a function.  The code reads one record of the root per step here, *)
(* nested messages whole; what was decoded before an error stays in the    *)
(* caller's struct.  Big numbers, whose messages PbBig has, are left out.  *)
(***************************************************************************)
EXTENDS PbWire, FiniteSetsExt

CONSTANTS Types,        \* type |-> its fields
          NarrowBits,   \* 32: the width of int32 and uint32
          BadBytes,     \* the bytes no UTF-8 text has
          Walks,        \* type |-> the orders its unordered maps may be walked in
          Inputs        \* the calls: up to count of some pieces of bytes, at
                        \* some limits: [type, pieces, count, lims].
                        \* ResolveLimits leaves every limit positive.

VARIABLES call,    \* the type, the bytes and the options of this call
          st,      \* "new", "reading", "ok", an error, then "written", "done"
          pos,     \* the next byte of the root
          val,     \* the caller's struct
          out,     \* what Marshal made of it
          back     \* what Unmarshal made of that

vars == <<call, st, pos, val, out, back>>

Ints == {"bool", "i64", "i32", "u64", "u32"}
FixedSize == [float |-> 1, double |-> 2]
Floats == DOMAIN FixedSize
IsPackable(kind) == kind \in Ints \cup Floats

RECURSIVE ZeroOf(_)
ZeroField(f) == IF f.shape = "plain" THEN ZeroOf(f.kind) ELSE <<>>
\* T{}
ZeroOf(kind) == IF IsPackable(kind) THEN 0
                ELSE IF kind \in {"string", "bytes"} THEN <<>>
                ELSE [i \in DOMAIN Types[kind] |-> ZeroField(Types[kind][i])]
-----------------------------------------------------------------------------
(* Marshal.                                                                *)

HalfRange(kind) == ByteSize ^ FixedSize[kind] \div 2
\* The two largest magnitudes stand for NaNs, the smaller the quiet one.
IsNaN(kind, v) == v % HalfRange(kind) >= HalfRange(kind) - 2
FloatBits(kind, v) == IF IsNaN(kind, v) THEN HalfRange(kind) - 2 ELSE v

\* v == T{}, which a negative zero is too.
IsZeroValue(kind, v) == \/ kind \in Ints /\ v = 0
                        \/ kind \in Floats /\ v \in {0, HalfRange(kind)}
                        \/ kind \in {"string", "bytes"} /\ v = <<>>

\* The value of a number, with no tag.
AppendPackedElement(kind, v, zigzag) ==
  IF kind \in Floats THEN AppendFixed(FloatBits(kind, v), FixedSize[kind])
  ELSE AppendVarint(Word(IF zigzag /\ kind \in {"i64", "i32"} THEN EncodeZigZag(v) ELSE v))

Good(bytes) == [st |-> "ok", out |-> bytes]
TooDeep == [st |-> "depth"]

WireTypeOf(kind) == CASE kind \in Ints -> "varint" [] kind = "float" -> "fixed32"
                      [] kind = "double" -> "fixed64" [] OTHER -> "bytes"

Tagged(num, kind, r) == IF r.st = "ok" THEN Good(AppendTag(num, WireTypeOf(kind)) \o r.out) ELSE r
Prefixed(r) == IF r.st = "ok" THEN Good(AppendBytes(r.out)) ELSE r
\* One part after another, up to the first that fails.
Joined(rs) == IF \A i \in DOMAIN rs : rs[i].st = "ok" THEN Good(FlattenSeq([i \in DOMAIN rs |-> rs[i].out]))
              ELSE TooDeep

RECURSIVE MarshalStruct(_, _, _, _)
\* how has the bound on the depth, and the order an unordered_map is walked in.

MarshalScalar(num, kind, v, zigzag, depth, how) ==
  Tagged(num, kind,
    CASE IsPackable(kind) -> Good(AppendPackedElement(kind, v, zigzag))
      [] kind \in {"string", "bytes"} -> Good(AppendBytes(v))
      [] OTHER -> Prefixed(MarshalStruct(kind, v, depth + 1, how)))

\* Field 2 of an entry, there whether it is set or not.
MarshalMapValue(f, v, depth, how) ==
  MarshalScalar(2, f.kind, IF f.value = "plain" THEN v ELSE IF v = <<>> THEN ZeroOf(f.kind) ELSE v[1],
                f.zigzag, depth, how)

MarshalEntry(f, k, v, depth, how) ==
  Tagged(f.num, "bytes", Prefixed(Joined(<<MarshalScalar(1, f.key, k, f.zigzag, depth, how),
                                           MarshalMapValue(f, v, depth, how)>>)))

\* A map's entries counted at the depth of the map.
EntryNoDescent(f, v, keys, depth, how) ==
  Joined([i \in DOMAIN keys |-> MarshalEntry(f, keys[i], v[keys[i]], depth, how)])

MarshalMap(f, v, keys, depth, how) ==
  IF keys = <<>> THEN Good(<<>>)
  ELSE IF depth + 1 > how.depth THEN TooDeep
  ELSE Joined([i \in DOMAIN keys |-> MarshalEntry(f, keys[i], v[keys[i]], depth + 1, how)])

\* The order a map is iterated in: a std::map's keys are sorted, and those of a
\* std::unordered_map in an order of the container's own.
WalkedKeys(f, v, walk) ==
  IF f.sorted THEN SetToSortSeq(DOMAIN v, <) ELSE SelectSeq(walk, LAMBDA k : k \in DOMAIN v)

MarshalField(f, v, depth, how) ==
  CASE f.shape \in {"optional", "ptr"} ->
         IF v = <<>> THEN Good(<<>>) ELSE MarshalScalar(f.num, f.kind, v[1], f.zigzag, depth, how)
    [] f.shape = "map" -> MarshalMap(f, v, WalkedKeys(f, v, how.walk), depth, how)
    [] f.shape = "vector" ->
         IF v = <<>> THEN Good(<<>>)
         ELSE IF IsPackable(f.kind)
         THEN Tagged(f.num, "bytes", Prefixed(Good(FlattenSeq(
                [i \in DOMAIN v |-> AppendPackedElement(f.kind, v[i], f.zigzag)]))))
         ELSE Joined([i \in DOMAIN v |-> MarshalScalar(f.num, f.kind, v[i], f.zigzag, depth, how)])
    [] OTHER -> IF IsZeroValue(f.kind, v) THEN Good(<<>>)
                ELSE MarshalScalar(f.num, f.kind, v, f.zigzag, depth, how)

MarshalStruct(type, v, depth, how) ==
  IF depth > how.depth THEN TooDeep
  ELSE Joined([i \in DOMAIN v |-> MarshalField(Types[type][i], v[i], depth, how)])

Marshal(type, v, max, walk) == MarshalStruct(type, v, 0, [depth |-> max, walk |-> walk])
-----------------------------------------------------------------------------
(* Unmarshal.  A result has the struct or member as far as it was read,    *)
(* next the byte after the record, and st "ok" or the error.               *)

Result(error, next, v) == [st |-> error, next |-> next, v |-> v]

\* A word as the member's type holds it.
FromWord(kind, x, zigzag) ==
  LET signed == IF zigzag THEN DecodeZigZag(x) ELSE LowSigned(x, WordBits)
  IN CASE kind = "bool" -> IF x # 0 THEN 1 ELSE 0
       [] kind = "u64" -> x
       [] kind = "u32" -> x % 2 ^ NarrowBits
       [] kind = "i64" -> signed
       [] kind = "i32" -> LowSigned(signed, NarrowBits)

UnmarshalNumber(kind, zigzag, old, r) ==
  IF r.next = 0 THEN Result("corrupt", 0, old)
  ELSE Result("ok", r.next, IF kind \in Floats THEN r.v ELSE FromWord(kind, r.v, zigzag))

IsValidUTF8(s) == \A i \in DOMAIN s : s[i] \notin BadBytes

UnmarshalText(kind, old, text, next) ==
  IF kind = "string" /\ ~IsValidUTF8(text) THEN Result("utf8", next, old) ELSE Result("ok", next, text)

UnmarshalBytes(kind, old, b, r) ==
  IF r.next = 0 THEN Result("corrupt", 0, old)
  ELSE UnmarshalText(kind, old, SubSeq(b, r.from, r.next - 1), r.next)

RECURSIVE UnmarshalStruct(_, _, _, _, _, _, _)

\* The submessage is read from its own span, the depth going with it.
UnmarshalMessage(kind, old, b, r, depth, lim) ==
  IF r.next = 0 THEN Result("corrupt", 0, old)
  ELSE [UnmarshalStruct(kind, old, b, r.from, r.next, depth + 1, lim) EXCEPT !.next = r.next]

UnmarshalScalar(kind, zigzag, old, b, i, e, depth, lim) ==
  CASE kind \in Ints -> UnmarshalNumber(kind, zigzag, old, ConsumeVarint(b, i, e))
    [] kind \in Floats -> UnmarshalNumber(kind, zigzag, old, ConsumeFixed(b, i, e, FixedSize[kind]))
    [] kind \in {"string", "bytes"} -> UnmarshalBytes(kind, old, b, ConsumeBytes(b, i, e))
    [] OTHER -> UnmarshalMessage(kind, old, b, ConsumeBytes(b, i, e), depth, lim)

\* An optional read into like a pointer.
MergesOptional(shape, kind, old) == IF shape = "plain" THEN old
                                    ELSE IF old = <<>> THEN ZeroOf(kind) ELSE old[1]

\* Where a member's value is read into: itself, a fresh value, or what the
\* pointer has, made when there is nothing.
Target(shape, kind, old) == CASE shape = "plain" -> old
                              [] shape = "optional" -> ZeroOf(kind)
                              [] shape = "ptr" -> IF old = <<>> THEN ZeroOf(kind) ELSE old[1]

\* The member then; an optional takes only a value that is whole.
Settled(shape, old, r) == CASE shape = "plain" -> r
                            [] shape = "optional" /\ r.st # "ok" -> [r EXCEPT !.v = old]
                            [] OTHER -> [r EXCEPT !.v = <<r.v>>]

\* The check after the element is in.
PushThenCheck(old, r, lim) ==
  CASE r.st # "ok" -> [r EXCEPT !.v = old]
    [] r.st = "ok" /\ Len(old) >= lim.count -> Result("count", r.next, Append(old, r.v))
    [] OTHER -> [r EXCEPT !.v = Append(old, r.v)]

\* One more element, unless the member is full.
PushBack(old, r, lim) ==
  CASE r.st # "ok" -> [r EXCEPT !.v = old]
    [] r.st = "ok" /\ Len(old) >= lim.count -> Result("count", r.next, old)
    [] OTHER -> [r EXCEPT !.v = Append(old, r.v)]

RECURSIVE UnpackFrom(_, _, _, _, _, _)
UnpackNext(f, r, b, e, lim) == IF r.st # "ok" THEN r ELSE UnpackFrom(f, r.v, b, r.next, e, lim)
UnpackFrom(f, v, b, i, e, lim) ==
  IF i >= e THEN Result("ok", e, v)
  ELSE UnpackNext(f, PushBack(v, UnmarshalScalar(f.kind, f.zigzag, 0, b, i, e, 0, lim), lim), b, e, lim)

UnmarshalPacked(f, old, b, r, lim) ==
  IF r.next = 0 THEN Result("corrupt", 0, old) ELSE UnpackFrom(f, old, b, r.from, r.next, lim)

\* A member that is a value, an optional or a pointer.
UnmarshalSingle(f, old, b, i, e, depth, lim) ==
  Settled(f.shape, old, UnmarshalScalar(f.kind, f.zigzag, Target(f.shape, f.kind, old), b, i, e, depth, lim))

\* v with its m-th member as r has it.
Member(v, m, r) == [r EXCEPT !.v = [v EXCEPT ![m] = r.v]]

Skipped(v, n) == Result(IF n.next = 0 THEN "corrupt" ELSE "ok", n.next, v)

\* A map entry is a message of a key and a value.
EntryFields(f) == <<[num |-> 1, shape |-> "plain", kind |-> f.key, zigzag |-> f.zigzag],
                    [num |-> 2, shape |-> f.value, kind |-> f.kind, zigzag |-> f.zigzag]>>

\* One record of an entry, kv the key and value so far.
EntryRecord(f, kv, b, e, depth, lim, tag) ==
  CASE tag.next = 0 -> Result("corrupt", 0, kv)
    [] tag.next # 0 /\ tag.num \in 1..2 ->
         Member(kv, tag.num, UnmarshalSingle(EntryFields(f)[tag.num], kv[tag.num], b, tag.next, e, depth, lim))
    [] OTHER -> Skipped(kv, ConsumeFieldValue(b, tag.next, e, tag.num, tag.type))

RECURSIVE UnmarshalEntry(_, _, _, _, _, _, _)
NextInEntry(f, r, b, e, depth, lim) ==
  IF r.st # "ok" THEN r ELSE UnmarshalEntry(f, r.v, b, r.next, e, depth, lim)
UnmarshalEntry(f, kv, b, i, e, depth, lim) ==
  IF i >= e THEN Result("ok", e, kv)
  ELSE NextInEntry(f, EntryRecord(f, kv, b, e, depth, lim, ConsumeTag(b, i, e)), b, e, depth, lim)

InsertOrAssign(map, r, lim) ==
  CASE r.st # "ok" -> [r EXCEPT !.v = map]
    [] r.st = "ok" /\ Cardinality(DOMAIN map) >= lim.count /\ r.v[1] \notin DOMAIN map ->
         Result("count", r.next, map)
    [] OTHER -> [r EXCEPT !.v = [k \in DOMAIN map \cup {r.v[1]} |-> IF k = r.v[1] THEN r.v[2] ELSE map[k]]]

UnmarshalMap(f, old, b, r, depth, lim) ==
  CASE r.next = 0 -> Result("corrupt", 0, old)
    [] r.next # 0 /\ depth + 1 > lim.depth -> Result("depth", 0, old)
    [] OTHER -> InsertOrAssign(old,
                  UnmarshalEntry(f, [m \in 1..2 |-> ZeroField(EntryFields(f)[m])],
                                 b, r.from, r.next, depth + 1, lim), lim)

UnmarshalField(f, old, b, i, e, type, depth, lim) ==
  CASE f.shape = "map" -> UnmarshalMap(f, old, b, ConsumeBytes(b, i, e), depth, lim)
    [] f.shape = "vector" ->
         IF IsPackable(f.kind) /\ type = WireTypes.bytes
         THEN UnmarshalPacked(f, old, b, ConsumeBytes(b, i, e), lim)
         ELSE PushBack(old, UnmarshalScalar(f.kind, f.zigzag, ZeroOf(f.kind), b, i, e, depth, lim), lim)
    [] OTHER -> UnmarshalSingle(f, old, b, i, e, depth, lim)

MemberRecord(type, v, m, b, e, depth, lim, tag) ==
  Member(v, m, UnmarshalField(Types[type][m], v[m], b, tag.next, e, tag.type, depth, lim))

\* One record: the first field of that number has it, or it is skipped.
UnmarshalRecord(type, v, b, e, depth, lim, tag) ==
  LET known == {m \in DOMAIN v : tag.next # 0 /\ Types[type][m].num = tag.num}
  IN CASE tag.next = 0 -> Result("corrupt", 0, v)
       [] tag.next # 0 /\ known # {} -> MemberRecord(type, v, Min(known), b, e, depth, lim, tag)
       [] OTHER -> Skipped(v, ConsumeFieldValue(b, tag.next, e, tag.num, tag.type))

RECURSIVE UnmarshalRecords(_, _, _, _, _, _, _)
NextRecord(type, r, b, e, depth, lim) ==
  IF r.st # "ok" THEN r ELSE UnmarshalRecords(type, r.v, b, r.next, e, depth, lim)
UnmarshalRecords(type, v, b, i, e, depth, lim) ==
  IF i >= e THEN Result("ok", e, v)
  ELSE NextRecord(type, UnmarshalRecord(type, v, b, e, depth, lim, ConsumeTag(b, i, e)), b, e, depth, lim)

UnmarshalStruct(type, v, b, i, e, depth, lim) ==
  IF depth > lim.depth THEN Result("depth", 0, v) ELSE UnmarshalRecords(type, v, b, i, e, depth, lim)

Unmarshal(type, b, lim) ==
  IF Len(b) > lim.size THEN Result("size", 0, ZeroOf(type))
  ELSE UnmarshalStruct(type, ZeroOf(type), b, 1, Len(b) + 1, 0, lim)
-----------------------------------------------------------------------------
(* A call of Unmarshal, then Marshal of what it read and Unmarshal of that. *)

Nothing == [st |-> "none"]

Init == \E c \in Inputs : \E n \in 0..c.count : \E ps \in [1..n -> c.pieces], lim \in c.lims :
            /\ call = [type |-> c.type, b |-> FlattenSeq(ps), lim |-> lim]
            /\ st = "new" /\ pos = 1 /\ val = ZeroOf(c.type) /\ out = Nothing /\ back = Nothing

\* Unmarshal before its loop; the root is at depth 0.
Start == /\ st = "new"
         /\ st' = IF Len(call.b) > call.lim.size THEN "size" ELSE "reading"
         /\ UNCHANGED <<call, pos, val, out, back>>

Took(r) == st' = (IF r.st = "ok" THEN "reading" ELSE r.st) /\ pos' = (IF r.st = "ok" THEN r.next ELSE pos) /\ val' = r.v

ReadRecord == /\ st = "reading" /\ pos <= Len(call.b)
              /\ Took(UnmarshalRecord(call.type, val, call.b, Len(call.b) + 1, 0, call.lim,
                                      ConsumeTag(call.b, pos, Len(call.b) + 1)))
              /\ UNCHANGED <<call, out, back>>

Finish == /\ st = "reading" /\ pos > Len(call.b)
          /\ st' = "ok"
          /\ UNCHANGED <<call, pos, val, out, back>>

WriteBack == /\ st = "ok"
             /\ \E walk \in Walks[call.type] : out' = Marshal(call.type, val, call.lim.depth, walk)
             /\ st' = "written"
             /\ UNCHANGED <<call, pos, val, back>>

ReadBack == /\ st = "written" /\ out.st = "ok"
            /\ back' = Unmarshal(call.type, out.out, [call.lim EXCEPT !.size = Len(out.out)])
            /\ st' = "done"
            /\ UNCHANGED <<call, pos, val, out>>

Next == Start \/ ReadRecord \/ Finish \/ WriteBack \/ ReadBack

Spec == Init /\ [][Next]_vars
-----------------------------------------------------------------------------
(* What a message means, record by record of the whole message rather than *)
(* one after the other: each record cut out, the records of each field     *)
(* gathered, and a map entry a message with the fields 1 and 2.            *)

RECURSIVE RecordsFrom(_, _)
Broken == [ok |-> FALSE, rs |-> <<>>]
Cut(tag, data, rest) == [ok |-> rest.ok, rs |-> <<[num |-> tag.num, type |-> tag.type, data |-> data]>> \o rest.rs]
CutValue(b, tag, value) ==
  IF value.next = 0 THEN Cut(tag, <<>>, Broken)
  ELSE Cut(tag, SubSeq(b, IF tag.type = WireTypes.bytes THEN value.from ELSE tag.next, value.next - 1),
           RecordsFrom(b, value.next))
CutTag(b, tag) ==
  IF tag.next = 0 THEN Broken
  ELSE CutValue(b, tag, ConsumeFieldValue(b, tag.next, Len(b) + 1, tag.num, tag.type))
\* The records from i on, and whether they are whole: a last one that is
\* not has no data.
RecordsFrom(b, i) == IF i > Len(b) THEN [ok |-> TRUE, rs |-> <<>>] ELSE CutTag(b, ConsumeTag(b, i, Len(b) + 1))

NaturalType(f, type) ==
  \/ type = WireTypes[IF f.shape = "map" THEN "bytes" ELSE WireTypeOf(f.kind)]
  \/ f.shape = "vector" /\ IsPackable(f.kind) /\ type = WireTypes.bytes

IsMessage(f) == f.shape = "map" \/ f.kind \in DOMAIN Types
FieldsIn(f) == IF f.shape = "map" THEN EntryFields(f) ELSE Types[f.kind]

RECURSIVE Natural(_, _)
NaturalRecords(fields, rs) ==
  \A i \in DOMAIN rs, m \in DOMAIN fields : fields[m].num = rs[i].num =>
    /\ NaturalType(fields[m], rs[i].type)
    /\ IsMessage(fields[m]) => Natural(FieldsIn(fields[m]), rs[i].data)
\* Every record of a field has the wire type the field is written with.
Natural(fields, b) == NaturalRecords(fields, RecordsFrom(b, 1).rs)

\* The values of a packed record, each up to the byte that ends it.
EndsValue(kind, data, i) == \/ i = Len(data)
                            \/ IF kind \in Floats THEN i % FixedSize[kind] = 0 ELSE data[i] < More
SplitAt(data, ends) == [i \in DOMAIN ends |-> SubSeq(data, IF i = 1 THEN 1 ELSE ends[i - 1] + 1, ends[i])]
Pieces(kind, data) == SplitAt(data, SetToSortSeq({i \in DOMAIN data : EndsValue(kind, data, i)}, <))

No == [ok |-> FALSE, v |-> 0]
Yes(v) == [ok |-> TRUE, v |-> v]

NumberIn(f, data, r) == IF r.next # Len(data) + 1 THEN No
                        ELSE Yes(IF f.kind \in Floats THEN r.v ELSE FromWord(f.kind, r.v, f.zigzag))

RECURSIVE Meaning(_, _, _, _)
\* One value of a field that is not a map: number, text or message.
ValueIn(f, data, depth, lim) ==
  CASE f.kind \in Ints -> NumberIn(f, data, ConsumeVarint(data, 1, Len(data) + 1))
    [] f.kind \in Floats -> NumberIn(f, data, ConsumeFixed(data, 1, Len(data) + 1, FixedSize[f.kind]))
    [] f.kind \in {"string", "bytes"} ->
         IF f.kind = "string" /\ Range(data) \cap BadBytes # {} THEN No ELSE Yes(data)
    [] OTHER -> IF depth + 1 > lim.depth THEN No ELSE Meaning(Types[f.kind], data, depth + 1, lim)

AllOf(rs) == IF \A i \in DOMAIN rs : rs[i].ok THEN Yes([i \in DOMAIN rs |-> rs[i].v]) ELSE No

ElementsOf(f, rec) == IF IsPackable(f.kind) /\ rec.type = WireTypes.bytes THEN Pieces(f.kind, rec.data) ELSE <<rec.data>>

VectorOf(f, elements, depth, lim) ==
  IF Len(elements) > lim.count THEN No
  ELSE AllOf([i \in DOMAIN elements |-> ValueIn(f, elements[i], depth, lim)])

MapOf(entries, keys, lim) ==
  IF Cardinality(keys) > lim.count THEN No
  ELSE Yes([k \in keys |-> entries[Max({i \in DOMAIN entries : entries[i][1] = k})][2]])
EntriesOf(r, lim) == IF r.ok THEN MapOf(r.v, {r.v[i][1] : i \in DOMAIN r.v}, lim) ELSE No

LastOf(f, r) == IF ~r.ok THEN No ELSE IF f.shape = "plain" THEN Yes(Last(r.v)) ELSE Yes(<<Last(r.v)>>)
\* Messages through a pointer or in place are one message, their bytes
\* joined; of anything else the last one counts.
SingleOf(f, data, depth, lim) ==
  IF data = <<>> THEN Yes(ZeroField(f))
  ELSE LastOf(f, AllOf([i \in 1..(Len(data) + IF f.kind \in DOMAIN Types /\ f.shape # "optional" THEN 1 ELSE 0) |->
                          ValueIn(f, IF i > Len(data) THEN FlattenSeq(data) ELSE data[i], depth, lim)]))

FieldMeaning(f, recs, depth, lim) ==
  CASE f.shape = "map" ->
         IF recs # <<>> /\ depth + 1 > lim.depth THEN No
         ELSE EntriesOf(AllOf([i \in DOMAIN recs |-> Meaning(EntryFields(f), recs[i].data, depth + 1, lim)]), lim)
    [] f.shape = "vector" -> VectorOf(f, FlattenSeq([i \in DOMAIN recs |-> ElementsOf(f, recs[i])]), depth, lim)
    [] OTHER -> SingleOf(f, [i \in DOMAIN recs |-> recs[i].data], depth, lim)

RecordsMean(fields, r, depth, lim) ==
  IF ~r.ok THEN No
  ELSE AllOf([m \in DOMAIN fields |->
                FieldMeaning(fields[m], SelectSeq(r.rs, LAMBDA x : x.num = fields[m].num), depth, lim)])
Meaning(fields, b, depth, lim) == RecordsMean(fields, RecordsFrom(b, 1), depth, lim)

Fields == Types[call.type]
Read == SubSeq(call.b, 1, pos - 1)
Meant(read) ==
  st # "new" /\ Natural(Fields, call.b) =>
    /\ st \in {"reading", "ok"} => read.ok /\ val = read.v
    /\ st = "ok" => pos = Len(call.b) + 1
    /\ st \in {"corrupt", "utf8", "depth", "count"} =>
         /\ ~Meaning(Fields, call.b, 0, call.lim).ok /\ read.ok
         /\ Cardinality({m \in DOMAIN val : val[m] # read.v[m]}) <= 1
    /\ st = "size" => val = ZeroOf(call.type)
-----------------------------------------------------------------------------
\* UnmarshalStruct reads a message as what its records mean together.  At
\* each step the struct is the meaning of the bytes read: the last record of
\* a scalar and of an optional, messages in place and through a pointer
\* merged, packed and single elements of a vector in order, one value per
\* map key, unknown fields and groups skipped whole.  It ends well exactly
\* when all of the bytes mean something, and on an error no member is
\* touched but the one being read.  (Records in another wire type than
\* their field's are read by the field's: no meaning is stated for those.)
DecodesRecords == Meant(Meaning(Fields, Read, 0, call.lim))

RECURSIVE Written(_, _)
\* The value a marshalled one is: NaNs quiet, no negative zero in a plain
\* member, map values all set.
WrittenNumber(f, v) ==
  CASE f.kind \in Floats /\ f.shape = "plain" /\ v = HalfRange(f.kind) -> 0
    [] f.kind \in Floats -> FloatBits(f.kind, v)
    [] f.kind \in DOMAIN Types -> Written(f.kind, v)
    [] OTHER -> v
WrittenMapValue(f, v) ==
  LET inner(x) == WrittenNumber([f EXCEPT !.shape = "element"], x)
  IN IF f.value = "plain" THEN inner(v) ELSE <<inner(IF v = <<>> THEN ZeroOf(f.kind) ELSE v[1])>>
Written(type, v) ==
  [m \in DOMAIN v |->
     LET f == Types[type][m]
     IN CASE f.shape = "plain" -> WrittenNumber(f, v[m])
          [] f.shape = "map" -> [k \in DOMAIN v[m] |-> WrittenMapValue(f, v[m][k])]
          [] OTHER -> [i \in DOMAIN v[m] |-> WrittenNumber(f, v[m][i])]]

RECURSIVE Levels(_, _)
\* The messages below a value, in place ones always there.
LevelsIn(f, v) ==
  LET values == CASE f.shape = "plain" -> {v}
                  [] f.shape = "map" -> {WrittenMapValue(f, v[k]) : k \in DOMAIN v}
                  [] OTHER -> Range(v)
      inner(x) == IF f.kind \notin DOMAIN Types THEN 0
                  ELSE 1 + Levels(f.kind, IF f.shape = "map" /\ f.value # "plain" THEN x[1] ELSE x)
      own == IF f.shape = "map" THEN 1 ELSE 0
  IN {own + inner(x) : x \in values}
Levels(type, v) == Max({0} \cup UNION {LevelsIn(Types[type][m], v[m]) : m \in DOMAIN v})

\* Marshal after Unmarshal.  MarshalStruct refuses a value exactly when it
\* has more levels than the bound, members held in place and the values a
\* map must write counted even when nothing was read for them.  What it
\* writes Unmarshal takes at the same bounds and reads as the same value,
\* but for quiet NaNs, the sign of a plain zero and unset map values.  Marshal
\* writes those bytes again for it where its maps are std::maps; the entries
\* of a std::unordered_map come in whichever order the container has now,
\* one of which gives those bytes.
ReencodesSame ==
  /\ st \in {"written", "done"} => (out.st = "ok" <=> Levels(call.type, val) <= call.lim.depth)
  /\ st = "done" => /\ back.st = "ok" /\ back.v = Written(call.type, val)
                    /\ \E walk \in Walks[call.type] : Marshal(call.type, back.v, call.lim.depth, walk) = out

RECURSIVE Fits(_, _, _)
Fits(type, v, lim) ==
  \A m \in DOMAIN v :
    LET f == Types[type][m]
        held == CASE f.shape = "plain" -> {v[m]}
                  [] f.shape = "map" /\ f.value # "plain" -> UNION {Range(v[m][k]) : k \in DOMAIN v[m]}
                  [] OTHER -> Range(v[m])
    IN /\ f.shape \in {"vector", "map"} => Cardinality(DOMAIN v[m]) <= lim.count
       /\ f.kind \in DOMAIN Types => \A x \in held : Fits(f.kind, x, lim)

\* The limits bound what Unmarshal builds, not only what it accepts: after
\* every record and every error, no list and no map of the caller's struct,
\* at any level, holds more than max_repeated_count, whatever the wire types
\* of the records (UnmarshalField checks before it appends or inserts).
LimitsHold == st # "new" => Fits(call.type, val, call.lim)
=============================================================================
