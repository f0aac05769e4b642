----------------------------- MODULE MCSbeCodec -----------------------------
(* Bytes of 2 bits, so int8 is -2..1, int64 has 16 bits, and a uint16 of a *)
(* header states up to 15.  The layouts are those of every small schema;   *)
(* messages and wires go through schemas of one field of each kind in each *)
(* encoding, and through ones with composites, groups and text.            *)
EXTENDS SbeCodec

MCTypes == {"M", "E", "C"}

Field(kind, size, proto, encoding, type) ==
  [kind |-> kind, size |-> size, oneof |-> FALSE, type |-> type, proto |-> proto, encoding |-> encoding]
Scalar(s)  == Field("scalar", s, "bytes", "char", "M")
Of(k, t)   == Field(k, 0, "", "", t)
InOneof(f) == [f EXCEPT !.oneof = TRUE]
As(proto, encoding, length) ==
  LET e == FieldEncodingSize(proto, encoding, length)
  IN Field(IF e.ok THEN "scalar" ELSE "noEncoding", e.size, proto, e.encoding, "M")

\* The messages with fields out of F at some of the numbers N.
Messages(N, F) == UNION {[D -> F] : D \in SUBSET N}

Schema(m, e, c) == [t \in MCTypes |-> CASE t = "M" -> m [] t = "E" -> e [] t = "C" -> c]

InM == {Scalar(4), Scalar(11), InOneof(Scalar(4)), Of("map", "M"), Of("repeatedScalar", "M"),
        Of("message", "E"), Of("repeatedMessage", "E"), Of("message", "C")}
InE == {Scalar(7), InOneof(Scalar(7)), Of("noEncoding", "M"), Of("message", "C"), Of("repeatedMessage", "C")}
InC == {Scalar(4), Scalar(8)}
Layouts == {Schema(m, e, c) : m \in Messages({1, 3}, InM), e \in Messages({1, 2}, InE), c \in Messages({1}, InC)}

Protos == {"bool", "int32", "int64", "uint32", "uint64", "enum", "float", "double", "string", "bytes"}
Encodings == DOMAIN EncodingSize \cup {"", "char"}
NumberSchemas == {Schema(<<As(p, e, -1), As("uint32", "uint8", -1)>>, <<>>, <<>>) : p \in Protos, e \in Encodings}
TextSchemas == {Schema(<<As(p, "", n), As("uint32", "uint8", -1)>>, <<>>, <<>>) : p \in TextTypes, n \in {0, 2, 3, 16}}
NestedSchemas ==
  {Schema(<<Of("message", "C"), Of("repeatedMessage", "E"), As("bool", "", -1)>>, e, c) :
     e \in {<<>>, <<As("int32", "int8", -1)>>, <<InOneof(As("uint32", "uint8", -1)), As("string", "", 2), InOneof(As("enum", "", -1))>>,
            <<Of("message", "C"), As("bool", "uint8", -1)>>},
     c \in {<<>>, <<As("int64", "int16", -1), As("bytes", "", 1)>>}}

MCSchemas == Layouts \cup NumberSchemas \cup TextSchemas \cup NestedSchemas

\* The ends of the ranges of the widths up to n bytes, and around them.
Edges(lo, hi) == {v \in UNION {{x - 1, x, x + 1, -x - 1, -x, -x + 1} : x \in {0, 2, 4, 8, 16, 128, 256, 32768, 65535}} :
                    lo <= v /\ v <= hi}
Floats4 == {0, 1, 63, 125, 126, 127, 128, 129, 253, 254, 255}
Doubles == {0, 1, 63, 64, 65, 128, 191, 192, 193, 320, 15999, 16000, 16001, 16064, 32765, 32766, 32767, 32769, 48768, 48769, 65534}
Texts(n) == UNION {[1..k -> 0..3] : k \in 0..n}
ValuesOf(f) ==
  CASE f.proto \in TextTypes -> Texts(4)
    [] f.proto = "float" -> Floats4
    [] f.proto = "double" -> Doubles
    [] OTHER -> Edges(FieldRange(f.proto).lo, FieldRange(f.proto).hi)

Small(f) == CASE f.proto \in TextTypes -> {<<>>, <<1, 3, 2>>}
              [] OTHER -> {0, 1} \cup (IF f.proto = "int64" THEN {-8, 8} ELSE {})
RECURSIVE SmallMessages(_, _)
EntriesOf(s, type) ==
  LET all == SmallMessages(s, type)
  IN {<<>>} \cup {<<a, b>> : a, b \in all} \cup {[i \in 1..n |-> a] : a \in {CHOOSE x \in all : TRUE}, n \in {3, 4, 16}}
SmallMessages(s, type) ==
  LET of(n) == CASE s[type][n].kind = "message" -> SmallMessages(s, s[type][n].type)
                 [] s[type][n].kind = "repeatedMessage" -> EntriesOf(s, s[type][n].type)
                 [] OTHER -> Small(s[type][n])
      tuples[k \in 0..Len(s[type])] == IF k = 0 THEN {<<>>} ELSE {Append(x, v) : x \in tuples[k - 1], v \in of(k)}
  IN {x \in tuples[Len(s[type])] : Cardinality({n \in DOMAIN x : s[type][n].oneof /\ x[n] # 0}) <= 1}

Write(msgs) == {[op |-> "write", msg |-> m] : m \in msgs}
Read(wires, msgs) == {[op |-> "read", wire |-> w, into |-> m] : w \in wires, m \in msgs}
Header(length, id, sid) == Store(length, 2) \o Store(id, 2) \o Store(sid, 2) \o Store(0, 2)

Patterns(n) == CASE n <= 2 -> [1..n -> 0..3]
                 [] n = 3 -> [1..n -> 0..3]
                 [] n = 4 -> {Store(v, 4) : v \in {0, 1, 64, 127, 128, 200, 255}}
                 [] OTHER -> {Store(v, n) : v \in Edges(0, 65535) \cup Doubles}
OneFieldWork(s) ==
  LET f == s["M"][1]
      zero == <<IF f.encoding = "char" THEN <<>> ELSE 0, 0>>
  IN IF f.kind = "noEncoding" \/ f.size > 15 THEN {[op |-> "none"]}
     ELSE Write({<<v, 1>> : v \in ValuesOf(f)}) \cup
          Read({Header(f.size + 1, 1, 2) \o p \o <<3>> : p \in Patterns(f.size)} \cup
               {Header(f.size, 1, 2) \o Zeros(f.size + 1), Header(f.size + 1, 2, 2) \o Zeros(f.size + 1),
                Header(f.size + 1, 1, 1) \o Zeros(f.size + 1), Header(f.size + 1, 1, 2) \o Zeros(f.size)}, {zero})

BlockLength(s, type) == LET size(f) == IF f.kind = "message" THEN (IF s["C"] = <<>> THEN 0 ELSE 3) ELSE f.size
                        IN FoldLeft(LAMBDA n, f : n + size(f), 0, s[type])
NestedWork(s) ==
  LET zero == [n \in 1..3 |-> CASE n = 1 -> (IF s["C"] = <<>> THEN <<>> ELSE <<0, <<>>>>) [] n = 2 -> <<>> [] n = 3 -> 0]
      some == CHOOSE m \in SmallMessages(s, "M") : Len(m[2]) = 2
      length == BlockLength(s, "C") + 1
      block == BlockLength(s, "E")
      wire(more, n, fill) == Header(length, 1, 2) \o [i \in 1..length |-> 1] \o Store(block + more, 2) \o Store(n, 2)
                              \o [i \in 1..fill |-> (i + n) % 4]
  IN Write(SmallMessages(s, "M")) \cup
     Read({wire(more, n, fill) : more \in {-1, 0, 1} \ {-1 - block}, n \in {0, 1, 2, 4}, fill \in 0..10}, {zero, some})

MCWork(s) == CASE s \in NestedSchemas -> NestedWork(s)
               [] s \in NumberSchemas \cup TextSchemas -> OneFieldWork(s)
               [] OTHER -> {[op |-> "none"]}
=============================================================================
