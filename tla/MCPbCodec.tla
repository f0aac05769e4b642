----------------------------- MODULE MCPbCodec -----------------------------
(* Five struct types and, for each, records of its fields, unknown fields, *)
(* groups and damaged bytes, in every order.                               *)
EXTENDS PbCodec

Field(num, shape, kind, zigzag) == [num |-> num, shape |-> shape, kind |-> kind, zigzag |-> zigzag]
MapField(num, key, kind, value, zigzag, sorted) ==
  [num |-> num, shape |-> "map", key |-> key, kind |-> kind, value |-> value, zigzag |-> zigzag, sorted |-> sorted]

MCTypes ==
  LET plain == "plain"
  IN [ints |-> <<Field(1, plain, "i64", TRUE), Field(2, plain, "i32", FALSE), Field(3, "optional", "u32", FALSE)>>,
      flts |-> <<Field(1, plain, "float", FALSE), Field(2, "optional", "double", FALSE), Field(3, "vector", "float", FALSE)>>,
      vecs |-> <<Field(1, "vector", "i32", TRUE), Field(2, "vector", "string", FALSE), Field(3, "vector", "leaf", FALSE)>>,
      leaf |-> <<Field(1, plain, "bool", FALSE), Field(2, "vector", "u64", FALSE)>>,
      tree |-> <<Field(1, "ptr", "tree", FALSE), Field(2, "optional", "tree", FALSE), Field(3, plain, "leaf", FALSE)>>,
      maps |-> <<MapField(1, "i32", "i64", plain, TRUE, FALSE), MapField(2, "bool", "leaf", "ptr", FALSE, TRUE),
                 MapField(3, "i32", "float", "optional", FALSE, TRUE)>>]

\* The one unordered_map is the first field of maps.
MCWalks == [type \in DOMAIN MCTypes |-> IF type = "maps" THEN SetToSeqs({-1, 0, 1}) ELSE {<<>>}]

Rec(num, type, data) == AppendTag(num, type) \o data
Msg(num, data) == AppendTag(num, "bytes") \o AppendBytes(data)
Lim(size, depth, count) == [size |-> size, depth |-> depth, count |-> count]

Odd == {<<32>>, <<0, 1>>, Rec(5, "varint", <<1>>)}
Group == Rec(4, "startGroup", Rec(5, "bytes", <<1, 9>>)) \o Rec(4, "endGroup", <<>>)
Nested(n) == FlattenSeq([i \in 1..n |-> Rec(4, "startGroup", <<>>)]) \o FlattenSeq([i \in 1..n |-> Rec(4, "endGroup", <<>>)])

IntPieces == Odd \cup
  {Rec(1, "varint", <<3>>), Rec(1, "varint", <<63, 63, 1>>), Rec(1, "varint", <<63, 63, 2>>), Rec(1, "varint", <<34, 32, 0>>),
   Rec(2, "varint", <<63, 63, 1>>), Rec(2, "varint", <<32, 1>>), Rec(2, "fixed32", <<5>>), Rec(3, "varint", <<33, 2>>),
   Rec(3, "varint", <<0>>), Group, Nested(2), Nested(3), Nested(4), Rec(4, "startGroup", Rec(5, "endGroup", <<>>)),
   Rec(6, "fixed64", <<1, 2>>), Rec(6, "fixed64", <<1>>), Rec(6, "fixed32", <<1>>), Rec(6, "endGroup", <<>>), <<55, 1>>}

FltPieces == {<<32>>} \cup
  {Rec(1, "fixed32", <<x>>) : x \in {0, 32, 5, 31, 62}} \cup {Rec(3, "fixed32", <<x>>) : x \in {32, 63}} \cup
  {Rec(2, "fixed64", <<x, y>>) : x \in {0, 63}, y \in {0, 31, 32}} \cup
  {Rec(2, "fixed64", <<1>>), Msg(3, <<>>), Msg(3, <<0, 31, 7>>)}

VecPieces == Odd \cup
  {Msg(1, <<1, 2>>), Msg(1, <<33>>), Msg(1, <<>>), Msg(1, <<63, 63, 1>>), Rec(1, "varint", <<4>>), Rec(1, "fixed64", <<1, 2>>),
   Msg(2, <<>>), Msg(2, <<7>>), Msg(2, <<7, 63>>), Rec(2, "bytes", <<9>>), Msg(3, <<>>), Msg(3, Rec(1, "varint", <<2>>)),
   Msg(3, Msg(2, <<1, 2>>)), Msg(3, <<32>>)}

Leaves == {Rec(1, "varint", <<2>>), Msg(2, <<1>>), Rec(2, "varint", <<6>>), <<32>>}
TreePieces == Odd \cup
  {Msg(n, <<>>) : n \in 1..3} \cup {Msg(3, x) : x \in Leaves} \cup
  {Msg(n, Msg(3, x)) : n \in 1..2, x \in Leaves} \cup {Msg(2, Msg(1, <<>>)), Msg(1, Msg(2, Msg(1, <<>>)))}

Key(k) == Rec(1, "varint", k)
MapPieces == Odd \cup
  {Msg(1, e) : e \in {<<>>, Key(<<1>>), Key(<<1>>) \o Rec(2, "varint", <<3>>), Rec(2, "varint", <<4>>) \o Key(<<34>>),
                      Key(<<1>>) \o Key(<<2>>), Rec(5, "varint", <<1>>), Rec(5, "varint", <<32>>), <<32>>}} \cup
  {Msg(2, e) : e \in {<<>>, Key(<<1>>) \o Msg(2, Msg(2, <<1>>)), Key(<<2>>) \o Msg(2, <<8>>), Key(<<0>>) \o Msg(2, <<>>) \o Msg(2, Msg(2, <<5>>))}} \cup
  {Msg(3, e) : e \in {Key(<<1>>), Key(<<1>>) \o Rec(2, "fixed32", <<31>>), Rec(2, "fixed32", <<32>>)}}

MCInputs ==
  LET In(type, pieces, count, lims) == [type |-> type, pieces |-> pieces, count |-> count, lims |-> lims]
  IN {In("ints", IntPieces, 3, {Lim(99, 2, 2), Lim(4, 2, 2)}), In("flts", FltPieces, 3, {Lim(99, 1, 2)}),
      In("vecs", VecPieces, 3, {Lim(99, 1, 2), Lim(99, 1, 1)}), In("tree", TreePieces, 3, {Lim(99, 1, 1), Lim(99, 2, 1)}),
      In("maps", MapPieces, 3, {Lim(99, 1, 2), Lim(99, 2, 2)})}
=============================================================================
