------------------------------- MODULE PxfTypes --------------------------------
(***************************************************************************)
(* Descriptors and messages as the PXF codec uses them.                    *)
(*                                                                         *)
(* A type is a sequence of fields.  A field is a record: name; label       *)
(* ("one", "list" or "map"); kind, the scalar kind or "msg" of a value,    *)
(* of a list element or of a map value; type, the message type of a        *)
(* "msg"; mapkey, the kind of a map key; presence; oneof, its name or "";  *)
(* required; def, the text of its default, or <<>>; key, the value of      *)
(* (pxf.key) or "".                                                        *)
(*                                                                         *)
(* A message is a function from the names of its set fields.  A scalar is  *)
(* the text of its value, a list a sequence, a map a function.  Bytes are  *)
(* <<"raw", text>>, or <<"packed", message>> for a serialized message.     *)
(***************************************************************************)
EXTENDS PxfParser, Functions

CONSTANTS Types,        \* the fields of each message type
          Urls          \* the type that a TypeResolver finds for a type URL

FieldNames(t) == {Types[t][i].name : i \in DOMAIN Types[t]}

FieldNamed(t, name) == Types[t][CHOOSE i \in DOMAIN Types[t] : Types[t][i].name = name]

IsRepeated(fd) == fd.label # "one"

\* A text that is not UTF-8, and a number that is too long for any limit.
NotUtf8 == "notutf8"
TooLong == "long"

Zero(kind) ==
    CASE kind = "int" -> "0"
      [] kind = "string" -> ""
      [] kind = "bool" -> "false"
      [] kind = "enum" -> "0"
      [] kind = "bytes" -> <<"raw", "">>

SameOneof(t, fd) ==
    {f.name : f \in {g \in ToSet(Types[t]) : g.oneof # "" /\ g.oneof = fd.oneof}}

\* Reflection's Set, Add and Mutable: a field without presence is unset by its zero
\* value, an empty list or map is unset, and a member of a oneof unsets the others.
Put(t, msg, fd, v) ==
    LET others == Restrict(msg, DOMAIN msg \ (SameOneof(t, fd) \cup {fd.name}))
        unset == IF IsRepeated(fd) THEN DOMAIN v = {}
                 ELSE ~fd.presence /\ v = Zero(fd.kind)
    IN IF unset THEN others ELSE others @@ (fd.name :> v)

\* FindNullMaskField: the _null mask is not a field the model's documents bind.
NullMask == "_null"

Nullable(fd) == fd.presence /\ ~IsRepeated(fd) /\ ~fd.required

\* The element's key field that (pxf.key) names, or "".
KeyField(fd) ==
    IF /\ fd.label = "list" /\ fd.kind = "msg" /\ fd.key \in FieldNames(fd.type)
       /\ FieldNamed(fd.type, fd.key).label = "one"
       /\ FieldNamed(fd.type, fd.key).kind = "string"
    THEN fd.key ELSE ""

--------------------------------------------------------------------------------
(* Literals.  A timestamp, a big number and a BigFloat stand for the types with
   a literal form, a wrapper and a Secret for those that hold a scalar. *)

LiteralField(t) ==
    CASE t \in {"Wrapper", "Secret"} -> "value"
      [] t = "Timestamp" -> "seconds"
      [] t = "BigInt" -> "abs"
      [] t = "BigFloat" -> "mantissa"

\* LiteralFields: what a literal of type t sets.
LiteralFields(t) ==
    CASE t \in {"Wrapper", "Secret"} -> {"value"}
      [] t = "Timestamp" -> {"seconds", "nanos"}
      [] t = "BigInt" -> {"abs", "negative"}
      [] t = "BigFloat" -> {"mantissa", "exponent", "prec", "negative"}
      [] OTHER -> {}

IsDefaultable(t) == t \in {"Wrapper", "Timestamp", "BigInt", "BigFloat"}

\* ConsumeScalar and ConsumeEnum: <<the value of tok>>, or <<>> when it has none.
EnumNumber(name) == CASE name = "A" -> <<"0">> [] name = "B" -> <<"1">> [] OTHER -> <<>>

Scalar(kind, tok) ==
    CASE kind = "string" /\ tok[1] = "string" -> IF tok[2] = NotUtf8 THEN <<>> ELSE <<tok[2]>>
      [] kind = "bool" /\ tok[1] = "bool" -> <<tok[2]>>
      [] kind = "bytes" /\ tok[1] = "bytes" -> <<tok[2]>>
      [] kind = "enum" /\ tok[1] = "ident" -> EnumNumber(tok[2])
      [] kind \in {"int", "enum"} /\ tok[1] = "int" ->
             IF tok[2] \in {TooLong, WithPrecision[2]} THEN <<>> ELSE <<tok[2]>>
      [] OTHER -> <<>>

LiteralMessage(t, v) == Put(t, <<>>, FieldNamed(t, LiteralField(t)), v)

\* DecodeLiteral: <<"yes", message>>, <<"bad">>, or <<"no">> when tok is no literal of t.
LiteralKind(t, tok) ==
    CASE tok = WithPrecision -> IF t = "BigFloat" THEN "any" ELSE "none"
      [] t = "Timestamp" /\ tok[1] = "time" -> "any"
      [] t = "BigFloat" /\ tok[1] = "int" /\ tok # WithPrecision ->
             IF tok[2] = TooLong THEN "none" ELSE "any"
      [] t = "Wrapper" /\ tok # WithPrecision /\ tok[1] # "{" -> FieldNamed(t, "value").kind
      [] t = "Secret" /\ tok[1] = "string" -> "string"
      [] t = "BigInt" /\ tok[1] = "int" /\ tok # WithPrecision -> "int"
      [] OTHER -> "no"

Literal(t, tok) ==
    LET of(kind) == CASE kind = "no" -> <<"no">>
                      [] kind = "any" -> <<"yes", tok[2]>>
                      [] OTHER -> <<"yes">> \o Scalar(kind, tok)
        read(v) == IF Len(v) = 2 THEN <<"yes", LiteralMessage(t, v[2])>>
                   ELSE IF v = <<"yes">> THEN <<"bad">> ELSE v
    IN read(of(LiteralKind(t, tok)))

\* SetMapKey: <<the key that tok spells>>, or <<>>.
MapKeyOf(kind, tok) ==
    CASE kind = "string" -> IF tok[1] = "bool" \/ tok[2] = NotUtf8 THEN <<>> ELSE <<tok[2]>>
      [] kind = "int" -> IF tok[2] \in {"0", "1", "2"} THEN <<tok[2]>> ELSE <<>>
      [] kind = "bool" ->
             CASE tok[1] \in {"bool", "string"} /\ tok[2] \in {"true", "false"} -> <<tok[2]>>
               [] tok = <<"int", "1">> -> <<"true">>
               [] tok = <<"int", "0">> -> <<"false">>
               [] OTHER -> <<>>

\* ApplyDefault: <<the value of fd's default>>, or <<>> when it cannot be read.
DefaultKind(fd) ==
    IF fd.kind = "msg" THEN FieldNamed(fd.type, LiteralField(fd.type)).kind ELSE fd.kind

Default(fd) ==
    LET text == fd.def[1]
    IN IF DefaultKind(fd) \in {"int", "enum"} /\ text \notin {"0", "1", "2"} THEN <<>>
       ELSE <<IF fd.kind = "msg" THEN LiteralMessage(fd.type, text) ELSE text>>
================================================================================
