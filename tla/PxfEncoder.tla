------------------------------ MODULE PxfEncoder -------------------------------
(***************************************************************************)
(* pxf::Marshal (src/pxf/encode.cc): the tokens that are written for a     *)
(* message, without their layout.                                          *)
(*                                                                         *)
(* The options are e: max, resolver, emit (emit_defaults), nulls (the null *)
(* set), mask (whether the root has a _null mask) and skip (skip_key_fd_). *)
(* A write is a record: toks, and why it failed, "" for success; a failure *)
(* is "depth" (depth_refused_) or "required" (required_unset_).            *)
(***************************************************************************)
EXTENDS PxfDecoder

Sign(k) == <<k, "">>

Text(toks) == [toks |-> toks, why |-> ""]
Refused(why) == [toks |-> <<>>, why |-> why]

\* The writes of parts in order, up to the first that fails, between two texts.
Joined(before, parts, after) ==
    LET failed == {i \in DOMAIN parts : parts[i].why # ""}
    IN IF failed # {} THEN parts[Min(failed)]
       ELSE Text(before \o FlattenSeq([i \in DOMAIN parts |-> parts[i].toks]) \o after)

\* Of the texts of the model, all but these are identifiers.
IsIdentifierSafeEntryName(text) == text \notin {"", "0", "1", "a b", "true", "false", NotUtf8}

NameToken(text) == IF IsIdentifierSafeEntryName(text) THEN <<"ident", text>> ELSE <<"string", text>>

EncodeScalarValue(kind, v) ==
    CASE kind = "enum" /\ v = "0" -> <<"ident", "A">>
      [] kind = "enum" /\ v = "1" -> <<"ident", "B">>
      [] kind = "enum" /\ v \notin {"0", "1"} -> <<"int", v>>
      [] OTHER -> <<kind, v>>

FieldValue(msg, fd) == IF fd.name \in DOMAIN msg THEN msg[fd.name] ELSE Zero(fd.kind)

IsLiteralMessage(t, msg) ==
    t \in {"Timestamp", "Wrapper", "BigInt", "BigFloat"} \/ (t = "Secret" /\ "hint" \notin DOMAIN msg)

WriteLiteralMessage(t, msg) ==
    LET fd == FieldNamed(t, LiteralField(t))
        v == FieldValue(msg, fd)
    IN CASE t = "Timestamp" -> <<"time", v>>
         [] t = "BigFloat" -> IF v = "1p2" THEN WithPrecision ELSE <<"int", v>>
         [] OTHER -> EncodeScalarValue(fd.kind, v)

\* What an unset field is written as so that it reads back: "nothing", "zero",
\* "empty", "null", or "refused".
UnsetField(t, msg, fd) ==
    CASE ~fd.required /\ fd.def = <<>> -> "nothing"
      [] (fd.required \/ fd.def # <<>>) /\ IsRepeated(fd) -> "empty"
      [] (fd.required \/ fd.def # <<>>) /\ ~IsRepeated(fd) ->
             CASE ~fd.presence -> "zero"
               [] fd.presence /\ fd.required -> "refused"
               [] OTHER -> IF SameOneof(t, fd) \cap DOMAIN msg # {} \/ fd.kind # "msg"
                           THEN "nothing" ELSE "null"

CheckDepth(e, level, write) == IF level <= e.max THEN write ELSE Refused("depth")

Assign(fd, toks) == <<<<"ident", fd.name>>, Sign("=")>> \o toks

Holding(r, value) == r.st = "ok" /\ Packed(r.out) = value

\* Whether the model's decoder reads toks as the body of an Any at depth level.
AnyBodyReadsBack(toks, t, level, e, want) ==
    LET opts == [full |-> TRUE, discard |-> FALSE, resolver |-> TRUE, hook |-> FALSE,
                 post |-> TRUE, rep |-> e.rep, max |-> e.max]
    IN Holding(RunAnyBody(Append(toks, Sign("}")), t, opts, level), want)

--------------------------------------------------------------------------------

RECURSIVE EncodeMessage(_, _, _, _, _)

Block(open, t, msg, level, path, e, close) ==
    Joined(open, <<EncodeMessage(t, msg, level, path, e)>>, close)

AnyBlock(fd, url, value, body, level, e) ==
    IF body.why # "" \/ ~AnyBodyReadsBack(body.toks, Urls[url], level, e, value) THEN <<>>
    ELSE <<Joined(<<<<"ident", fd.name>>, Sign("{"), Sign("@type"), Sign("="), <<"string", url>>>>,
                  <<body>>, <<Sign("}")>>)>>

\* `name { @type = "url" ... }`, or <<>> when the Any is written as its own fields.
TryEncodeAny(fd, any, level, path, e) ==
    LET url == FieldValue(any, FieldNamed("Any", "type_url"))
        value == FieldValue(any, FieldNamed("Any", "value"))
        inner == IF value[1] = "packed" THEN value[2] ELSE <<>>
    IN IF url \notin DOMAIN Urls \/ level >= e.max \/ (value[1] = "raw" /\ value[2] # "") THEN <<>>
       ELSE AnyBlock(fd, url, value, EncodeMessage(Urls[url], inner, level + 1, path, e), level, e)

AnyOrBlock(any, fd, sub, level, path, e) ==
    IF any # <<>> THEN any[1]
    ELSE Block(<<<<"ident", fd.name>>, Sign("{")>>, fd.type, sub, level + 1, path, e, <<Sign("}")>>)

EncodeMessageField(fd, sub, level, path, e) ==
    IF IsLiteralMessage(fd.type, sub) THEN Text(Assign(fd, <<WriteLiteralMessage(fd.type, sub)>>))
    ELSE AnyOrBlock(IF fd.type = "Any" /\ e.resolver THEN TryEncodeAny(fd, sub, level, path, e) ELSE <<>>,
                    fd, sub, level, path, e)

\* Mutant: two elements may have the same key.
KeyedFormEligibleTwice(els, key) == \A i \in DOMAIN els : key \in DOMAIN els[i] /\ els[i][key] # ""

KeyedFormEligible(els, key) ==
    /\ \A i \in DOMAIN els : key \in DOMAIN els[i] /\ els[i][key] # ""
    /\ \A i, j \in DOMAIN els : i # j => els[i][key] # els[j][key]

EncodeKeyedList(fd, els, key, level, path, e) ==
    Joined(<<<<"ident", fd.name>>, Sign("{")>>,
           [i \in DOMAIN els |->
                Block(<<NameToken(els[i][key]), Sign("{")>>, fd.type, els[i], level + 2,
                      Append(path, ToString(i - 1)), [e EXCEPT !.skip = key], <<Sign("}")>>)],
           <<Sign("}")>>)

\* One element of a list, or one value of a map.
EncodeElement(fd, v, level, path, e) ==
    CASE fd.kind # "msg" -> Text(<<EncodeScalarValue(fd.kind, v)>>)
      [] fd.kind = "msg" /\ IsLiteralMessage(fd.type, v) -> Text(<<WriteLiteralMessage(fd.type, v)>>)
      [] OTHER -> Block(<<Sign("{")>>, fd.type, v, level + 2, path, e, <<Sign("}")>>)

EncodeListField(fd, els, level, path, e) ==
    LET key == KeyField(fd)
        comma(i) == IF i < Len(els) THEN <<Sign(",")>> ELSE <<>>
    IN IF key # "" /\ els # <<>> /\ KeyedFormEligible(els, key)
       THEN EncodeKeyedList(fd, els, key, level, path, e)
       ELSE CheckDepth(e, level + 1,
                       Joined(Assign(fd, <<Sign("[")>>),
                              [i \in DOMAIN els |->
                                   Joined(<<>>, <<EncodeElement(fd, els[i], level,
                                                                Append(path, ToString(i - 1)), e)>>,
                                          comma(i))],
                              <<Sign("]")>>))

\* MapKeyText; the entries sort by it, and a decoder reads them in any order.
MapKeyToken(kind, key) == IF kind = "string" THEN NameToken(key) ELSE <<kind, key>>

EncodeEntry(fd, k, v, level, path, e) ==
    Joined(<<MapKeyToken(fd.mapkey, k), Sign(":")>>,
           <<EncodeElement(fd, v, level, Append(path, k), e)>>, <<>>)

EncodeMapField(fd, map, level, path, e) ==
    LET keys == SetToSeq(DOMAIN map)
    IN CheckDepth(e, level + 1,
                  Joined(Assign(fd, <<Sign("{")>>),
                         [i \in DOMAIN keys |-> EncodeEntry(fd, keys[i], map[keys[i]], level, path, e)],
                         <<Sign("}")>>))

EncodeField(msg, fd, level, path, e) ==
    LET held == IF fd.name \in DOMAIN msg THEN msg[fd.name] ELSE <<>>
    IN CASE fd.label = "map" -> EncodeMapField(fd, held, level, path, e)
         [] fd.label = "list" -> EncodeListField(fd, held, level, path, e)
         [] fd.label = "one" /\ fd.kind = "msg" ->
                IF fd.name \in DOMAIN msg THEN EncodeMessageField(fd, held, level, path, e) ELSE Text(<<>>)
         [] OTHER -> Text(Assign(fd, <<EncodeScalarValue(fd.kind, FieldValue(msg, fd))>>))

\* A field of a body, its presence and its nulls looked at first.
WriteField(t, msg, fd, level, at, e) ==
    LET unset == IF fd.name \in DOMAIN msg THEN "set" ELSE UnsetField(t, msg, fd)
        null == Text(Assign(fd, <<<<"null", "">>>>))
        empty == IF fd.label = "map" THEN <<Sign("{"), Sign("}")>> ELSE <<Sign("["), Sign("]")>>
    IN CASE fd.name = e.skip \/ (level = 0 /\ e.mask /\ fd.name = NullMask) -> Text(<<>>)
         [] fd.name # e.skip /\ Nullable(fd) /\ at \in e.nulls -> null
         [] unset = "refused" /\ ~e.emit -> Refused("required")
         [] unset = "null" /\ at \notin e.nulls -> null
         [] unset = "empty" -> CheckDepth(e, level + 1, Text(Assign(fd, empty)))
         [] unset = "zero" /\ fd.name # e.skip ->
                Text(Assign(fd, <<EncodeScalarValue(fd.kind, Zero(fd.kind))>>))
         [] unset = "nothing" /\ ~e.emit -> Text(<<>>)
         [] OTHER -> EncodeField(msg, fd, level, at, [e EXCEPT !.skip = ""])

EncodeMessage(t, msg, level, path, e) ==
    CheckDepth(e, level,
               Joined(<<>>, [i \in DOMAIN Types[t] |->
                                 WriteField(t, msg, Types[t][i], level, Append(path, Types[t][i].name), e)],
                      <<>>))

\* The paths of the message's _null mask are the null set, or else null_fields.
Marshal(t, msg, mask, nullFields, opts) ==
    EncodeMessage(t, msg, 0, <<>>,
                  [max |-> opts.max, rep |-> opts.rep, resolver |-> opts.resolver, emit |-> opts.emit,
                   mask |-> NullMask \in FieldNames(t), skip |-> "",
                   nulls |-> IF mask # {} THEN mask ELSE nullFields])
================================================================================
