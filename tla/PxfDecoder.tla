------------------------------ MODULE PxfDecoder -------------------------------
(***************************************************************************)
(* DirectDecoder (src/pxf/decode_fast.cc), which binds the tokens of a     *)
(* document to a message in one pass, and PostDecoder, the pass after it.  *)
(*                                                                         *)
(* A decode is a record like a parse of PxfParser, whose doc, at, stack,   *)
(* ret, st and err it shares, with depth (depth_), ke (keyed_elem_), the   *)
(* presence that the Result records and routed, the calls of the secret    *)
(* hook.  The options are opts: full (a Result is filled), discard,        *)
(* resolver, hook, post, rep and max.  A path is a sequence of names; an   *)
(* element adds its index or its key.                                      *)
(***************************************************************************)
EXTENDS PxfTypes

Token(d) == IF d.at > Len(d.doc) THEN <<"eof", "">> ELSE d.doc[d.at]

Skip(d) == IF d.at > Len(d.doc) THEN d ELSE [d EXCEPT !.at = NextAt(d, d.at)]

SkipTo(d, i) == Skip([d EXCEPT !.at = i])

\* A value for the innermost call to bind, and the end of a call.
Yield(d, v) == [d EXCEPT !.ret = [n |-> "value", v |-> v]]

Ascend(d, v) == Yield([d EXCEPT !.stack = Front(@), !.depth = @ - 1], v)

Descend(d, frame) ==
    IF d.depth + 1 > d.max THEN Failed(d, 2 * d.at) ELSE [Call(d, frame) EXCEPT !.depth = @ + 1]

\* An error of the rules for keyed fields, which KeyedDiagnostics reports too.
KeyedError(d, i, why) == [Failed(d, 2 * i) EXCEPT !.why = why]

MarkPresent(d, path) == IF d.opts.full THEN [d EXCEPT !.present = @ \cup {path}] ELSE d

MarkNull(d, b, path) ==
    IF ~d.opts.full THEN d
    ELSE [d EXCEPT !.present = @ \cup {path}, !.nulls = @ \cup {path},
                   !.mask = IF NullMask \in FieldNames(d.root) /\ b.elem = 0 THEN @ \cup {path} ELSE @]

\* keyed_elem_: of an anonymous element, of a named one, and of neither.
NoElem == [key |-> "", named |-> FALSE, name |-> ""]
Anonymous(key) == [key |-> key, named |-> FALSE, name |-> ""]
Named(key, name) == [key |-> key, named |-> TRUE, name |-> name]

\* DecodeFields; the body takes the pending keyed_elem_.
DecodeFields(d, t, msg, path, elem) ==
    Descend([d EXCEPT !.ke = NoElem],
            [f |-> "fields", t |-> t, msg |-> msg, path |-> path, elem |-> elem, block |-> TRUE,
             fd |-> Nothing, bound |-> {}, oneofs |-> {}, ke |-> d.ke])

--------------------------------------------------------------------------------
(* Post-decode: required fields and defaults, in every body the document wrote *)

Annotated(t) == \E i \in DOMAIN Types[t] : Types[t][i].required \/ Types[t][i].def # <<>>

Holds(t) == {fd.type : fd \in {f \in ToSet(Types[t]) : f.kind = "msg"}}

RECURSIVE ReachedFrom(_)
ReachedFrom(ts) ==
    LET more == ts \cup UNION {Holds(t) : t \in ts} IN IF more = ts THEN ts ELSE ReachedFrom(more)

Reaching == {t \in DOMAIN Types : \E u \in ReachedFrom({t}) : Annotated(u)}

Reaches(t) == t \in Reaching

\* A message's path is in present, which holds the nulls too.
OneofChosen(t, fd, path, d) ==
    \E name \in SameOneof(t, fd) \ {fd.name} : Append(path, name) \in d.present

\* Whether Run visits the bodies of a field at a path, and what it does with the result.
Visits(d, msg, fd, at) ==
    /\ fd.kind = "msg" /\ Reaches(fd.type) /\ fd.name \in DOMAIN msg
    /\ at \in d.present \ d.nulls

WithBodies(msg, fd, bodies) ==
    IF fd.label = "one"
    THEN [ok |-> bodies.ok, msg |-> [msg EXCEPT ![fd.name] = bodies.msg]]
    ELSE [ok |-> \A k \in DOMAIN bodies : bodies[k].ok,
          msg |-> [msg EXCEPT ![fd.name] = [k \in DOMAIN bodies |-> bodies[k].msg]]]

WithDefault(t, msg, fd, v) ==
    IF v = <<>> THEN [ok |-> FALSE, msg |-> msg] ELSE [ok |-> TRUE, msg |-> Put(t, msg, fd, v[1])]

StepName(label, k) == IF label = "list" THEN ToString(k - 1) ELSE k

\* Run and RunBodies: [ok, msg].
RECURSIVE PostRun(_, _, _, _)
PostRun(t, msg, path, d) ==
    LET bodies(fd, held, at) ==
            IF fd.label = "one" THEN PostRun(fd.type, held, at, d)
            ELSE [k \in DOMAIN held |-> PostRun(fd.type, held[k], Append(at, StepName(fd.label, k)), d)]
        field(r, fd, at) ==
            CASE ~r.ok \/ fd.name = NullMask \/ (at \notin d.present /\ fd.required) ->
                     [r EXCEPT !.ok = @ /\ fd.name = NullMask]
              [] /\ r.ok /\ fd.name # NullMask /\ at \notin d.present /\ ~fd.required
                 /\ fd.def # <<>> /\ ~OneofChosen(t, fd, path, d) ->
                     WithDefault(t, r.msg, fd, Default(fd))
              [] r.ok /\ fd.name # NullMask /\ Visits(d, r.msg, fd, at) ->
                     WithBodies(r.msg, fd, bodies(fd, r.msg[fd.name], at))
              [] OTHER -> r
        run(r, fd) == field(r, fd, Append(path, fd.name))
    IN FoldLeft(run, [ok |-> TRUE, msg |-> msg], Types[t])

PostPass(d, t, msg, path) ==
    IF d.opts.full /\ d.opts.post THEN PostRun(t, msg, path, d) ELSE [ok |-> TRUE, msg |-> msg]

\* The end of a decode.
Finished(d, r) == IF r.ok THEN [d EXCEPT !.st = "ok", !.out = r.msg] ELSE Failed(d, 0)

--------------------------------------------------------------------------------
(* Message values *)

\* The secret hook refuses a value of the model's choice.
HookRefuses(v) == v = "no"

\* Mutant: the secret of an element is dropped.
RouteSecretOfField(d, path, mark) ==
    LET v == Token(d)[2]
        routed == Yield(Skip([d EXCEPT !.routed = Append(@, <<path, v>>)]), <<>>)
    IN CASE v = NotUtf8 \/ HookRefuses(v) -> Failed(d, 2 * d.at)
         [] OTHER -> IF mark THEN MarkPresent(routed, Append(path, "value")) ELSE Yield(Skip(d), <<>>)

RouteSecret(d, path, mark) ==
    LET v == Token(d)[2]
        routed == Yield(Skip([d EXCEPT !.routed = Append(@, <<path, v>>)]), <<>>)
    IN CASE v = NotUtf8 \/ HookRefuses(v) -> Failed(d, 2 * d.at)
         [] OTHER -> IF mark THEN MarkPresent(routed, Append(path, "value")) ELSE routed

DecodeSecretBlock(d) ==
    LET b == Top(d)
        e == Skip(d)
        v == Skip(e)
        name == Token(d)[2]
        fd == FieldNamed("Secret", name)
        kept == Skip(MarkPresent(v, Append(b.path, name)))
    IN CASE Cur(d) = "}" -> Ascend(Skip(d), b.msg)
         [] \/ Cur(d) \notin {"}", "ident"}
            \/ Cur(d) = "ident" /\ (Cur(e) # "=" \/ Cur(v) # "string")
            \/ Cur(d) = "ident" /\ (Token(v)[2] = NotUtf8 \/ name \notin FieldNames("Secret"))
            \/ name \in b.bound -> Failed(d, 2 * d.at)
         [] OTHER ->
            IF name = "value"
            THEN IF HookRefuses(Token(v)[2]) THEN Failed(v, 2 * v.at)
                 ELSE Become([kept EXCEPT !.routed = Append(@, <<b.path, Token(v)[2]>>)],
                             [b EXCEPT !.bound = @ \cup {name}])
            ELSE Become(kept, [b EXCEPT !.bound = @ \cup {name},
                                        !.msg = Put("Secret", @, fd, Token(v)[2])])

\* From the @type of an Any block's type entry to its body.
DecodeAnyInner(d, path, elem) ==
    LET e == Skip(d)
        u == Skip(e)
        url == Token(u)[2]
        any == Call(Skip(u), [f |-> "any", url |-> url, path |-> path])
    IN IF Cur(e) # "=" \/ Cur(u) # "string" THEN Failed(d, 2 * d.at)
       ELSE IF ~d.opts.resolver \/ url \notin DOMAIN Urls THEN Failed(u, 2 * u.at)
       ELSE DecodeFields(any, Urls[url], <<>>, path, elem)

\* A message with no field set serializes to no bytes.
Packed(msg) == IF msg = <<>> THEN <<"raw", "">> ELSE <<"packed", msg>>

\* DecodeAnyInner once the body is there.
AnyOf(url, msg) ==
    LET value == Packed(msg)
    IN Put("Any", Put("Any", <<>>, FieldNamed("Any", "type_url"), url), FieldNamed("Any", "value"), value)

PackedAny(d, r) ==
    IF r.ok THEN Yield([d EXCEPT !.stack = Front(@)], AnyOf(Top(d).url, r.msg)) ELSE Failed(d, 0)

PackAny(d) == PackedAny(d, PostPass(d, Urls[Top(d).url], d.ret.v, Top(d).path))

\* The body of a message, its '{' consumed.
DecodeBlockInto(d, t, msg, path, elem) ==
    CASE d.opts.hook /\ t = "Secret" ->
             Descend([d EXCEPT !.ke = NoElem], [f |-> "secret", msg |-> <<>>, path |-> path, bound |-> {}])
      [] ~(d.opts.hook /\ t = "Secret") /\ t = "Any" /\ Cur(d) = "@type" ->
             DecodeAnyInner(d, path, elem)
      [] OTHER -> DecodeFields(d, t, msg, path, elem)

LiteralOrBlock(d, lit, t, path, singular, elem, ke) ==
    LET marked == IF singular /\ d.opts.full
                  THEN [d EXCEPT !.present = @ \cup {Append(path, n) : n \in LiteralFields(t)}]
                  ELSE d
    IN CASE lit[1] = "yes" -> Yield(Skip(marked), lit[2])
         [] lit[1] = "no" /\ Cur(d) = "{" ->
                DecodeBlockInto([Skip(d) EXCEPT !.ke = ke], t, <<>>, path, elem)
         [] OTHER -> Failed(d, 2 * d.at)

\* A message at a field (DecodeMsgValue), in a list or in a map: a literal or a block.
DecodeMsgValue(d, t, path, singular, elem, ke) ==
    IF d.opts.hook /\ t = "Secret" /\ Cur(d) = "string" THEN RouteSecret(d, path, singular)
    ELSE LiteralOrBlock(d, Literal(t, Token(d)), t, path, singular, elem, ke)

Consumed(d, v) == IF v = <<>> THEN Failed(d, 2 * d.at) ELSE Yield(Skip(d), v[1])

ConsumeScalar(d, kind) == Consumed(d, Scalar(kind, Token(d)))

--------------------------------------------------------------------------------
(* Lists, keyed blocks and maps.  The frame holds what the field holds so far. *)

DecodeListInline(d) ==
    LET l == Top(d)
        e == IF Cur(d) = "," THEN Skip(d) ELSE d
        key == KeyField(l.fd)
    IN CASE Returned(d) -> Become(e, [l EXCEPT !.el = Append(@, d.ret.v)])
         [] ~Returned(d) /\ Cur(d) = "]" -> Ascend(Skip(d), l.el)
         [] ~Returned(d) /\ (Cur(d) \in {"eof", "illegal", "null"} \/ Len(l.el) >= d.opts.rep) ->
                Failed(d, 2 * d.at)
         [] OTHER ->
                IF l.fd.kind = "msg"
                THEN DecodeMsgValue(d, l.fd.type, Append(l.path, ToString(Len(l.el))), FALSE, l.elem + 1,
                                    IF key = "" THEN NoElem ELSE Anonymous(key))
                ELSE ConsumeScalar(d, l.fd.kind)

DecodeKeyedBlockBody(d) ==
    LET l == Top(d)
        name == Token(d)[2]
        a == Skip(d)
        v == IF Cur(a) = "=" THEN Skip(a) ELSE a
        key == KeyField(l.fd)
        path == Append(l.path, ToString(Len(l.el)))
        named == MarkPresent([Become(Skip(v), [l EXCEPT !.seen = @ \cup {name}])
                              EXCEPT !.ke = Named(key, name)], Append(path, key))
        elem == Put(l.fd.type, <<>>, FieldNamed(l.fd.type, key), name)
    IN CASE Returned(d) -> Become(d, [l EXCEPT !.el = Append(@, d.ret.v)])
         [] ~Returned(d) /\ Cur(d) = "}" -> Ascend(Skip(d), l.el)
         [] ~Returned(d) /\ Cur(d) \notin {"}", "ident", "string"} -> Failed(d, 2 * d.at)
         [] ~Returned(d) /\ Cur(d) \in {"ident", "string"} ->
            CASE name = "" -> KeyedError(d, d.at, "empty key")
              [] name = NotUtf8 -> Failed(d, 2 * d.at)
              [] name \notin {"", NotUtf8} /\ name \in l.seen -> KeyedError(d, d.at, "duplicate key")
              [] OTHER ->
                     IF Cur(v) # "{" \/ Len(l.el) >= d.opts.rep THEN Failed(v, 2 * v.at)
                     ELSE DecodeFields(named, l.fd.type, elem, path, l.elem + 1)

\* BindKey's scope is the map itself: the body starts with none of its keys.
DecodeMapInline(d) ==
    LET m == Top(d)
        c == Skip(d)
        v == Skip(c)
        key == MapKeyOf(m.fd.mapkey, Token(d))
        at == Become(v, [m EXCEPT !.key = key[1]])
    IN CASE Returned(d) -> Become(d, [m EXCEPT !.map = @ @@ (m.key :> d.ret.v)])
         [] ~Returned(d) /\ Cur(d) = "}" -> Ascend(Skip(d), m.map)
         [] /\ ~Returned(d) /\ Cur(d) # "}"
            /\ \/ Cur(d) \notin Keys \/ Cardinality(DOMAIN m.map) >= d.opts.rep
               \/ Token(d) = WithPrecision \/ Cur(c) # ":" \/ key = <<>>
               \/ key[1] \in DOMAIN m.map \/ Cur(v) \in {"null", "illegal"} -> Failed(d, 2 * d.at)
         [] OTHER ->
                IF m.fd.kind = "msg"
                THEN DecodeMsgValue(at, m.fd.type, Append(m.path, key[1]), FALSE, m.elem + 1, NoElem)
                ELSE ConsumeScalar(at, m.fd.kind)

--------------------------------------------------------------------------------
(* The body of a message *)

\* What the field at the top of the stack holds so far.
Held(b, fd) == IF fd.name \in DOMAIN b.msg THEN b.msg[fd.name] ELSE <<>>

StartKeyed(d, fd) ==
    LET b == Top(d)
    IN Descend(d, [f |-> "keyed", fd |-> fd, el |-> Held(b, fd), path |-> Append(b.path, fd.name),
                   elem |-> b.elem, seen |-> {}])

DecodeFieldValue(d, fd) ==
    LET b == Top(d)
        path == Append(b.path, fd.name)
    IN CASE Cur(d) = "illegal" -> Failed(d, 2 * d.at)
         [] fd.label = "map" /\ Cur(d) = "{" ->
                Skip(Descend(d, [f |-> "map", fd |-> fd, map |-> Held(b, fd), path |-> path,
                                 elem |-> b.elem, key |-> ""]))
         [] fd.label = "list" /\ Cur(d) = "{" /\ KeyField(fd) # "" -> StartKeyed(Skip(d), fd)
         [] fd.label = "list" /\ Cur(d) = "[" ->
                Skip(Descend(d, [f |-> "list", fd |-> fd, el |-> Held(b, fd), path |-> path,
                                 elem |-> b.elem]))
         [] fd.label = "one" /\ fd.kind = "msg" /\ Cur(d) # "illegal" ->
                DecodeMsgValue(d, fd.type, path, TRUE, b.elem, NoElem)
         [] fd.label = "one" /\ fd.kind # "msg" /\ Cur(d) # "illegal" -> ConsumeScalar(d, fd.kind)
         [] OTHER -> Failed(d, 2 * d.at)

\* Whether a binding of fd undoes the entry name, which binds the key field.
CheckKeyBinding(b, fd, null) ==
    LET key == FieldNamed(b.t, b.ke.key)
    IN ~ /\ b.ke.named
         /\ IF fd = key THEN null ELSE fd.oneof # "" /\ fd.oneof = key.oneof

CheckOneof(b, fd) == fd.oneof \notin b.oneofs

\* Mutant: only a oneof is bound once.
CheckBindOnceOfOneof(b, fd) == TRUE

CheckBindOnce(b, fd) == IsRepeated(fd) \/ fd.name \notin b.bound

\* The checks of one binding, then go on as q, which holds the binding.
Checked(d, b, fd, null, q) ==
    CASE ~CheckKeyBinding(b, fd, null) -> KeyedError(d, d.at, "key conflict")
      [] CheckKeyBinding(b, fd, null) /\ ~(CheckOneof(b, fd) /\ CheckBindOnce(b, fd)) ->
             Failed(d, 2 * d.at)
      [] OTHER -> q

Bound(d, b, fd) ==
    Become(d, [b EXCEPT !.fd = fd, !.bound = @ \cup {fd.name},
                        !.oneofs = @ \cup ({fd.oneof} \ {""})])

\* Whether the explicit value v of the key field is refused.
CheckExplicitKey(b, fd, v) ==
    ~ /\ b.ke.key = fd.name /\ v[1] = "string"
      /\ v[2] = "" \/ (b.ke.named /\ v[2] # b.ke.name)

\* `key = value`; v stands on the value.
DecodeAssignment(d, fd, v) ==
    LET b == Top(d)
        path == Append(b.path, fd.name)
        q == Bound(v, b, fd)
    IN Checked(d, b, fd, Cur(v) = "null",
               CASE Cur(v) = "null" ->
                        IF Nullable(fd) THEN Skip(MarkNull(q, b, path)) ELSE Failed(v, 2 * v.at)
                 [] Cur(v) # "null" /\ ~CheckExplicitKey(b, fd, Token(v)) ->
                        KeyedError(v, v.at, IF Token(v)[2] = "" THEN "empty key" ELSE "key conflict")
                 [] OTHER -> DecodeFieldValue(MarkPresent(q, path), fd))

\* `key { ... }`; v stands past the '{'.
DecodeBlock(d, fd, v) ==
    LET b == Top(d)
        path == Append(b.path, fd.name)
        q == MarkPresent(Bound(v, b, fd), path)
    IN CASE fd.kind # "msg" \/ fd.label = "map" -> Failed(d, 2 * d.at)
         [] fd.kind = "msg" /\ fd.label = "list" ->
                CASE KeyField(fd) # "" ->
                         StartKeyed(MarkPresent(Become(v, [b EXCEPT !.fd = fd]), path), fd)
                  [] KeyField(fd) = "" /\ Cur(v) = "string" -> KeyedError(v, v.at, "quoted name")
                  [] OTHER -> Failed(d, 2 * d.at)
         [] OTHER ->
                Checked(d, b, fd, FALSE,
                        DecodeBlockInto(q, fd.type, Held(b, fd), path, b.elem))

\* SkipValue, with SkipBraced and SkipBracketed.
SkipValue(d) ==
    LET past(open, close) ==
            LET j == Match(d, d.at, open, close)
            IN IF j = 0 THEN [d EXCEPT !.at = Len(d.doc) + 1] ELSE SkipTo(d, j)
    IN CASE Cur(d) = "{" -> past("{", "}")
         [] Cur(d) = "[" -> past("[", "]")
         [] OTHER -> Skip(d)

\* A field name and what follows it; the value of a binding that has come back.
DecodeFieldsBody(d) ==
    LET b == Top(d)
        key == Token(d)
        e == Skip(d)
        v == Skip(e)
        known == key[2] \in FieldNames(b.t)
        unknown == IF d.opts.discard THEN SkipValue(IF Cur(e) = "=" THEN v ELSE e)
                   ELSE Failed(d, 2 * d.at)
    IN CASE Returned(d) -> Become(d, [b EXCEPT !.msg = Put(b.t, @, b.fd, d.ret.v)])
         [] ~Returned(d) /\ b.block /\ Cur(d) = "}" -> Ascend(Skip(d), b.msg)
         [] ~Returned(d) /\ ~b.block /\ Cur(d) = "eof" ->
                Finished(d, PostPass(d, b.t, b.msg, <<>>))
         [] ~Returned(d) /\ Cur(d) = "string" /\ Cur(e) \in {"=", "{"} -> KeyedError(d, d.at, "quoted name")
         [] ~Returned(d) /\ Cur(d) = "ident" /\ Cur(e) \in {"=", "{"} /\ ~known -> unknown
         [] ~Returned(d) /\ Cur(d) = "ident" /\ Cur(e) = "=" /\ known ->
                DecodeAssignment(d, FieldNamed(b.t, key[2]), v)
         [] ~Returned(d) /\ Cur(d) = "ident" /\ Cur(e) = "{" /\ known ->
                DecodeBlock(d, FieldNamed(b.t, key[2]), v)
         [] OTHER -> Failed(d, 2 * d.at)

--------------------------------------------------------------------------------
(* The document *)

\* The first token past the prefixes of a directive that start at i.
PrefixEnd(d, i) ==
    LET prefix(j) == Kind(d, j) = "ident" /\ Kind(d, NextAt(d, j)) \notin {"=", ":"}
    IN Min({j \in i .. Len(d.doc) + 1 : Significant(d, j) /\ ~prefix(j)})

\* Past the braces at i, or an error.
CaptureBraces(d, i) ==
    LET j == Match(d, i, "{", "}") IN IF j = 0 THEN Failed(d, 2 * i) ELSE SkipTo(d, j)

PastTable(d, table) ==
    IF Top(d).type \/ table.st = "error" THEN Failed(d, 2 * d.at)
    ELSE [Become(d, [Top(d) EXCEPT !.table = TRUE]) EXCEPT !.at = table.at]

ConsumeDirectives(d) ==
    LET b == Top(d)
        a == Skip(d)
        pre == PrefixEnd(a, a.at)
        body == [f |-> "fields", t |-> d.root, msg |-> <<>>, path |-> <<>>, elem |-> 0,
                 block |-> FALSE, fd |-> Nothing, bound |-> {}, oneofs |-> {}, ke |-> NoElem]
    IN CASE Cur(d) = "@type" ->
                IF b.table \/ Cur(a) \notin {"ident", "string"} THEN Failed(d, 2 * d.at)
                ELSE Skip(Become(a, [b EXCEPT !.type = TRUE]))
         [] Cur(d) = "@name" ->
                CASE Token(d) = Reserved -> Failed(d, 2 * d.at)
                  [] Token(d) # Reserved /\ Kind(d, pre) = "{" -> CaptureBraces(d, pre)
                  [] OTHER -> [d EXCEPT !.at = pre]
         [] Cur(d) = "@dataset" -> PastTable(d, ParseDatasetAt(d.doc, d.at, d.max))
         [] Cur(d) = "@proto" ->
                CASE Cur(a) = "{" -> CaptureBraces(d, a.at)
                  [] Cur(a) = "ident" /\ PeekKind(a) = "{" -> CaptureBraces(d, NextAt(a, a.at))
                  [] Cur(a) \in {"string", "bytes"} -> Skip(a)
                  [] OTHER -> Failed(a, 2 * a.at)
         [] OTHER -> IF b.table /\ Cur(d) # "eof" THEN Failed(d, 2 * d.at) ELSE Become(d, body)

\* The end of RunAnyBody, which decodes a document as the body of an Any block.
EndAnyBody(d) ==
    Finished(d, PostRun(d.root, d.ret.v, <<>>, d))

\* Unmarshal and UnmarshalFull on a new message of type t.
StartDecode(doc, t, opts) ==
    LET d == [doc |-> doc, tol |-> FALSE, max |-> opts.max, at |-> 0, opts |-> opts, root |-> t,
              depth |-> 0, ke |-> NoElem, ret |-> Nothing, st |-> "run", err |-> 0, why |-> "",
              present |-> {}, nulls |-> {}, mask |-> {}, routed |-> <<>>, out |-> <<>>,
              stack |-> <<[f |-> "directives", type |-> FALSE, table |-> FALSE]>>]
    IN [d EXCEPT !.at = NextAt(d, 0)]

DecodeStep(d) ==
    CASE Top(d).f = "directives" -> ConsumeDirectives(d)
      [] Top(d).f = "fields" -> DecodeFieldsBody(d)
      [] Top(d).f = "list" -> DecodeListInline(d)
      [] Top(d).f = "keyed" -> DecodeKeyedBlockBody(d)
      [] Top(d).f = "map" -> DecodeMapInline(d)
      [] Top(d).f = "secret" -> DecodeSecretBlock(d)
      [] Top(d).f = "any" -> PackAny(d)
      [] Top(d).f = "end" -> EndAnyBody(d)

RECURSIVE FinishDecode(_)
FinishDecode(d) == IF d.st = "run" THEN FinishDecode(DecodeStep(d)) ELSE d

Unmarshal(doc, t, opts) == FinishDecode(StartDecode(doc, t, opts))

RunAnyBody(doc, t, opts, depth) ==
    FinishDecode(DecodeFields([StartDecode(doc, t, opts) EXCEPT !.stack = <<[f |-> "end"]>>,
                                                                !.depth = depth], t, <<>>, <<>>, 0))
================================================================================
