------------------------------- MODULE PxfCodec --------------------------------
(***************************************************************************)
(* A decode of every document of the contexts, step by step, and what it   *)
(* has to do with the other readers and writers of PXF: the AST parser,    *)
(* Marshal, CanonicalizeKeyed, KeyedDiagnostics and the secret hook.       *)
(*                                                                         *)
(* A document is put together from phrases, short sequences of tokens, so  *)
(* that a few choices reach deep bodies.                                   *)
(***************************************************************************)
EXTENDS PxfKeyed, PxfFormat

CONSTANTS Contexts      \* of documents: root, prefix, phrases, len and options

VARIABLES decode        \* the decode

vars == <<decode>>

\* Every bracket is closed, in order.  Documents that are not so are those of PxfText.
Balanced(doc) ==
    LET pairs == {<<"{", "}">>, <<"[", "]">>}
        next(open, tok) ==
            CASE tok[1] \in {"{", "["} -> Append(open, tok[1])
              [] tok[1] \in {"}", "]"} ->
                     IF open # <<>> /\ <<Last(open), tok[1]>> \in pairs THEN Front(open) ELSE <<"bad">>
              [] OTHER -> open
    IN FoldLeft(next, <<>>, doc) = <<>>

Init ==
    \E c \in Contexts : \E n \in 0 .. c.len : \E s \in [1 .. n -> c.phrases] :
        LET doc == c.prefix \o FlattenSeq(s)
        IN (n <= c.any \/ Balanced(doc)) /\ \E o \in c.opts : decode = StartDecode(doc, c.root, o)

At(frame) == decode.st = "run" /\ Top(decode).f = frame

DoDirectives == At("directives") /\ decode' = ConsumeDirectives(decode)
DoFields == At("fields") /\ decode' = DecodeFieldsBody(decode)
DoList == At("list") /\ decode' = DecodeListInline(decode)
DoKeyed == At("keyed") /\ decode' = DecodeKeyedBlockBody(decode)
DoMap == At("map") /\ decode' = DecodeMapInline(decode)
DoSecret == At("secret") /\ decode' = DecodeSecretBlock(decode)
DoAny == At("any") /\ decode' = PackAny(decode)

Next == DoDirectives \/ DoFields \/ DoList \/ DoKeyed \/ DoMap \/ DoSecret \/ DoAny

Spec == Init /\ [][Next]_vars

--------------------------------------------------------------------------------
(* What a document means: its entries bound to a message one by one *)

\* A value that is known, <<v>>, or one that has no meaning, <<>>; values that are all known.
All(values) == \A i \in DOMAIN values : values[i] # <<>>
Known(values) == [i \in DOMAIN values |-> values[i][1]]

\* With the hook, a Secret's value is not kept, and one that is refused means nothing.
WithoutSecret(t, m, o) ==
    CASE m = <<>> \/ ~(o.hook /\ t = "Secret") -> m
      [] m # <<>> /\ o.hook /\ t = "Secret" /\ "value" \in DOMAIN m[1] /\ HookRefuses(m[1]["value"]) -> <<>>
      [] OTHER -> <<Restrict(m[1], DOMAIN m[1] \ {"value"})>>

\* What a body meant, from the message its entries bind and the names they bind: required
\* fields and defaults are per body.
Completed(t, msg, present, o) ==
    LET absent == {fd \in ToSet(Types[t]) : fd.name \notin present /\ fd.name # NullMask}
        defaulted == {fd \in absent : fd.def # <<>> /\ SameOneof(t, fd) \cap present = {}}
    IN CASE ~(o.full /\ o.post) -> <<msg>>
         [] /\ o.full /\ o.post
            /\ (\E fd \in absent : fd.required) \/ (\E fd \in defaulted : Default(fd) = <<>>) -> <<>>
         [] OTHER -> <<FoldLeft(LAMBDA m, fd : Put(t, m, fd, Default(fd)[1]), msg, SetToSeq(defaulted))>>

\* Whether an entry may bind fd after the fields and oneofs that are seen.
IsNull(e) == e.n = "assign" /\ e.val.n = "lit" /\ e.val.t[1] = "null"
MayBind(t, fd, e, ke, seen) ==
    LET keyedBlock == e.n = "blk" /\ fd.label = "list"
    IN /\ IsRepeated(fd) \/ {fd.name, fd.oneof} \cap seen = {}
       /\ ~ /\ ke.named /\ ~keyedBlock
            /\ IF fd.name = ke.key THEN IsNull(e)
               ELSE fd.oneof # "" /\ fd.oneof = FieldNamed(t, ke.key).oneof

MayBeKey(fd, v, ke) ==
    ke.key = "" \/ fd.name # ke.key \/ (v[1] # "" /\ (ke.named => v[1] = ke.name))

\* <<the message>> that the entries en of a body of type t give, or <<>> when they give none.
RECURSIVE Meant(_, _, _, _)

AnyMeant(url, inner) == IF inner = <<>> THEN <<>> ELSE <<AnyOf(url, inner[1])>>

BodyMeant(b, t, ke, o) ==
    LET url == b[1].url[2]
    IN CASE t = "Any" /\ b # <<>> /\ b[1].n = "type" ->
                IF o.resolver /\ url \in DOMAIN Urls
                THEN AnyMeant(url, Meant(Tail(b), Urls[url], NoElem, o)) ELSE <<>>
         [] OTHER -> WithoutSecret(t, Meant(b, t, ke, [o EXCEPT !.discard = @ /\ ~(o.hook /\ t = "Secret")]), o)

LiteralMeant(t, lit, o) == IF lit[1] = "yes" THEN WithoutSecret(t, <<lit[2]>>, o) ELSE <<>>

ValueMeant(fd, v, ke, o) ==
    CASE v.n = "lit" -> IF fd.kind = "msg" THEN LiteralMeant(fd.type, Literal(fd.type, v.t), o)
                        ELSE Scalar(fd.kind, v.t)
      [] v.n = "block" /\ fd.kind = "msg" -> BodyMeant(v.en, fd.type, ke, o)
      [] OTHER -> <<>>

\* The elements a list has after more are added, if it may have that many.
Extended(held, values, o) ==
    IF All(values) /\ Len(held) + Len(values) <= o.rep THEN <<held \o Known(values)>> ELSE <<>>

ListMeant(fd, held, v, o) ==
    LET ke == IF KeyField(fd) = "" THEN NoElem ELSE Anonymous(KeyField(fd))
    IN Extended(held, [i \in DOMAIN v.el |-> ValueMeant(fd, v.el[i], ke, o)], o)

KeyedMeant(fd, held, entries, o) ==
    LET name(i) == entries[i].key[2]
    IN IF /\ \A i \in DOMAIN entries : entries[i].n = "blk" /\ name(i) \notin {"", NotUtf8}
          /\ \A i, j \in DOMAIN entries : i # j => name(i) # name(j)
       THEN Extended(held, [i \in DOMAIN entries |->
                                Meant(entries[i].en, fd.type, Named(KeyField(fd), name(i)), o)], o)
       ELSE <<>>

MapExtended(held, keys, values, o) ==
    IF /\ All(keys) /\ All(values) /\ Cardinality(ToSet(keys)) = Len(keys)
       /\ ToSet(Known(keys)) \cap DOMAIN held = {}
       /\ Len(keys) + Cardinality(DOMAIN held) <= o.rep
    THEN <<held @@ [k \in ToSet(Known(keys)) |-> values[CHOOSE i \in DOMAIN keys : keys[i] = <<k>>][1]]>>
    ELSE <<>>

MapMeant(fd, held, en, o) ==
    IF \E i \in DOMAIN en : en[i].n # "map" THEN <<>>
    ELSE MapExtended(held, [i \in DOMAIN en |-> MapKeyOf(fd.mapkey, en[i].key)],
                     [i \in DOMAIN en |-> ValueMeant(fd, en[i].val, NoElem, o)], o)

EntryMeant(fd, held, e, v, o) ==
    CASE fd.label = "one" -> ValueMeant(fd, v, NoElem, o)
      [] fd.label = "list" /\ v.n = "list" -> ListMeant(fd, held, v, o)
      [] fd.label = "list" /\ v.n = "block" /\ KeyField(fd) # "" ->
             KeyedMeant(fd, held, [i \in DOMAIN v.en |-> AsBlock(v.en[i])], o)
      [] fd.label = "map" /\ v.n = "block" /\ e.n = "assign" -> MapMeant(fd, held, v.en, o)
      [] OTHER -> <<>>

Gave(r, t, fd, seen, v, ke) ==
    IF v = <<>> \/ ~MayBeKey(fd, v, ke) THEN [r EXCEPT !.ok = FALSE]
    ELSE [r EXCEPT !.msg = Put(t, @, fd, v[1]), !.seen = @ \cup seen \cup {fd.name}]

FieldMeant(r, e, t, fd, ke, o) ==
    LET seen == IF e.n = "blk" /\ fd.label = "list" THEN {} ELSE {fd.name, fd.oneof} \ {""}
        held == IF fd.name \in DOMAIN r.msg THEN r.msg[fd.name] ELSE <<>>
        v == IF e.n = "blk" THEN [n |-> "block", en |-> e.en] ELSE e.val
    IN CASE ~MayBind(t, fd, e, ke, r.seen) -> [r EXCEPT !.ok = FALSE]
         [] MayBind(t, fd, e, ke, r.seen) /\ IsNull(e) ->
                [r EXCEPT !.ok = Nullable(fd), !.seen = @ \cup seen]
         [] OTHER -> Gave(r, t, fd, seen, EntryMeant(fd, held, e, v, o), ke)

MeantBy(r, e, t, ke, o) ==
    CASE ~r.ok -> r
      [] r.ok /\ ~Binds(e, t) ->
             [r EXCEPT !.ok = o.discard /\ e.n \in {"assign", "blk"} /\ e.key[1] = "ident"]
      [] OTHER -> FieldMeant(r, e, t, FieldNamed(t, e.key[2]), ke, o)

Ended(r, t, ke, o) ==
    IF r.ok THEN Completed(t, r.msg, r.seen \cup IF ke.named THEN {ke.key} ELSE {}, o) ELSE <<>>

Meant(en, t, ke, o) ==
    LET start == IF ke.named THEN Put(t, <<>>, FieldNamed(t, ke.key), ke.name) ELSE <<>>
    IN Ended(FoldLeft(LAMBDA r, e : MeantBy(r, e, t, ke, o), [ok |-> TRUE, msg |-> start, seen |-> {}], en),
             t, ke, o)

--------------------------------------------------------------------------------
(* Properties *)

Done == decode.st # "run"
Ok == decode.st = "ok"
Parsed == Parse(decode.doc, decode.max)

\* The body of a named directive is only brace-matched here; `@type` takes a string here.
Looser == \E i \in DOMAIN decode.doc :
              \/ decode.doc[i][1] = "@name"
              \/ /\ decode.doc[i][1] = "@type" /\ i < Len(decode.doc)
                 /\ decode.doc[i + 1][1] = "string"

IsMessage(m) == (Ok <=> m # <<>>) /\ (Ok => decode.out = m[1])

AgreesWith(p) ==
    IF p.st = "ok" THEN IsMessage(Meant(p.out.entries, decode.root, NoElem, decode.opts))
    ELSE Ok => Looser \/ decode.opts.discard

\* The decoder and the AST parser agree: a document that the decoder accepts is one that
\* Parse accepts, at the same depth limit, and its message is what the entries of the AST
\* mean; a document that the decoder refuses means nothing.  Only what discard_unknown
\* skips, and what Looser names, is read by one and not by the other.
DecodesAsMeant ==
    Done => AgreesWith(Parsed)

\* What Marshal writes for the decoded message under a depth limit, with the Result's nulls.
Rewritten(max) ==
    Marshal(decode.root, decode.out, decode.mask, decode.nulls,
            [max |-> max, rep |-> decode.opts.rep, resolver |-> decode.opts.resolver, emit |-> FALSE])

ReadBack(toks, max) ==
    Unmarshal(toks, decode.root, [decode.opts EXCEPT !.max = max, !.hook = FALSE])

ReadsSame(r) ==
    /\ r.st = "ok" /\ r.out = decode.out
    /\ decode.nulls \subseteq r.nulls \/ "Any" \in ReachedFrom({decode.root})

WriteHolds(w, max) ==
    CASE w.why = "" -> ReadsSame(ReadBack(w.toks, max))
      [] w.why = "required" -> ~decode.opts.post
      [] w.why = "depth" -> max < decode.max

\* A message that was decoded is written so that it reads back: under every depth limit,
\* Marshal either refuses it or writes a document that a reader at that limit decodes to the
\* same message, no null of which is lost but in an Any that is not unpacked.  At the limit it was read at it is written, unless
\* it lacks a required field that the post-decode pass was told not to look for.  (A null may be
\* gained: an unset field with a default is written as null where only that reads back.)
MarshalReadsBack ==
    Ok /\ decode.opts.full => \A max \in 0 .. decode.max : WriteHolds(Rewritten(max), max)

AreFound(found) == IF Ok THEN found = {} ELSE decode.why \in found

Diagnosed(p) == p.st = "ok" => AreFound(ToSet(KeyedDiagnostics(p.out, decode.root)))

\* KeyedDiagnostics is the tolerant counterpart of the decoder's keyed errors: it reports
\* nothing in a document that decodes, and the error's kind in one that a keyed rule refuses.
DiagnosticsAgree ==
    Ok \/ decode.why # "" =>
        Diagnosed(Parsed)

SameResult(r) == r.st = "ok" /\ r.out = decode.out /\ r.nulls = decode.nulls

CommentsOf(toks) == SelectSeq(toks, LAMBDA k : k[1] = "comment")

Canonical(x, canon) ==
    /\ Ok => SameResult(Unmarshal(FormatDocument(canon), decode.root, decode.opts))
    /\ CanonicalizeKeyed(canon, decode.root) = canon
    /\ CommentsOf(WriteAll(canon.entries)) = CommentsOf(WriteAll(x.entries))

CanonHolds(p) == p.st = "ok" => Canonical(p.out, CanonicalizeKeyed(p.out, decode.root))

\* CanonicalizeKeyed keeps what a document means: the canonical text of a document that decodes
\* decodes to the same message and nulls.  It is idempotent, and every comment is kept in its
\* order.
CanonicalMeansSame ==
    Done =>
        CanonHolds(Parsed)

\* The message with a Secret's value set at a path.
RECURSIVE SecretAt(_, _, _, _)
SecretAt(t, msg, path, v) ==
    LET fd == FieldNamed(t, path[1])
        held == msg[fd.name]
        at == IF fd.label = "list" THEN CHOOSE i \in DOMAIN held : ToString(i - 1) = path[2]
              ELSE path[2]
        inner == IF "value" \in DOMAIN held THEN held["value"][2] ELSE <<>>
    IN CASE path = <<>> -> Put("Secret", msg, FieldNamed("Secret", "value"), v)
         [] path # <<>> /\ fd.label # "one" ->
                [msg EXCEPT ![fd.name][at] = SecretAt(fd.type, held[at], Tail(Tail(path)), v)]
         [] path # <<>> /\ fd.label = "one" /\ fd.type = "Any" ->
                [msg EXCEPT ![fd.name] =
                     Put("Any", held, FieldNamed("Any", "value"),
                         Packed(SecretAt(Urls[held["type_url"]], inner, Tail(path), v)))]
         [] OTHER -> [msg EXCEPT ![fd.name] = SecretAt(fd.type, held, Tail(path), v)]

Restored(plain) ==
    LET set(m, r) == SecretAt(decode.root, m, r[1], r[2])
    IN plain.st = "ok" /\ FoldLeft(set, decode.out, decode.routed) = plain.out

\* The secret hook is given every Secret's value, in either form and wherever it is, with the
\* path it is at: setting each value at its path gives the message that is decoded without the
\* hook.  No path is given twice.
SecretsRouted ==
    Ok /\ decode.opts.hook =>
        /\ Restored(Unmarshal(decode.doc, decode.root, [decode.opts EXCEPT !.hook = FALSE]))
        /\ \A i, j \in DOMAIN decode.routed : i # j => decode.routed[i][1] # decode.routed[j][1]
================================================================================
