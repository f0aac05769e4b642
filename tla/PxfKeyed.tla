------------------------------- MODULE PxfKeyed --------------------------------
(***************************************************************************)
(* Keyed repeated fields on the AST (src/pxf/keyed.cc): CanonicalizeKeyed, *)
(* which brings a Document to the keyed form, and KeyedDiagnostics.        *)
(***************************************************************************)
EXTENDS PxfEncoder

\* An Assignment or a Block of a field of type t, with an unquoted name.
Binds(e, t) == e.n \in {"assign", "blk"} /\ e.key[1] = "ident" /\ e.key[2] \in FieldNames(t)

IsString(v) == v.n = "lit" /\ v.t[1] = "string"

IsBlock(v) == v.n = "block"

\* <<the key>> that the entries assign exactly once, as a string; or <<>>.
ExplicitKeyOf(en, key) ==
    LET at == SelectSeq(en, LAMBDA e : e.n = "assign" /\ e.key[2] = key)
    IN IF Len(at) = 1 /\ at[1].key[1] = "ident" /\ IsString(at[1].val) THEN <<at[1].val.t[2]>> ELSE <<>>

\* Mutant: their comments go with them.
DropKeyAssignmentsWhole(en, key, name) ==
    [kept |-> SelectSeq(en, LAMBDA e : ~(/\ e.n = "assign" /\ e.key = <<"ident", key>> /\ IsString(e.val)
                                         /\ e.val.t[2] = name)),
     left |-> <<>>]

\* The entries without the assignments of name to the key.  Their comments go to the
\* next entry that is kept and is no type entry, or are left over.
DropKeyAssignments(en, key, name) ==
    LET redundant(e) ==
            e.n = "assign" /\ e.key = <<"ident", key>> /\ IsString(e.val) /\ e.val.t[2] = name
        next(r, e) ==
            CASE redundant(e) -> [r EXCEPT !.left = @ \o e.lead]
              [] ~redundant(e) /\ e.n = "type" -> [r EXCEPT !.kept = Append(@, e)]
              [] OTHER -> [kept |-> Append(r.kept, [e EXCEPT !.lead = r.left \o @]), left |-> <<>>]
    IN FoldLeft(next, [kept |-> <<>>, left |-> <<>>], en)

\* `name = { ... }` as `name { ... }`.
AsBlock(e) ==
    IF e.n = "assign" /\ IsBlock(e.val)
    THEN [n |-> "blk", key |-> e.key, en |-> e.val.en, lead |-> e.lead, tr |-> e.val.tr]
    ELSE e

RECURSIVE CanonEntries(_, _)

\* The entry of a keyed block for the element named b.key.
CanonKeyedEntry(b, fd, key) ==
    LET d == DropKeyAssignments(b.en, key, b.key[2])
    IN [b EXCEPT !.key = IF @[1] = "string" THEN NameToken(@[2]) ELSE @, !.en = CanonEntries(d.kept, fd.type), !.tr = d.left \o @]

CanonKeyedEntries(en, fd, key) ==
    [i \in DOMAIN en |-> LET b == AsBlock(en[i])
                         IN IF b.n = "blk" THEN CanonKeyedEntry(b, fd, key) ELSE b]

CanonBody(v, t) == IF IsBlock(v) THEN [v EXCEPT !.en = CanonEntries(@, t)] ELSE v

CanonAnonymousKeyed(e, fd, key) ==
    LET el == e.val.el
        keyed(i) == IF IsBlock(el[i]) THEN ExplicitKeyOf(el[i].en, key) ELSE <<>>
        eligible == /\ \A i \in DOMAIN el : keyed(i) # <<>> /\ keyed(i) # <<"">>
                    /\ \A i, j \in DOMAIN el : i # j => keyed(i) # keyed(j)
        named(i) == [n |-> "blk", key |-> NameToken(keyed(i)[1]), en |-> el[i].en, lead |-> <<>>,
                     tr |-> el[i].tr]
    IN IF eligible
       THEN [n |-> "blk", key |-> e.key, lead |-> e.lead, tr |-> <<>>,
             en |-> [i \in DOMAIN el |-> CanonKeyedEntry(named(i), fd, key)]]
       ELSE [e EXCEPT !.val.el = [i \in DOMAIN el |-> CanonBody(el[i], fd.type)]]

CanonAssignment(e, fd) ==
    LET key == KeyField(fd)
        entry(x) == IF x.n = "map" THEN [x EXCEPT !.val = CanonBody(@, fd.type)] ELSE x
        block == AsBlock(e)
    IN CASE fd.kind # "msg" -> e
         [] fd.kind = "msg" /\ fd.label = "map" ->
                IF IsBlock(e.val) THEN [e EXCEPT !.val.en = [i \in DOMAIN @ |-> entry(@[i])]] ELSE e
         [] fd.kind = "msg" /\ fd.label = "list" ->
                CASE e.val.n = "list" /\ key # "" -> CanonAnonymousKeyed(e, fd, key)
                  [] e.val.n = "list" /\ key = "" ->
                         [e EXCEPT !.val.el = [i \in DOMAIN @ |-> CanonBody(@[i], fd.type)]]
                  [] IsBlock(e.val) /\ key # "" ->
                         [block EXCEPT !.en = CanonKeyedEntries(@, fd, key)]
                  [] OTHER -> e
         [] OTHER -> [e EXCEPT !.val = CanonBody(@, fd.type)]

CanonEntries(en, t) ==
    LET fd(e) == FieldNamed(t, e.key[2])
        canon(e) ==
            CASE e.n = "assign" -> CanonAssignment(e, fd(e))
              [] e.n = "blk" /\ KeyField(fd(e)) # "" ->
                     [e EXCEPT !.en = CanonKeyedEntries(@, fd(e), KeyField(fd(e)))]
              [] e.n = "blk" /\ fd(e).kind = "msg" /\ fd(e).label = "one" ->
                     [e EXCEPT !.en = CanonEntries(@, fd(e).type)]
              [] OTHER -> e
    IN [i \in DOMAIN en |-> IF Binds(en[i], t) THEN canon(en[i]) ELSE en[i]]

CanonicalizeKeyed(doc, t) == [doc EXCEPT !.entries = CanonEntries(@, t)]

--------------------------------------------------------------------------------
(* Diagnostics: the kinds of the errors, in the order they are found *)

When(wrong, kind) == IF wrong THEN <<kind>> ELSE <<>>

BindingConflict(ke, t, fd, null) ==
    LET key == FieldNamed(t, ke.key)
    IN When(/\ ke.named
            /\ IF fd = key THEN null ELSE fd.oneof # "" /\ fd.oneof = key.oneof, "key conflict")

\* Mutant: an empty key agrees with no name.
DiagExplicitKeyNamed(ke, e) ==
    When(e.key[2] = ke.key /\ IsString(e.val) /\ ke.named /\ e.val.t[2] # ke.name, "key conflict")

DiagExplicitKey(ke, e) ==
    IF e.key[2] # ke.key \/ ~IsString(e.val) THEN <<>>
    ELSE IF e.val.t[2] = "" THEN <<"empty key">>
         ELSE When(ke.named /\ e.val.t[2] # ke.name, "key conflict")

QuotedNameUnkeyed(e) == When(e.n \in {"assign", "blk"} /\ e.key[1] = "string", "quoted name")

RECURSIVE DiagEntries(_, _, _)

DiagKeyedBlock(en, fd, key) ==
    LET blocks == SelectSeq([i \in DOMAIN en |-> AsBlock(en[i])], LAMBDA e : e.n = "blk")
        name(i) == blocks[i].key[2]
        diag(i) == (IF name(i) = "" THEN <<"empty key">>
                    ELSE When(\E j \in 1 .. i - 1 : name(j) = name(i), "duplicate key"))
                   \o DiagEntries(blocks[i].en, fd.type, Named(key, name(i)))
    IN FlattenSeq([i \in DOMAIN blocks |-> diag(i)])

DiagBody(v, t, ke) == IF IsBlock(v) THEN DiagEntries(v.en, t, ke) ELSE <<>>

DiagValue(v, fd) ==
    LET key == KeyField(fd)
        values(en) == [i \in DOMAIN en |-> IF en[i].n = "map" THEN DiagBody(en[i].val, fd.type, NoElem)
                                           ELSE <<>>]
        elem == IF key = "" THEN NoElem ELSE Anonymous(key)
    IN CASE fd.kind # "msg" -> <<>>
         [] fd.kind = "msg" /\ fd.label = "map" -> IF IsBlock(v) THEN FlattenSeq(values(v.en)) ELSE <<>>
         [] fd.kind = "msg" /\ fd.label = "list" ->
                CASE v.n = "list" -> FlattenSeq([i \in DOMAIN v.el |-> DiagBody(v.el[i], fd.type, elem)])
                  [] IsBlock(v) /\ key # "" -> DiagKeyedBlock(v.en, fd, key)
                  [] OTHER -> <<>>
         [] OTHER -> DiagBody(v, fd.type, NoElem)

DiagEntries(en, t, ke) ==
    LET conflict(e, fd, null) == IF ke.key = "" THEN <<>> ELSE BindingConflict(ke, t, fd, null)
        explicit(e) == IF ke.key = "" THEN <<>> ELSE DiagExplicitKey(ke, e)
        block(e, fd) ==
            CASE KeyField(fd) # "" -> DiagKeyedBlock(e.en, fd, KeyField(fd))
              [] KeyField(fd) = "" /\ fd.label = "list" /\ fd.kind = "msg" ->
                     FlattenSeq([i \in DOMAIN e.en |-> QuotedNameUnkeyed(e.en[i])])
              [] fd.label = "one" /\ fd.kind = "msg" -> DiagEntries(e.en, fd.type, NoElem)
              [] OTHER -> <<>>
        diag(e) ==
            CASE Binds(e, t) /\ e.n = "assign" ->
                     LET fd == FieldNamed(t, e.key[2])
                     IN conflict(e, fd, e.val.n = "lit" /\ e.val.t[1] = "null") \o explicit(e)
                        \o DiagValue(e.val, fd)
              [] Binds(e, t) /\ e.n = "blk" ->
                     LET fd == FieldNamed(t, e.key[2]) IN conflict(e, fd, FALSE) \o block(e, fd)
              [] OTHER -> QuotedNameUnkeyed(e)
    IN FlattenSeq([i \in DOMAIN en |-> diag(en[i])])

KeyedDiagnostics(doc, t) == DiagEntries(doc.entries, t, NoElem)
================================================================================
