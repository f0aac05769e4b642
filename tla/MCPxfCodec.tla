------------------------------ MODULE MCPxfCodec -------------------------------
(***************************************************************************)
(* The schema and the documents PxfCodec is checked on.                    *)
(***************************************************************************)
EXTENDS PxfCodec

F(name, label, kind) ==
    [name |-> name, label |-> label, kind |-> kind, type |-> "", mapkey |-> "", presence |-> FALSE,
     oneof |-> "", required |-> FALSE, def |-> <<>>, key |-> ""]
M(name, label, type) == [F(name, label, "msg") EXCEPT !.type = type, !.presence = label = "one"]

With(fd, what) == what @@ fd

MCTypes ==
    LET types == [
    S |-> <<F("i", "one", "int"), With(F("o", "one", "int"), [presence |-> TRUE, def |-> <<"1">>]),
            With(F("u", "one", "int"), [presence |-> TRUE, oneof |-> "c", def |-> <<"2">>]),
            With(F("v", "one", "string"), [presence |-> TRUE, oneof |-> "c"]),
            F("e", "list", "enum"), F("_null", "list", "string")>>,
    N |-> <<With(F("r", "one", "string"), [required |-> TRUE]),
            With(M("w", "one", "Wrapper"), [def |-> <<"1">>]), M("n", "one", "N"),
            M("ns", "list", "N"), With(M("mn", "map", "N"), [mapkey |-> "string"])>>,
    R |-> <<M("n", "one", "N"), M("ns", "list", "N"), With(M("mn", "map", "N"), [mapkey |-> "int"])>>,
    K |-> <<With(M("ks", "list", "E"), [key |-> "k"]), M("n", "one", "K"), M("es", "list", "E")>>,
    E |-> <<With(F("k", "one", "string"), [presence |-> TRUE, oneof |-> "c", def |-> <<"b">>]),
            With(F("x", "one", "string"), [presence |-> TRUE, oneof |-> "c"]),
            With(M("ks", "list", "E"), [key |-> "k"])>>,
    P |-> <<With(F("mb", "map", "int"), [mapkey |-> "bool"]), With(F("mi", "map", "string"), [mapkey |-> "int"]),
            With(M("mt", "map", "Timestamp"), [mapkey |-> "string"])>>,
    L |-> <<M("t", "one", "Timestamp"), M("w", "one", "Wrapper"), M("b", "one", "BigInt"),
            M("f", "one", "BigFloat"), M("fs", "list", "BigFloat"), F("y", "one", "bytes")>>,
    A |-> <<M("a", "one", "Any"), M("as", "list", "Any"), M("s", "one", "Secret"),
            M("ss", "list", "Secret"), With(M("ms", "map", "Secret"), [mapkey |-> "string"])>>,
    Any |-> <<F("type_url", "one", "string"), F("value", "one", "bytes")>>,
    Secret |-> <<F("value", "one", "string"), F("hint", "one", "string")>>,
    Wrapper |-> <<F("value", "one", "int")>>,
    Timestamp |-> <<F("seconds", "one", "int")>>,
    BigInt |-> <<F("abs", "one", "int")>>,
    BigFloat |-> <<F("mantissa", "one", "int")>>]
    IN types

MCUrls == [uA |-> "A", uN |-> "N", uS |-> "S"]

Id(x) == <<"ident", x>>
Str(x) == <<"string", x>>
IntLit(x) == <<"int", x>>
Null == <<"null", "">>
Is(x, v) == <<Id(x), Sign("="), v>>
Opens(x) == <<Id(x), Sign("{")>>
Lists(x) == <<Id(x), Sign("="), Sign("[")>>
Maps(x) == <<Id(x), Sign("="), Sign("{")>>

Opt(max, rep) == [full |-> TRUE, discard |-> FALSE, resolver |-> TRUE, hook |-> FALSE, post |-> TRUE,
                  rep |-> rep, max |-> max]

In(root, prefix, phrases, any, len, opts) ==
    [root |-> root, prefix |-> prefix, phrases |-> phrases, any |-> any, len |-> len, opts |-> opts]

One == IntLit("1")
Comment(x) == <<NL, <<"comment", x>>, NL>>
Elem == <<Sign("{")>>
Close == <<Sign("}")>>
EndList == <<Sign("]")>>
TypeUrl(u) == <<Sign("@type"), Sign("="), Str(u)>>
Entry(k, v) == <<k, Sign(":"), v>>

Scalars ==
    In("S", <<>>, {Is("i", One), Is("i", IntLit("0")), Is("o", Null), Is("u", IntLit("0")), Is("u", Null),
                   Is("v", Str("")), Is("zz", One), Opens("zz"), Lists("e") \o <<Id("B"), IntLit("7"), Sign("]")>>,
                   Close}, 2, 3,
       {Opt(1, 2), [Opt(1, 2) EXCEPT !.full = FALSE], [Opt(1, 3) EXCEPT !.discard = TRUE]})

Nested ==
    In("R", <<>>, {Opens("n"), Maps("n"), Lists("ns"), Maps("mn"), Entry(One, Sign("{")), Elem,
                   Is("r", Str("a")), Is("r", Null), Is("w", IntLit("0")), Is("w", Null), Close, EndList}, 2, 4,
       {Opt(2, 2), [Opt(3, 2) EXCEPT !.post = FALSE]})

Keyed ==
    {In("K", Opens("ks"), {Opens("b"), <<Str("a b"), Sign("{")>>, <<Str(""), Sign("{")>>, Maps("b"), Close}, 2, 4,
        {Opt(2, 2)}),
     In("K", Opens("ks") \o Opens("b"),
        {Is("k", Str("b")), Is("k", Str("c")), Is("k", Str("")), Is("k", Null), Is("x", Str("x")),
         <<Str("k"), Sign("="), Str("b")>>, Opens("ks"), Opens("b"), Comment("c"), Close}, 2, 4,
        {Opt(4, 2)}),
     In("K", Lists("ks") \o Elem,
        {Is("k", Str("b")), Is("k", Str("a b")), Is("k", Str("")), Is("x", Str("x")), Comment("c"),
         <<Sign("}"), Sign(","), Sign("{")>>, Close, EndList}, 2, 5, {Opt(3, 2)}),
     In("K", Opens("n"), {Opens("es"), Opens("n"), <<Str("a"), Sign("{")>>, Lists("es"), Elem,
                          Is("k", Str("")), Close, EndList}, 2, 4, {Opt(3, 2)})}

Entries ==
    {In("P", Maps("mb"), {Entry(<<"bool", "true">>, One), Entry(One, One), Entry(Str("true"), IntLit("2")),
                          Entry(<<"bool", "false">>, Null), Entry(Id("x"), One), Is("x", One), Close,
                          Maps("mb")}, 2, 4, {Opt(1, 1), Opt(1, 2)}),
     In("P", <<>>, {Maps("mi"), Maps("mt"), Entry(One, Str("a")), Entry(Str("1"), Str("")), Entry(Id("a"), Str("a")),
                    Entry(Str("a b"), <<"time", "1">>), Entry(Id("a"), Sign("{")), Is("seconds", One),
                    Entry(Str(NotUtf8), <<"time", "1">>), Close}, 2, 4, {Opt(2, 2)})}

LiteralValues ==
    {In("L", <<>>, {Is(x, v) : x \in {"t", "w", "b", "f", "y"},
                               v \in {<<"time", "1">>, One, WithPrecision, IntLit(TooLong), Null,
                                      <<"bytes", <<"raw", "x">>>>}}
                   \cup {Lists("fs") \o <<One, Sign(","), WithPrecision, Sign("]")>>}, 0, 2, {Opt(1, 2)}),
     In("L", <<>>, {Opens("t"), Maps("w"), Is("f", One), Is("seconds", One), Is("value", One), Close}, 1, 4,
        {Opt(1, 2)})}

Secrets ==
    {In("A", <<>>, {Is("s", Str("no")), Is("s", Str(NotUtf8)), Is("s", Null), Opens("s"), Is("value", Null),
                    Is("value", Str("no")), Is("hint", Str("h")), Lists("ss"), <<Str("x")>>, Close, EndList}, 1, 3,
        {[Opt(2, 3) EXCEPT !.hook = TRUE], Opt(2, 1)}),
     In("A", <<>>, {Is("s", Str("x")), Opens("s"), Is("value", Str("y")),
                    Is("hint", Str("h")), Lists("ss"), <<Str("x")>>, Elem, Maps("ms"),
                    Entry(Id("a"), Str("x")), Entry(Id("b"), Sign("{")), Close, EndList}, 1, 4,
        {[Opt(2, 3) EXCEPT !.hook = TRUE]}),
     In("A", Opens("a"), {TypeUrl("uA"), TypeUrl("uN"), TypeUrl("none"), Is("s", Str("x")), Is("r", Str("a")),
                          Is("type_url", Str("uN")), Comment("c"), Is("value", <<"bytes", <<"raw", "x">>>>), Close},
        2, 4, {[Opt(2, 2) EXCEPT !.hook = TRUE], [Opt(2, 2) EXCEPT !.resolver = FALSE]}),
     In("A", Opens("a") \o TypeUrl("uA") \o Opens("a"),
        {TypeUrl("uA"), TypeUrl("uN"), Is("s", Str("x")), Is("r", Str("a")), Opens("s"), Close}, 0, 4,
        {[Opt(2, 2) EXCEPT !.hook = TRUE], Opt(3, 2)}),
     In("A", Lists("as") \o Elem, {TypeUrl("uS"), Is("i", One), Is("o", Null),
                                   <<Sign("}"), Sign(","), Sign("{")>>, Close, EndList}, 2, 5, {Opt(2, 2)})}

TableHead == <<Sign("@dataset"), Sign("("), Id("i"), Sign(")")>>
Prologue ==
    In("S", <<>>, {<<Sign("@type"), Id("S")>>, <<Sign("@type"), Str("S")>>, <<<<"@name", "p">>, Id("a")>>,
                   <<<<"@name", "p">>, Sign("{"), Sign("}")>>, <<Reserved>>, <<Sign("@proto"), <<"string", <<"x">>>>>>,
                   <<Sign("@proto"), Id("M"), Sign("{"), Sign("}")>>, <<Sign("@proto"), Elem[1], Sign("}")>>,
                   TableHead, <<Sign("("), One, Sign(")")>>, Is("i", One)}, 0, 3, {Opt(1, 2)})

MCContexts == {Scalars, Nested, Prologue} \cup LiteralValues \cup Keyed \cup Entries \cup Secrets
================================================================================
