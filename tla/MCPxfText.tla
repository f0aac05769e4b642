------------------------------- MODULE MCPxfText -------------------------------
(***************************************************************************)
(* The documents PxfText is checked on: every short sequence over the    *)
(* tokens that matter in one place, after a prefix that leads there.       *)
(***************************************************************************)
EXTENDS PxfText

a == <<"ident", "a">>
b == <<"ident", "b">>
s == <<"string", "a">>
one == <<"int", "1">>
c == <<"comment", "">>

Sym(ks) == {Tok(k) : k \in ks}

Within(pre, toks, n) == {[prefix |-> pre, tokens |-> toks, len |-> n]}

p == <<"@name", "p">>
row == <<Tok("@dataset"), Tok("("), a, Tok(")"), Tok("(")>>
row2 == <<Tok("@dataset"), Tok("("), a, Tok(","), b, Tok(")"), Tok("(")>>

Bodies == Within(<<>>, {a, one, c} \cup Sym({"=", ":", "{", "}", "[", "@type"}), 3)
Blocks == Within(<<a, Tok("{")>>, {a, one, s} \cup Sym({"=", ":", "}", "@type"}), 3)
          \cup Within(<<a, Tok("{")>>, {<<"bool", "true">>, <<"int", "1p2">>, <<"badstr", "a">>}
                                        \cup Sym({"=", ":", "{", "}"}), 3)
Types == Within(<<a, Tok("{"), Tok("@type")>>, {a, s, c} \cup Sym({"=", "@type", "}"}), 4)
Lists == Within(<<a, Tok("="), Tok("[")>>, {a, one} \cup Sym({"{", "}", "[", "]", ",", "="}), 4)
Comments == Within(<<a, Tok("="), one>>, {a, c, NL} \cup Sym({"=", "{", "}", "["}), 4)
Directives ==
    Within(<<>>, {p, a, <<"@name", "view">>, <<"badstr", "a">>, c} \cup Sym({"@type", "{", "}", "="}), 4)
TypeLast == Within(<<p, Tok("@type"), a>>, {a, s, c} \cup Sym({"{", "}", "="}), 3)
x == <<"string", <<"x">>>>
Protos == Within(<<Tok("@proto")>>, {a, c, x} \cup Sym({"{", "}", "bytes", "badbytes", "="}), 4)
\* The bodies of a @proto source, up to four characters.
Texts == {t \in BoundedSeq({"x", "quote", "nl", " "}, 4) :
             ~\E i \in 1 .. Len(t) - 2 : \A j \in i .. i + 2 : t[j] = "quote"}
Sources == Within(<<Tok("@proto")>>, {<<"string", t>> : t \in Texts}, 1)
Headers == Within(<<Tok("@dataset")>>, {a, b, <<"ident", "a.b">>} \cup Sym({"(", ")", ","}), 5)
Rows == Within(row, {a, one, c} \cup Sym({"(", ")", ",", "{", "["}), 4)
        \cup Within(row2, {one, c, NL} \cup Sym({"(", ")", ","}), 5)
        \cup Within(<<Tok("@type"), a>> \o row, {one} \cup Sym({")", "@dataset", "@type"}), 2)
MCContexts ==
    UNION {Bodies, Blocks, Types, Lists, Comments, Directives, TypeLast, Protos, Sources, Headers,
           Rows}
================================================================================
