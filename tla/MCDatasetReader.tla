-------------------------- MODULE MCDatasetReader --------------------------
EXTENDS DatasetReader

\* A literal's text means something by its first byte and its length, so that
\* both outcomes occur for every kind of literal.
MCValid(text) ==
  \/ text = <<>>
  \/ text[Len(text)] \in {"s", "Z"} \cup HexDigits

Q  == "DQ"
BS == "\\"

\* Values, and things that are no value, whole and cut.
Pieces == {
  <<>>, <<" ">>, <<"a">>, <<"(">>, <<")">>, <<",">>, <<"NL">>, <<"@", "a">>, <<"C2">>,
  <<Q, "a", Q>>, <<Q, Q>>, <<Q, ")", Q>>, <<Q, BS, Q, Q>>, <<Q, "NL">>, <<Q>>,
  <<Q, BS, "x", "0", "0", Q>>, <<Q, BS, "0", "0", "0", Q>>, <<Q, BS, "Z", Q>>,
  <<Q, Q, Q, Q, Q, Q>>, <<"b", Q, "a", Q>>,
  <<"#", ")", "NL">>, <<"/", "*", ")", "*", "/">>, <<"/", "/", "(", "NL">>,
  <<"0">>, <<"0", ".", "0">>, <<"0", ".">>, <<"0", "p", "0">>, <<"0", "e", "-", "0">>,
  <<"-", "i", "n", "f">>, <<"0", "C2", "B5", "s">>, <<"0", "s", ".", "0", "s">>}

\* Literals the scan waits for (ShortWait bytes and more).
Long == {
  <<Q, BS, "u", "0", "0", "0", "0", Q>>, <<Q, Q, Q, ")", Q, Q, Q>>,
  <<Q, Q, Q, ")", "NL", Q, Q, Q>>,
  <<"a", "a", "a", "a", "a", "a", "a", "a", "a">>,
  <<Q, "a", "a", "a", "a", "a", "a", BS, Q, ")", Q>>,
  <<Q, "a", "a", "a", "a", "a", "a", BS, BS, Q>>,
  <<Q, Q, Q, "a", "a", "a", "a", "a", Q, "a", Q, Q, ")", Q, Q, Q>>,
  <<"b", Q, "a", "a", "a", "a", "a", "a", "a", "a", Q>>,
  <<"b", Q, "a", "a", "a", "a", "a", "a", "a", "a", "a", "a", Q>>,
  <<"/", "*", "a", "a", "a", "a", "a", "a", "*", ")", "*", "/">>,
  <<"#", "a", "a", "a", "a", "a", "a", "a", ")", "NL">>,
  <<"0", "0", "0", "0", "-", "0", "0", "/", "0", "0", "Z">>,
  <<"0", "0", "0", "0", "-", "0", "0", "0", "0", "?">>,
  <<"0", "0", "0", "0", "0", "0", "0", ".", "0", "p", "0">>,
  <<"0", "s", "0", "s", "0", "s", "0", "s", "0", ".", "0", "s">>}

\* What follows the row: nothing, a row, a directive, a stray entry, a comment.
Followers == {<<>>, <<"NL", "(", "a", ")">>, <<"@", "a">>, <<"a">>, <<"#", "a">>}

Row(x, y, z) == <<"(">> \o x \o y \o <<")">> \o z

ShortDocs == {Row(x, y, <<>>) : x \in Pieces, y \in Pieces}
               \cup {Row(x, <<",">>, z) : x \in Pieces, z \in Followers}
               \cup {Row(<<"a">>, x, z) : x \in Pieces, z \in Followers}
               \cup {z \o Row(<<>>, x, <<>>) : x \in Pieces, z \in Pieces}
               \cup {<<"(">> \o x : x \in Pieces}
LongDocs  == {Row(x, y, z) : x \in Long, z \in Followers,
                             y \in {<<" ">>, <<"/">>, <<"NL">>, <<",">>, <<"a">>}}

\* Texts that outgrow the buffer, within a row, between rows and in a comment.
As(n) == [k \in 1 .. n |-> "a"]
LimitDocs == {Row(x, <<>>, z) : x \in {<<"a">>, <<Q>> \o As(14) \o <<Q>>, <<"NL", "#">> \o As(12)},
                                z \in {<<"@">> \o As(5), <<"(">> \o As(3) \o <<")", "(">> \o As(6) \o <<")">>}}

MCDocs    == ShortDocs \cup LongDocs \cup LimitDocs
=============================================================================
