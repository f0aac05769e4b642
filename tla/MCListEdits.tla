---------------------------- MODULE MCListEdits ----------------------------
EXTENDS ListEdits

\* Comment n of its kind stands after the n-th element, or before the first.
Line(n)  == <<"#0", "#1", "#2", "#3">>[n + 1]
Block(n) == <<"/0", "/1", "/2", "/3">>[n + 1]
MCLineComments  == {Line(n) : n \in 0 .. 3}
MCBlockComments == {Block(n) : n \in 0 .. 3}

\* A list on one line, and one whose closing bracket has a line of its own.
InlineBetween(n) == {<<",", " ">>, <<",", " ", Block(n), " ">>}
InlineAfter(n)   == {<<>>, <<" ">>, <<",", " ">>}
LinesBefore      == {<<>>, <<"NL", " ">>, <<"NL", " ", Line(0), "NL", " ">>}
LinesBetween(n)  == {<<",", " ">>, <<",", "NL", " ">>, <<",", " ", Block(n), " ">>,
                     <<",", " ", Line(n), "NL", " ">>, <<",", "NL", " ", Line(n), "NL", " ">>,
                     <<" ", Line(n), "NL", " ", ",", " ">>, <<"NL", " ", ",", " ">>}
LinesAfter(n)    == {<<"NL">>, <<",", "NL">>, <<" ", Line(n), "NL">>, <<",", " ", Line(n), "NL">>,
                     <<" ", Block(n), "NL">>, <<",", "NL", Line(n), "NL">>}

List(body) == <<"f", "[">> \o body \o <<"]", "NL", "g", "NL">>

Empty == {List(<<>>), List(<<"NL">>), List(<<"NL", Line(0), "NL">>)}
One(B, A)   == {List(b \o Element("a") \o z) : b \in B, z \in A}
Two(B, S, A) == {List(b \o Element("a") \o s \o Element("b") \o z) : b \in B, s \in S, z \in A}
Three(B, S, T, A) ==
  {List(b \o Element("a") \o s \o Element("b") \o t \o Element("c") \o z) :
     b \in B, s \in S, t \in T, z \in A}

UpToTwo == Empty \cup One({<<>>, <<" ">>}, InlineAfter(1)) \cup One(LinesBefore, LinesAfter(1))
             \cup Two({<<>>}, InlineBetween(1), InlineAfter(2))
             \cup Two(LinesBefore, LinesBetween(1), LinesAfter(2))
SomeThree == Three({<<"NL", " ">>}, LinesBetween(1), {<<",", "NL", " ">>, <<",", " ", Line(2), "NL", " ">>},
                   {<<"NL">>, <<",", "NL">>, <<" ", Line(3), "NL">>})

MCTwoEdits == UpToTwo \cup SomeThree

\* Two elements on lines of their own.
MCLines == Two({<<"NL", " ">>}, {<<",", "NL", " ">>}, {<<"NL">>, <<",", "NL">>})
====
