---------------------------- MODULE MCBigNumbers ----------------------------
(* Instance of BigNumbers for TLC. *)
EXTENDS BigNumbers

MCLimbs == {0, 1, 8, 15}
Part(S) == UNION {[1..n -> S] : n \in 1..2}
MCWholes == {<<>>, <<"3">>, <<"4">>} \cup Part({"0", "1", "5", "9"})
MCFracs == {<<>>, <<".">>, <<".", "0", "4">>} \cup {<<".">> \o p : p \in Part({"0", "2", "5", "9"})}
MCExps == {<<>>} \cup {<<"e">> \o s \o d : s \in {<<>>, <<"-">>}, d \in {<<"1">>, <<"2">>, <<"3">>, <<"5">>, <<"8">>, <<"5", "1">>, <<"1", "0", "0">>}}
MCOdd == LET parts == {<<"1">>, <<".">>, <<"E">>, <<"+">>, <<"x">>, <<"i", "n", "f">>}
         IN {<<>>} \cup parts \cup {p \o q : p \in parts, q \in parts} \cup {p \o q \o r : p \in parts, q \in parts, r \in parts}
MCSuffixes == {<<>>, <<"0">>, <<"1">>, <<"3">>, <<"4">>, <<"6">>, <<"7">>, <<"4", "2">>, <<"0", "0", "3">>, <<"x">>}
MCMags == UNION {[1..n -> {0, 1, 2, 3}] : n \in 0..3} \cup [1..4 -> {2, 3}]
MCExponents == {-19, -18, -17, -16, -15, -4, 0, 4, 6, 7, 8, 9, 10, 11, 40}
MCPrecs == {0, 1, 3, 6, 7, 44}
MCScales == (-5)..5 \cup {42, 45}
MCExponentBounds == {0, 20}
MCDigitBounds == {0, 2}
=============================================================================
