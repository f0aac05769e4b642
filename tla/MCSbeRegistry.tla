--------------------------- MODULE MCSbeRegistry ---------------------------
EXTENDS SbeRegistry

\* Ids past the bound are refused; two names and two schemas make both kinds
\* of clash.
Message(n, t)   == [name |-> n, tid |-> t, stale |-> FALSE, builds |-> TRUE]
MCMsgs == {Message(n, t) : n \in {"A", "B"}, t \in {0, 1, None}}
            \cup {Message("A", 2), [Message("A", None) EXCEPT !.stale = TRUE],
                  [Message("B", 1) EXCEPT !.builds = FALSE]}
MCFiles(ms) == [schema : {0, 1}, version : {0}, msgs : ms]
                 \cup [schema : {None, 2}, version : {0}, msgs : {<<Message("A", 0)>>}]
                 \cup [schema : {1}, version : {2}, msgs : {<<Message("A", 0)>>}]

\* A file's messages have names of their own.
Lists(n) == {ms \in UNION {[1 .. k -> MCMsgs] : k \in 0 .. n} :
               \A i, j \in DOMAIN ms : ms[i].name = ms[j].name => i = j}

MCAll == {<<f, g>> : f \in MCFiles(Lists(2)), g \in MCFiles(Lists(1))}
MCFileSets == {fs \in MCAll : OnePool(fs)}
MCTwoPools == {<<f, g>> : f \in MCFiles(Lists(1)), g \in MCFiles(Lists(1))}
=============================================================================
