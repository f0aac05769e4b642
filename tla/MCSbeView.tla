----------------------------- MODULE MCSbeView -----------------------------
EXTENDS SbeView

F(o, s, b) == [offset |-> o, size |-> s, sub |-> b]

\* A root block of a scalar and a composite; a group of one field and a group
\* of a composite.  And a message whose groups have empty blocks.
MCLayouts == {
  [blocks |-> <<[fields |-> <<F(0, 1, 0)>>, length |-> 1],
                [fields |-> <<F(0, 1, 0), F(1, 1, 1)>>, length |-> 2],
                [fields |-> <<F(0, 1, 1), F(1, 0, 0)>>, length |-> 1]>>,
   root |-> 2, groups |-> <<1, 3>>],
  [blocks |-> <<[fields |-> <<>>, length |-> 0], [fields |-> <<F(0, 1, 0)>>, length |-> 1]>>,
   root |-> 1, groups |-> <<1, 2>>]}
MCBuffers == 0 .. 18
MCUint16 == 0 .. 3
=============================================================================
