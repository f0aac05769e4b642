------------------------------ MODULE Rewriter ------------------------------
(***************************************************************************)
(* pxf::Rewriter: edits are staged one call at a time against the source   *)
(* as it was parsed, each as a span and the text that replaces it, and     *)
(* Bytes splices them all into the source at once (pxf/rewriter.cc).       *)
(*                                                                         *)
(* The source is a sequence of symbols: a space, a newline, punctuation, a *)
(* name, or a whole comment.  A line comment hides what follows it on its  *)
(* line.  Offsets count symbols from 0.                                    *)
(***************************************************************************)
EXTENDS Integers, SequencesExt

CONSTANTS Sources,        \* the documents to edit
          LineComments,   \* the `#` and `//` comments in them
          BlockComments   \* the `/* */` comments in them, each within a line

Comments == LineComments \cup BlockComments
None     == -1

VARIABLES src,     \* src_
          edits    \* edits_: [path, start, end, text], in the order staged

At(i)       == src[i + 1]
Slice(i, j) == SubSeq(src, i + 1, j)
Size        == Len(src)
-----------------------------------------------------------------------------
(* Where things lie in the source.                                         *)

IsBlank(i, j)    == \A k \in i .. j - 1 : At(k) = " "
HasNewline(i, j) == \E k \in i .. j - 1 : At(k) = "NL"

LineStart(off) == Max({0} \cup {k \in 1 .. off : At(k - 1) = "NL"})

\* The first offset from off on that holds no space.
PastPad(off) == Min({Size} \cup {k \in off .. Size - 1 : At(k) # " "})

\* The lines of line comments right above the line that starts at start
\* belong to it.
ExtendOverLeadingComments(start) ==
  LET up[s \in 0 .. Size] ==
        IF s = 0 THEN 0
        ELSE LET above == LineStart(s - 1)
             IN IF \E k \in above .. s - 2 : IsBlank(above, k) /\ At(k) \in LineComments
                THEN up[above] ELSE s
  IN up[start]

\* The comment that ends the line at off, and the line's end: None when there
\* is no comment, all None when something else follows on the line.
TrailingComment(off) ==
  LET i    == PastPad(off)
      has  == i < Size /\ At(i) \in Comments
      past == IF has /\ At(i) \in BlockComments THEN PastPad(i + 1)
              ELSE IF has THEN i + 1 ELSE i
  IN IF past < Size /\ At(past) # "NL"
     THEN [start |-> None, end |-> None, lineEnd |-> None]
     ELSE [start   |-> IF has THEN i ELSE None,
           end     |-> IF has THEN i + 1 ELSE None,
           lineEnd |-> past]
-----------------------------------------------------------------------------
(* Staging and splicing.                                                   *)

Edit(path, start, end, text) == [path |-> path, start |-> start, end |-> end, text |-> text]

\* An edit replaces the one staged before under its path, in its place.
Stage(es, e) ==
  IF \E k \in DOMAIN es : es[k].path = e.path
  THEN [k \in DOMAIN es |-> IF es[k].path = e.path THEN e ELSE es[k]]
  ELSE Append(es, e)

StageAll(es, new) == FoldLeft(Stage, es, new)

\* A stable sort by where the edits start.
Sorted(es) ==
  LET order == SortSeq([k \in DOMAIN es |-> k],
                       LAMBDA i, j : \/ es[i].start < es[j].start
                                     \/ es[i].start = es[j].start /\ i < j)
  IN [k \in DOMAIN es |-> es[order[k]]]

\* Wrong: an edit may start inside the one before it.
ConflictNever(sorted) == FALSE

Conflict(sorted) == \E k \in 2 .. Len(sorted) : sorted[k - 1].end > sorted[k].start

\* The source with each span replaced.
Splice(sorted) ==
  LET End(k) == IF k = 0 THEN 0 ELSE sorted[k].end
      upto[k \in 0 .. Len(sorted)] ==
        IF k = 0 THEN <<>>
        ELSE upto[k - 1] \o Slice(End(k - 1), sorted[k].start) \o sorted[k].text
  IN upto[Len(sorted)] \o Slice(End(Len(sorted)), Size)
=============================================================================
