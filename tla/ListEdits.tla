----------------------------- MODULE ListEdits -----------------------------
(***************************************************************************)
(* The keyed editors of pxf::Rewriter on a collection in the anonymous     *)
(* list form, f = [ { k = "a" }, { k = "b" } ].  An element is written     *)
(* with three symbols, of which the middle one is its key.  Removing or    *)
(* moving one takes a comma and perhaps a comment with it, chosen from the *)
(* source alone; the calls do not know of each other, and what they make   *)
(* together is seen only in what Bytes returns.                            *)
(***************************************************************************)
EXTENDS Rewriter, FiniteSets

CONSTANTS Keys,       \* the keys in the sources and the keys calls may use
          NewKeys,    \* those of them no source has
          MaxCalls,   \* bound: calls that stage edits
          MayReturn   \* whether an element may be moved, then moved back

ASSUME KeysAssumption == NewKeys \subseteq Keys /\ MaxCalls \in Nat /\ MayReturn \in BOOLEAN

VARIABLES doc,       \* doc_: the list parsed, [open, close, elems], as offsets
          removed,   \* the elements RemoveKeyedElement was called for
          placed,    \* what was asked to go where: [key, before], "" the end
          renamed,   \* the keys asked for, by the key in the source
          calls      \* how many calls staged edits

vars == <<src, doc, edits, removed, placed, renamed, calls>>

Offsets == 0 .. Size - 1

\* New parses the source and stages nothing.
Init == /\ src \in Sources
        /\ doc = [open  |-> CHOOSE i \in Offsets : At(i) = "[",
                  close |-> CHOOSE i \in Offsets : At(i) = "]",
                  elems |-> SelectSeq([i \in 1 .. Size |-> i - 1], LAMBDA i : At(i) = "{")]
        /\ edits = <<>> /\ calls = 0
        /\ removed = {} /\ placed = <<>> /\ renamed = [k \in Keys |-> k]
-----------------------------------------------------------------------------
(* The list in the source.                                                 *)

ElemPos(n)  == doc.elems[n]
ElemEnd(n)  == ElemPos(n) + 3
Count       == Len(doc.elems)
KeyOf(n)    == At(ElemPos(n) + 1)
Present     == {KeyOf(n) : n \in 1 .. Count}
IndexOf(k)  == CHOOSE n \in 1 .. Count : KeyOf(n) = k
OpenOff     == doc.open
CloseOff    == doc.close
Element(k) == <<"{", k, "}">>

ListMultiline == HasNewline(OpenOff, CloseOff + 1)

ListComma(from, to) ==
  LET commas == {i \in from .. to - 1 : At(i) = ","}
  IN IF commas = {} THEN None ELSE Min(commas)

ListElemComma(n) == ListComma(ElemEnd(n), IF n < Count THEN ElemPos(n + 1) ELSE CloseOff)

\* Where a trailing comment of element n would start.
ListElemTail(n) ==
  LET c == ListElemComma(n)
  IN IF c # None /\ ~HasNewline(ElemEnd(n), c) THEN c + 1 ELSE ElemEnd(n)

GapHasComment(from, to) == \E i \in from .. to - 1 : At(i) \notin {" ", "NL", ","}

Span(start, end) == [start |-> start, end |-> end]
-----------------------------------------------------------------------------
(* What an edit of one element deletes and inserts.                        *)

\* The comma that goes with element n when it is not next to it: its own on a
\* later line, or the one before a last element that has none.
CommaSpans(n, tail) ==
  LET c    == ListElemComma(n)
      prev == IF n > 1 THEN ListComma(ElemEnd(n - 1), ElemPos(n)) ELSE None
  IN IF c # None /\ c >= tail THEN <<Span(c, PastPad(c + 1))>>
     ELSE IF c = None /\ prev # None THEN <<Span(prev, prev + 1)>>
     ELSE <<>>

\* The element itself: with its lines when it has lines of its own.
ElemSpan(n, tail, lineEnd) ==
  LET start == ElemPos(n)
      ls    == LineStart(start)
      pads  == {k \in ls .. start : IsBlank(k, start)}
  IN IF lineEnd = None THEN Span(start, PastPad(tail))
     ELSE IF ~IsBlank(ls, start) THEN Span(Min(pads), lineEnd)
     ELSE Span(ls, IF lineEnd < Size THEN lineEnd + 1 ELSE lineEnd)

\* Wrong: the comments in between go too.
ClosesUpOverComments(n, tc) ==
  /\ n > 1 /\ ListElemComma(n) = None /\ tc.start = None
  /\ ListComma(ElemEnd(n - 1), ElemPos(n)) # None

\* A last element without a comma closes up with the one before when nothing
\* but the comma is between them.
ClosesUp(n, tc) ==
  /\ n > 1 /\ ListElemComma(n) = None /\ tc.start = None
  /\ ListComma(ElemEnd(n - 1), ElemPos(n)) # None
  /\ ~GapHasComment(ElemEnd(n - 1), ElemPos(n))

ListElementRemovalSpans(n, keepComment) ==
  LET tail == ListElemTail(n)
      tc   == TrailingComment(tail)
      lineEnd == IF keepComment /\ tc.start # None THEN None ELSE tc.lineEnd
  IN IF ClosesUp(n, tc) THEN <<Span(ElemEnd(n - 1), PastPad(ElemEnd(n)))>>
     ELSE Append(CommaSpans(n, tail), ElemSpan(n, tail, lineEnd))

Insertion(at, text, commaAt) == [at |-> at, text |-> text, commaAt |-> commaAt]

\* A comment behind an inserted element.
Behind(comment) == IF comment = "" THEN <<>> ELSE <<" ", comment>>

\* The new element goes after the last one's line, so that a comment there
\* stays, and after a trailing comma, which it then ends with too.
SpliceListElementAppend(k, comment) ==
  LET last  == ElemEnd(Count)
      c     == ListElemComma(Count)
      after == IF c # None THEN c + 1 ELSE last
      past  == TrailingComment(after).end
      line  == <<"NL", " ">> \o Element(k) \o (IF c # None THEN <<",">> ELSE <<>>) \o Behind(comment)
  IN IF Count = 0 THEN Insertion(CloseOff, <<"NL", " ">> \o Element(k) \o <<"NL">>, None)
     ELSE IF ~ListMultiline /\ c # None
     THEN Insertion(c + 1, <<" ">> \o Element(k) \o <<",">>, None)
     ELSE IF ~ListMultiline THEN Insertion(last, <<",", " ">> \o Element(k), None)
     ELSE IF past # None THEN Insertion(past, line, IF c = None THEN last ELSE None)
     ELSE Insertion(after, (IF c = None THEN <<",">> ELSE <<>>) \o line, None)

\* Element n starts a line of the list.
StartsLine(n) == ListMultiline /\ IsBlank(LineStart(ElemPos(n)), ElemPos(n))

\* On a list of lines the new element goes above the comments of its target.
SpliceListElementBefore(n, k, comment) ==
  IF StartsLine(n)
  THEN Insertion(ExtendOverLeadingComments(LineStart(ElemPos(n))),
                 <<" ">> \o Element(k) \o <<",">> \o Behind(comment) \o <<"NL">>, None)
  ELSE Insertion(ElemPos(n), Element(k) \o <<",", " ">>, None)

\* The insertion for an element to go before another, or to the end.
SpliceFor(k, before, comment) ==
  IF before = "" THEN SpliceListElementAppend(k, comment)
  ELSE SpliceListElementBefore(IndexOf(before), k, comment)
-----------------------------------------------------------------------------
(* The calls.  One that returns an error stages nothing.                   *)

SpanNames == <<"0", "1">>

StageListRemoval(es, path, spans) ==
  StageAll(es, [i \in DOMAIN spans |->
                  Edit(Append(path, SpanNames[i]), spans[i].start, spans[i].end, <<>>)])

StageSplice(es, path, ins) ==
  StageAll(es, <<Edit(path, ins.at, ins.at, ins.text)>> \o
                 (IF ins.commaAt = None THEN <<>>
                  ELSE <<Edit(Append(path, "comma"), ins.commaAt, ins.commaAt, <<",">>)>>))

\* The bound on calls.
MayCall == calls < MaxCalls /\ calls' = calls + 1

\* What was asked for, as Stage keeps it: a later call for the same element
\* takes the earlier one's place.
Ask(p) ==
  placed' = IF \E i \in DOMAIN placed : placed[i].key = p.key
            THEN [i \in DOMAIN placed |-> IF placed[i].key = p.key THEN p ELSE placed[i]]
            ELSE Append(placed, p)

RemoveKeyedElement(k) ==
  /\ k \in Present /\ MayCall
  /\ edits' = StageListRemoval(edits, <<"rmel", k>>, ListElementRemovalSpans(IndexOf(k), FALSE))
  /\ removed' = removed \cup {k}
  /\ UNCHANGED <<src, doc, placed, renamed>>

InsertKeyedElement(k, before) ==
  /\ k \notin Present /\ MayCall
  /\ edits' = StageSplice(edits, <<"ins", k>>, SpliceFor(k, before, ""))
  /\ Ask([key |-> k, before |-> before])
  /\ UNCHANGED <<src, doc, removed, renamed>>

RenameKeyedElement(k, new) ==
  /\ k \in Present /\ new \notin Present /\ MayCall
  /\ LET at == ElemPos(IndexOf(k)) + 1
     IN edits' = Stage(edits, Edit(<<"ren", k>>, at, at + 1, <<new>>))
  /\ renamed' = [renamed EXCEPT ![k] = new]
  /\ UNCHANGED <<src, doc, removed, placed>>

\* The element is where it is asked to go.
AtHome(k, before) ==
  LET n == IndexOf(k)
  IN IF before = "" THEN n = Count ELSE IndexOf(before) = n + 1

\* A line comment may follow the element only to a line of its own.
OnOwnLine(before) == ListMultiline /\ (before # "" => StartsLine(IndexOf(before)))

MoveListElement(k, before) ==
  /\ k \in Present /\ k # before /\ ~AtHome(k, before) /\ MayCall
  /\ LET n   == IndexOf(k)
         own == OnOwnLine(before)
         tc  == TrailingComment(ListElemTail(n))
         ins == SpliceFor(k, before, IF own /\ tc.start # None THEN At(tc.start) ELSE "")
     IN edits' = StageSplice(StageListRemoval(edits, <<"mv", k>>, ListElementRemovalSpans(n, ~own)),
                             <<"mv", k, "ins">>, ins)
  /\ Ask([key |-> k, before |-> before])
  /\ UNCHANGED <<src, doc, removed, renamed>>

\* Asked to go where it is, an element reproduces the input.
MoveHome(k, before) ==
  /\ k \in Present /\ k # before /\ AtHome(k, before) /\ MayCall
  /\ MayReturn \/ \A i \in DOMAIN placed : placed[i].key # k
  /\ placed' = SelectSeq(placed, LAMBDA p : p.key # k)
  /\ UNCHANGED <<src, doc, edits, removed, renamed>>

Next == \E k \in Keys :
          \/ RemoveKeyedElement(k)
          \/ \E new \in NewKeys : RenameKeyedElement(k, new)
          \/ \E before \in Present \cup {""} :
                \/ InsertKeyedElement(k, before)
                \/ MoveListElement(k, before)
                \/ MoveHome(k, before)

Spec == Init /\ [][Next]_vars
-----------------------------------------------------------------------------
(* What Bytes returns.                                                     *)

\* What a reader sees of a text: its symbols but for spaces and for what a
\* line comment hides.
Visible(text) ==
  LET hidden[i \in DOMAIN text] ==
        /\ i > 1 /\ text[i] # "NL"
        /\ text[i - 1] \in LineComments \/ hidden[i - 1]
  IN SelectSeq([i \in DOMAIN text |-> IF hidden[i] THEN " " ELSE text[i]], LAMBDA x : x # " ")

Tokens(text) == SelectSeq(Visible(text), LAMBDA x : x \notin Comments \cup {"NL"})

\* Parse takes the text: f = [ ... ] and an entry g after it.  ParseList takes
\* a comma after an element, and needs none.
Parses(t) ==
  LET n == Len(t)
      Good(i) ==
        CASE t[i] = "{"     -> i + 2 < n /\ t[i + 1] \in Keys /\ t[i + 2] = "}"
          [] t[i] = "}"     -> i > 4 /\ t[i - 2] = "{"
          [] t[i] \in Keys  -> t[i - 1] = "{"
          [] t[i] = ","     -> t[i - 1] = "}"
          [] OTHER          -> FALSE
  IN /\ n >= 4 /\ SubSeq(t, 1, 2) = <<"f", "[">> /\ SubSeq(t, n - 1, n) = <<"]", "g">>
     /\ \A i \in 3 .. n - 2 : Good(i)

\* Bytes: the text, unless the edits conflict or make no document.
Bytes ==
  LET sorted == Sorted(edits)
      text   == Splice(sorted)
  IN IF Conflict(sorted) THEN [what |-> "conflict"]
     ELSE IF Parses(Tokens(text)) THEN [what |-> "ok", text |-> text]
     ELSE [what |-> "invalid"]
-----------------------------------------------------------------------------
(* Properties.                                                             *)

\* The keys in the order the calls ask for: before each element of the source
\* what was placed there, in the order of the calls, and at the end the rest.
Moved == {k \in Present : \E i \in DOMAIN placed : placed[i].key = k}
PlacedBefore(b) ==
  LET there == SelectSeq(placed, LAMBDA p : p.before = b)
  IN [i \in DOMAIN there |-> there[i].key]
Asked ==
  LET slot(n) == PlacedBefore(KeyOf(n)) \o
                   (IF KeyOf(n) \in removed \cup Moved THEN <<>> ELSE <<renamed[KeyOf(n)]>>)
  IN FlattenSeq([n \in 1 .. Count |-> slot(n)]) \o PlacedBefore("")

KeysOf(text) == SelectSeq(Tokens(text), LAMBDA x : x \in Keys)

\* What Bytes returns holds the elements that the calls left, inserted, moved
\* and renamed, each once and in the order asked for: RemoveKeyedElement,
\* InsertKeyedElement, RenameKeyedElement and MoveKeyedElement together.  One
\* edit always applies, whatever the layout of the list.
ElementsAsAsked ==
  /\ calls <= 1 => Bytes.what = "ok"
  /\ Bytes.what = "ok" => KeysOf(Bytes.text) = Asked

\* The comments at the ends of the lines of the elements with key k.
Trails(visible, k) ==
  {c \in Comments :
     \E i \in DOMAIN visible :
       LET next == IF visible[i + 2] = "," THEN i + 3 ELSE i + 2
       IN visible[i] = k /\ visible[next] = c /\ visible[next + 1] = "NL"}

\* The comments of an element: at the end of its line, and before its comma.
OwnComments(visible, k) ==
  Trails(visible, k) \cup
    {c \in Comments : \E i \in DOMAIN visible :
                        visible[i] = k /\ visible[i + 2] = c /\ visible[i + 3] = ","}

\* The comment that has the line above an element with key k to itself.
Leads(visible, k) ==
  {c \in Comments : \E i \in 5 .. Len(visible) :
                      visible[i] = k /\ SubSeq(visible, i - 4, i - 2) = <<"NL", c, "NL">>}

\* No comment is lost, hidden or doubled but those of a removed element
\* (ListElementRemovalSpans, MoveListElement).  An element that no call moves
\* or removes keeps the comment at the end of its line and the one above it,
\* whatever happens around it (the comma that SpliceListElementAppend sets
\* apart, ExtendOverLeadingComments).
CommentsKept ==
  Bytes.what = "ok" =>
    LET before == Visible(src)
        after  == Visible(Bytes.text)
        gone   == UNION {OwnComments(before, k) : k \in removed}
    IN /\ \A c \in Comments \ gone :
            Cardinality({i \in DOMAIN after : after[i] = c}) = IF c \in ToSet(before) THEN 1 ELSE 0
       /\ \A k \in Present \ (removed \cup Moved) :
            /\ Trails(before, k) \subseteq Trails(after, renamed[k])
            /\ Leads(before, k) \subseteq Leads(after, renamed[k])

====
