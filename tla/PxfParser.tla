------------------------------- MODULE PxfParser -------------------------------
(***************************************************************************)
(* pxf::Parser (src/pxf/parser.cc), strict and tolerant, over the tokens   *)
(* of a document.                                                          *)
(*                                                                         *)
(* A token is a pair <<kind, text>>; "nl" and "comment" are tokens that    *)
(* Advance passes over.  "badstr" is a string that its line ends: the      *)
(* tolerant lexer reports it and returns a string, the strict one returns  *)
(* "illegal".  A position is 2 * i where the i-th token starts and         *)
(* 2 * i + 1 where it ends.                                                *)
(*                                                                         *)
(* The recursive descent is a stack of calls.  A parse is a record: doc,   *)
(* tol and max are the input and the options, at is current_, prev the     *)
(* token before it, comments the pending comments, errs the errors that    *)
(* were recorded, stack the calls, ret what the last call returned, out    *)
(* the Document and st the outcome.  One operator stands for each          *)
(* function's next step; Step dispatches on the innermost call.            *)
(***************************************************************************)
EXTENDS Integers, FiniteSets, Sequences, SequencesExt, FiniteSetsExt, TLC

Nothing == [n |-> "nothing"]
Bad == [n |-> "bad"]

TextOf(doc, s) == [i \in DOMAIN s |-> doc[s[i]]]

Kind(p, i) ==
    CASE i > Len(p.doc) -> "eof"
      [] i <= Len(p.doc) /\ p.doc[i][1] = "badstr" /\ p.tol -> "string"
      [] i <= Len(p.doc) /\ p.doc[i][1] \in {"badstr", "badbytes"} /\ ~p.tol -> "illegal"
      [] OTHER -> p.doc[i][1]

Cur(p) == Kind(p, p.at)

Significant(p, i) == Kind(p, i) \notin {"nl", "comment"}

NextAt(p, i) == Min({j \in i + 1 .. Len(p.doc) + 1 : Significant(p, j)})

\* Advance, as often as it takes for the j-th token to be current_.
AdvanceTo(p, j) ==
    LET passed(k) == SelectSeq([i \in 1 .. j - p.at |-> p.at + i],
                               LAMBDA i : i <= Len(p.doc) /\ p.doc[i][1] = k)
        lexed == IF p.tol THEN passed("badstr") ELSE <<>>
    IN [p EXCEPT !.at = j,
                 !.prev = Max({i \in 0 .. j - 1 : i = 0 \/ Significant(p, i)}),
                 !.comments = @ \o passed("comment"),
                 !.errs = @ \o [i \in DOMAIN lexed |-> <<2 * lexed[i], "lexer">>]]

Advance(p) == AdvanceTo(p, NextAt(p, p.at))

PeekKind(p) == Kind(p, NextAt(p, p.at))

\* Mutant: what is flushed stays pending.
FlushCommentsNever(p) == p

FlushComments(p) == [p EXCEPT !.comments = <<>>]

Pending(p) == TextOf(p.doc, p.comments)

Line(p, i) == Cardinality({k \in 1 .. i - 1 : p.doc[k][1] = "nl"})

\* Whether the first pending comment trails, on its line, what ends at pos.
Trails(p, pos) ==
    /\ p.comments # <<>>
    /\ 2 * p.comments[1] >= pos
    /\ Line(p, p.comments[1]) = Line(p, pos \div 2)

Trailing(p, pos) == IF Trails(p, pos) THEN <<p.doc[p.comments[1]]>> ELSE <<>>

TakeTrailingComment(p, pos) ==
    IF Trails(p, pos) THEN [p EXCEPT !.comments = Tail(@)] ELSE p

Note(p, pos) == [p EXCEPT !.errs = Append(@, <<pos, "parser">>)]

Failed(p, pos) == [p EXCEPT !.st = "error", !.err = pos]

\* Mutant: a tolerant parse stays on what is wrong.
SoftStays(p, pos, q) == IF p.tol THEN Note(p, pos) ELSE Failed(p, pos)

\* A recoverable error at pos: a tolerant parse records it and goes on as q.
Soft(p, pos, q) == IF p.tol THEN Note(q, pos) ELSE Failed(p, pos)

Top(p) == Last(p.stack)

Call(p, frame) == [p EXCEPT !.stack = Append(@, frame), !.ret = Nothing]

Become(p, frame) == [p EXCEPT !.stack = Append(Front(@), frame), !.ret = Nothing]

\* The innermost call returns v, which ends at pos.
Return(p, v, pos) == [p EXCEPT !.stack = Front(@), !.ret = [n |-> "value", v |-> v, end |-> pos]]

\* It returns nullopt: a token was skipped that starts no entry.
ReturnNone(p) == [p EXCEPT !.stack = Front(@), !.ret = Nothing]

Returned(p) == p.ret # Nothing

SyncKinds == {"eof", "@type", "@name", "@dataset", "@proto", "ident", "string", "int"}

SyncTopLevel(p) ==
    AdvanceTo(p, Min({j \in p.at .. Len(p.doc) + 1 : Kind(p, j) \in SyncKinds}))

\* An error that ends a directive: a tolerant parse drops the directive.
Err(p, pos) ==
    IF p.tol /\ Len(p.stack) > 1 /\ p.stack[2].f \in {"directive", "table", "proto"}
    THEN SyncTopLevel(Note([p EXCEPT !.stack = <<Head(@)>>, !.ret = Nothing], pos))
    ELSE Failed(p, pos)

\* Where the open token at i is closed, or 0.
Match(p, i, open, close) ==
    LET count(k, j) == Cardinality({x \in i .. j : Kind(p, x) = k})
        ends == {j \in i + 1 .. Len(p.doc) :
                    Kind(p, j) = close /\ count(open, j) = count(close, j)}
    IN IF ends = {} THEN 0 ELSE Min(ends)

\* On the text, where a line that ends inside a string ends the search.
FindMatchingBrace(p, i) ==
    LET j == Match(p, i, "{", "}")
    IN IF \E k \in i .. j : p.doc[k][1] = "badstr" THEN 0 ELSE j

\* Past what is too deep to descend into; p stands on its opening token.
SkipBalanced(p, open, close) ==
    LET j == Match(p, p.at, open, close)
    IN IF j = 0 THEN AdvanceTo(p, Len(p.doc) + 1) ELSE Advance(AdvanceTo(p, j))

SkippedEnd(p, open, close) ==
    LET j == Match(p, p.at, open, close) IN IF j = 0 THEN 2 * (Len(p.doc) + 1) ELSE 2 * j + 1

Separators == {"=", ":", "{"}
Keys == {"ident", "string", "int", "bool"}

\* Mutant: any key may start an entry.
CurrentIsKey(p) == Cur(p) \in Keys

CurrentStartsEntry(p) == Cur(p) \in Keys /\ PeekKind(p) \in Separators

TolerantRowClose(p) == p.tol /\ Cur(p) = ")"

--------------------------------------------------------------------------------
(* Values *)

Literals == {"string", "int", "float", "bool", "bytes", "time", "null", "ident"}

ParseValue(p) ==
    LET depth == Top(p).depth IN
    IF p.tol /\ CurrentStartsEntry(p)
    THEN Note(Return(p, Bad, 2 * p.prev + 1), 2 * p.prev + 1)
    ELSE CASE Cur(p) \in Literals ->
                  Advance(Return(p, [n |-> "lit", t |-> p.doc[p.at]], 2 * p.at + 1))
           [] Cur(p) = "[" /\ depth + 1 > p.max ->
                  Soft(p, 2 * p.at, SkipBalanced(Return(p, [n |-> "list", el |-> <<>>],
                                                        SkippedEnd(p, "[", "]")), "[", "]"))
           [] Cur(p) = "[" /\ depth + 1 <= p.max ->
                  Advance(Become(p, [f |-> "list", depth |-> depth, el |-> <<>>, before |-> 0]))
           [] Cur(p) = "{" /\ depth + 1 > p.max ->
                  Soft(p, 2 * p.at, SkipBalanced(Return(p, [n |-> "block", en |-> <<>>, tr |-> <<>>],
                                                        SkippedEnd(p, "{", "}")), "{", "}"))
           [] Cur(p) = "{" /\ depth + 1 <= p.max ->
                  Advance(Become(p, [f |-> "body", depth |-> depth + 1, en |-> <<>>,
                                     node |-> [n |-> "block"]]))
           [] Cur(p) \in {"eof", "}", "]", ")"} ->
                  Soft(p, 2 * p.at, Return(p, Bad, 2 * p.at))
           [] OTHER ->
                  Soft(p, 2 * p.at, Advance(Return(p, Bad, 2 * p.at)))

CloseList(p) ==
    LET list == [n |-> "list", el |-> Top(p).el]
    IN IF Cur(p) = "]" THEN Advance(Return(p, list, 2 * p.at + 1))
       ELSE Soft(p, 2 * p.at, Return(p, list, 2 * p.at))

SkipComma(p) == IF Cur(p) = "," THEN Advance(p) ELSE p

ParseList(p) ==
    LET l == Top(p) IN
    CASE Returned(p) /\ p.tol /\ p.at = l.before /\ p.ret.v = Bad -> CloseList(p)
      [] Returned(p) /\ ~(p.tol /\ p.at = l.before /\ p.ret.v = Bad) ->
             SkipComma(Become(p, [l EXCEPT !.el = Append(@, p.ret.v)]))
      [] ~Returned(p) /\ (Cur(p) \in {"]", "eof"} \/ TolerantRowClose(p)) -> CloseList(p)
      [] OTHER -> Call(Become(p, [l EXCEPT !.before = p.at]),
                       [f |-> "value", depth |-> l.depth + 1])

--------------------------------------------------------------------------------
(* Entries *)

\* An integer written with a precision suffix.
WithPrecision == <<"int", "1p2">>

\* The comments taken from p go back in front of those that came since.
GiveBack(p, q) == [q EXCEPT !.comments = p.comments \o @]

ParseEntry(p) ==
    LET depth == Top(p).depth
        key == p.doc[p.at]
        lead == Pending(p)
        a == Advance(FlushComments(p))
        scalarKey == Cur(p) \in {"int", "bool"}
        \* Soft at the key when wrong, with q to go on from.
        unless(wrong, q) ==
            IF ~wrong THEN q ELSE IF p.tol THEN Note(q, 2 * p.at) ELSE Failed(p, 2 * p.at)
        value(n) == Call(Become(Advance(a), [f |-> "bind", n |-> n, key |-> key, lead |-> lead]),
                         [f |-> "value", depth |-> depth])
        block == [n |-> "blk", key |-> key, lead |-> lead]
        body == Advance(Become(a, [f |-> "body", depth |-> depth + 1, en |-> <<>>, node |-> block]))
        tooDeep == Soft(a, 2 * a.at, SkipBalanced(Return(a, block @@ [en |-> <<>>, tr |-> <<>>],
                                                         SkippedEnd(a, "{", "}")), "{", "}"))
    IN CASE Cur(p) \notin Keys ->
                Soft(p, 2 * p.at, ReturnNone(GiveBack(p, Advance(FlushComments(p)))))
         [] Cur(p) \in Keys /\ Cur(a) = "=" -> unless(scalarKey, value("assign"))
         [] Cur(p) \in Keys /\ Cur(a) = ":" ->
                unless(key = WithPrecision, unless(~Top(p).mapEntry, value("map")))
         [] Cur(p) \in Keys /\ Cur(a) = "{" /\ depth + 1 > p.max -> unless(scalarKey, tooDeep)
         [] Cur(p) \in Keys /\ Cur(a) = "{" /\ depth + 1 <= p.max -> unless(scalarKey, body)
         [] OTHER ->
                Soft(a, 2 * a.at,
                     Return(a, [n |-> "assign", key |-> <<"ident", key[2]>>, val |-> Bad,
                                lead |-> lead, trail |-> <<>>], 2 * a.prev + 1))

\* ParseEntry once the value is there.
Bind(p) ==
    LET b == Top(p) IN
    TakeTrailingComment(
        Return(p, [n |-> b.n, key |-> b.key, val |-> p.ret.v, lead |-> b.lead,
                   trail |-> Trailing(p, p.ret.end)], p.ret.end), p.ret.end)

AddEntry(p, e) == Become(p, [Top(p) EXCEPT !.en = Append(@, e)])

ParseTypeEntry(p) ==
    LET q == FlushComments(p)
        a == Advance(q)
        b == Advance(a)
        past(r, k) == IF Cur(r) = k THEN Advance(r) ELSE r
        fail(r) == Soft(r, 2 * r.at, GiveBack(p, past(past(past(r, "@type"), "="), "string")))
        done == Advance(b)
    IN CASE Top(p).en # <<>> -> fail(q)
         [] Top(p).en = <<>> /\ Cur(a) # "=" -> fail(a)
         [] Top(p).en = <<>> /\ Cur(a) = "=" /\ Cur(b) # "string" -> fail(b)
         [] OTHER ->
                TakeTrailingComment(
                    AddEntry(done, [n |-> "type", url |-> b.doc[b.at], lead |-> Pending(p),
                                    trail |-> Trailing(done, 2 * b.at + 1)]), 2 * b.at + 1)

ParseBody(p) ==
    LET b == Top(p)
        node == b.node @@ [en |-> b.en, tr |-> Pending(p)]
        q == FlushComments(p)
    IN CASE Returned(p) -> AddEntry(p, p.ret.v)
         [] ~Returned(p) /\ Cur(p) = "}" -> Advance(Return(q, node, 2 * p.at + 1))
         [] ~Returned(p) /\ (Cur(p) = "eof" \/ TolerantRowClose(p)) ->
                Soft(q, 2 * p.at, Return(q, node, 2 * p.at))
         [] ~Returned(p) /\ Cur(p) = "@type" -> ParseTypeEntry(p)
         [] OTHER -> Call(p, [f |-> "entry", depth |-> b.depth, mapEntry |-> TRUE])
--------------------------------------------------------------------------------
(* Directives *)

ParseDirective(p) ==
    LET d == Top(p)
        close == FindMatchingBrace(p, d.open)
    IN CASE Returned(p) /\ close = 0 -> Err(p, d.pos)
         [] Returned(p) /\ close # 0 ->
                Return(p, [d.node EXCEPT !.body = <<SubSeq(p.doc, d.open + 1, close - 1)>>],
                       2 * close + 1)
         [] ~Returned(p) /\ Cur(p) = "ident" /\ PeekKind(p) \notin {"=", ":"} ->
                Advance(Become(p, [d EXCEPT !.node.prefixes = Append(@, p.doc[p.at]),
                                            !.end = 2 * p.at + 1]))
         [] ~Returned(p) /\ Cur(p) = "{" ->
                Call(Become(p, [d EXCEPT !.open = p.at]), [f |-> "value", depth |-> 0])
         [] OTHER -> Return(p, d.node, d.end)

\* The first of the columns at the positions cols that repeats an earlier one or
\* overlaps it, a field and a path inside it; 0 when there is none.
ColumnPathError(doc, cols) ==
    LET inside(x, y) == x = <<"ident", "a">> /\ y = <<"ident", "a.b">>
        clash(x, y) == x = y \/ inside(x, y) \/ inside(y, x)
        wrong == {i \in DOMAIN cols : \E j \in 1 .. i - 1 : clash(doc[cols[j]], doc[cols[i]])}
    IN IF wrong = {} THEN 0 ELSE cols[Min(wrong)]

\* The header of @dataset up to its first column, then column by column, then the rows.
ParseTableDirective(p) ==
    LET t == Top(p)
        typed == IF Cur(p) = "ident" THEN Advance(p) ELSE p
        a == Advance(p)
        cols == Append(t.cols, p.at)
        wrong == ColumnPathError(p.doc, cols)
    IN CASE t.at = "type" /\ Cur(typed) # "(" -> Err(typed, 2 * typed.at)
         [] t.at = "type" /\ Cur(typed) = "(" ->
                Advance(Become(typed, [t EXCEPT !.at = "columns",
                                                !.node.type = IF Cur(p) = "ident" THEN <<p.doc[p.at]>>
                                                              ELSE <<>>]))
         [] t.at = "columns" /\ Cur(p) # "ident" -> Err(p, 2 * p.at)
         [] t.at = "columns" /\ Cur(p) = "ident" /\ Cur(a) = "," ->
                Advance(Become(a, [t EXCEPT !.cols = cols]))
         [] t.at = "columns" /\ Cur(p) = "ident" /\ Cur(a) = ")" ->
                IF wrong # 0 THEN Err(a, 2 * wrong)
                ELSE Advance(Become(a, [t EXCEPT !.at = "rows", !.end = 2 * a.at + 1,
                                                 !.node.columns = TextOf(p.doc, cols)]))
         [] t.at = "columns" /\ Cur(p) = "ident" /\ Cur(a) \notin {",", ")"} -> Err(a, 2 * a.at)
         [] t.at = "rows" /\ Returned(p) ->
                Become(p, [t EXCEPT !.node.rows = Append(@, p.ret.v), !.end = p.ret.end])
         [] t.at = "rows" /\ ~Returned(p) /\ Cur(p) = "(" ->
                Advance(Call(FlushComments(p),
                             [f |-> "row", pos |-> 2 * p.at, lead |-> Pending(p), cells |-> <<>>,
                              want |-> TRUE, aside |-> <<>>, arity |-> Len(t.node.columns)]))
         [] OTHER -> Return(p, t.node, t.end)

\* ParseTableRow, with ParseRowCell where a cell is wanted.
ParseTableRow(p) ==
    LET r == Top(p)
        cell(q, c) == Become(q, [r EXCEPT !.cells = Append(@, c), !.want = FALSE])
        past == Advance(FlushComments(p))
    IN CASE Returned(p) -> [cell(p, <<p.ret.v>>) EXCEPT !.comments = r.aside \o @]
         [] ~Returned(p) /\ r.want /\ Cur(p) \in {",", ")"} -> cell(p, <<>>)
         [] ~Returned(p) /\ r.want /\ Cur(p) \notin {",", ")"} ->
                Call(FlushComments(Become(p, [r EXCEPT !.aside = p.comments])),
                     [f |-> "value", depth |-> 0])
         [] ~Returned(p) /\ ~r.want /\ Cur(p) = "," -> Advance(Become(p, [r EXCEPT !.want = TRUE]))
         [] ~Returned(p) /\ ~r.want /\ Cur(p) = ")" ->
                IF Len(r.cells) # r.arity THEN Err(past, r.pos)
                ELSE Return(past, [cells |-> r.cells, lead |-> r.lead \o Pending(p)], 2 * p.at + 1)
         [] OTHER -> Err(p, 2 * p.at)

\* The raw body in the braces at p, which the lexer is moved past.
CaptureBraceBody(p, name) ==
    LET close == FindMatchingBrace(p, p.at)
        node == [n |-> "proto", name |-> name, lead |-> Top(p).lead,
                 body |-> SubSeq(p.doc, p.at, close)]
    IN IF close = 0 THEN Err(p, 2 * p.at)
       ELSE Advance([Return(p, node, 2 * close + 1) EXCEPT !.at = close])

ParseProtoDirective(p) ==
    LET a == Advance(p) IN
    CASE Cur(p) = "{" -> CaptureBraceBody(p, <<>>)
      [] Cur(p) = "ident" ->
             IF Cur(a) # "{" THEN Err(a, 2 * a.at) ELSE CaptureBraceBody(a, <<p.doc[p.at]>>)
      [] Cur(p) \in {"string", "bytes"} ->
             Advance(Return(p, [n |-> "proto", name |-> <<>>, lead |-> Top(p).lead,
                                body |-> <<p.doc[p.at]>>], 2 * p.at + 1))
      [] OTHER -> Err(p, 2 * p.at)

--------------------------------------------------------------------------------
(* The document *)

Reserved == <<"@name", "view">>

\* Mutant: the body starts where the type's name does.
TypeDirectiveAtName(p) ==
    LET a == Advance(p) IN
    IF Cur(a) # "ident" \/ (p.tol /\ CurrentStartsEntry(a))
    THEN Soft(a, 2 * a.at, SyncTopLevel(a))
    ELSE Advance([a EXCEPT !.out.type = <<a.doc[a.at]>>, !.out.body = 2 * a.at])

TypeDirective(p) ==
    LET a == Advance(p) IN
    IF Cur(a) # "ident" \/ (p.tol /\ CurrentStartsEntry(a))
    THEN Soft(a, 2 * a.at, SyncTopLevel(a))
    ELSE Advance([a EXCEPT !.out.type = <<a.doc[a.at]>>, !.out.body = 2 * a.at + 1])

StartDirective(p) ==
    LET lead == Pending(p)
        q == Advance(FlushComments(p))
        named == Call(q, [f |-> "directive", pos |-> 2 * p.at, end |-> 2 * p.at + 1, open |-> 0,
                          node |-> [n |-> "directive", name |-> p.doc[p.at], prefixes |-> <<>>,
                                    lead |-> lead, body |-> <<>>]])
    IN CASE Cur(p) = "@name" ->
                IF p.doc[p.at] = Reserved THEN Soft(p, 2 * p.at, named) ELSE named
         [] Cur(p) = "@dataset" ->
                Call(q, [f |-> "table", at |-> "type", end |-> 0, cols |-> <<>>,
                         node |-> [n |-> "dataset", pos |-> 2 * p.at, type |-> <<>>,
                                   columns |-> <<>>, rows |-> <<>>, lead |-> lead]])
         [] Cur(p) = "@proto" -> Call(q, [f |-> "proto", lead |-> lead])

\* A document with @dataset has neither @type nor entries.
Standalone(p) ==
    LET data == SelectSeq(p.out.dirs, LAMBDA d : d.n = "dataset")
        q == IF data # <<>> /\ p.out.type # <<>> THEN Soft(p, data[1].pos, p) ELSE p
        body(r) == [r EXCEPT !.stack = <<[f |-> "top", at |-> "entries"]>>]
    IN IF q.st = "error" THEN q
       ELSE IF data # <<>> /\ Cur(q) # "eof" THEN Soft(q, 2 * q.at, body(q)) ELSE body(q)

ParseDocument(p) ==
    CASE Top(p).at = "directives" /\ Returned(p) ->
             [p EXCEPT !.out.dirs = Append(@, p.ret.v), !.out.body = p.ret.end, !.ret = Nothing]
      [] Top(p).at = "directives" /\ ~Returned(p) /\ Cur(p) = "@type" -> TypeDirective(p)
      [] Top(p).at = "directives" /\ ~Returned(p) /\ Cur(p) \in {"@name", "@dataset", "@proto"} ->
             StartDirective(p)
      [] Top(p).at = "entries" /\ Returned(p) ->
             [p EXCEPT !.out.entries = Append(@, p.ret.v), !.ret = Nothing]
      [] Top(p).at = "entries" /\ ~Returned(p) /\ Cur(p) # "eof" ->
             Call(p, [f |-> "entry", depth |-> 0, mapEntry |-> FALSE])
      [] Top(p).at = "entries" /\ ~Returned(p) /\ Cur(p) = "eof" ->
             FlushComments([p EXCEPT !.out.trail = Pending(p), !.st = "ok"])
      [] OTHER -> Standalone(p)

Start(doc, tol, max) ==
    LET p == Advance([doc |-> doc, tol |-> tol, max |-> max, at |-> 0, prev |-> 0,
                      comments |-> <<>>, errs |-> <<>>, ret |-> Nothing, st |-> "run", err |-> 0,
                      stack |-> <<[f |-> "top", at |-> "directives"]>>,
                      out |-> [type |-> <<>>, dirs |-> <<>>, entries |-> <<>>, lead |-> <<>>,
                               trail |-> <<>>, body |-> 0]])
    IN FlushComments([p EXCEPT !.out.lead = Pending(p)])

Step(p) ==
    CASE Top(p).f = "top" -> ParseDocument(p)
      [] Top(p).f = "entry" -> ParseEntry(p)
      [] Top(p).f = "bind" -> Bind(p)
      [] Top(p).f = "value" -> ParseValue(p)
      [] Top(p).f = "list" -> ParseList(p)
      [] Top(p).f = "body" -> ParseBody(p)
      [] Top(p).f = "directive" -> ParseDirective(p)
      [] Top(p).f = "table" -> ParseTableDirective(p)
      [] Top(p).f = "row" -> ParseTableRow(p)
      [] Top(p).f = "proto" -> ParseProtoDirective(p)

RECURSIVE Finish(_)
Finish(p) == IF p.st = "run" THEN Finish(Step(p)) ELSE p

Parse(doc, max) == Finish(Start(doc, FALSE, max))

\* The directive p stands in is parsed to its end.
RECURSIVE FinishDirective(_)
FinishDirective(p) == IF p.st = "run" /\ Len(p.stack) > 1 THEN FinishDirective(Step(p)) ELSE p

\* ParseTableDirective on the token at i, for a decoder that stands on @dataset.
ParseDatasetAt(doc, i, max) ==
    FinishDirective(StartDirective([Start(doc, FALSE, max) EXCEPT !.at = i, !.comments = <<>>]))
================================================================================
