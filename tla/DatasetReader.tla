--------------------------- MODULE DatasetReader ---------------------------
(***************************************************************************)
(* pxf::DatasetReader: the rows of a @dataset read one at a time from a    *)
(* std::istream that hands over its bytes in pieces of any size.  The      *)
(* reader has consumed the header; doc is what follows it, and some of doc *)
(* may already be buffered.  A reader must give the rows, the end and the  *)
(* error that Parse gives for the whole text, however the text arrives,    *)
(* and must not hold a complete row back for bytes that may never come.    *)
(*                                                                         *)
(* Next runs as the code does: the fast path on what is buffered, then a   *)
(* scan that takes one token at a time and stops at a token that later     *)
(* bytes could still change.  Each token taken, and each read, is a step.  *)
(***************************************************************************)
EXTENDS PxfLexer

CONSTANTS Documents,       \* what may follow the header
          Columns,         \* the number of columns the header declares
          ShortWait,       \* kShortWait, 8
          PullSize,        \* kStreamPullSize
          MaxMessageSize,  \* opts_.max_message_size
          SourceMayFail    \* whether the istream may go bad

ASSUME DocumentsAssumption == Documents \subseteq Seq(Bytes)
ASSUME ReaderSizesAssumption ==
  /\ Columns \in Nat \ {0} /\ ShortWait \in Nat
  /\ PullSize \in Nat \ {0} /\ MaxMessageSize \in Nat \ {0}
  /\ SourceMayFail \in BOOLEAN

VARIABLES doc,        \* the bytes after the header
          taken,      \* how many of them the istream has handed over
          pending,    \* pending_
          base,       \* base_: the position of pending_[0]
          scanPos,    \* scan_pos_
          rowStart,   \* row_start_
          waiting,    \* waiting_
          waitAt,     \* wait_at_
          waitFrom,   \* wait_from_
          srcEof,     \* src_eof_
          finished,   \* finished_
          err,        \* err_
          pc,         \* where Next is: idle, resume, scan or pull
          rows        \* the rows Next has returned

scanVars == <<scanPos, rowStart, waiting, waitAt, waitFrom>>
vars == <<doc, taken, pending, base, scanVars, srcEof, finished, err, pc, rows>>

-----------------------------------------------------------------------------
(***************************************************************************)
(* Positions, and the row parser that Parse and the reader share.          *)
(***************************************************************************)
Position == [offset : Nat, line : Nat, column : Nat]
Start    == [offset |-> 0, line |-> 1, column |-> 1]

\* PosAt: the position of s[i] when s starts at p.
PosAt(p, s, i) ==
  LET nls == {k \in 0 .. i - 1 : Peek(s, k) = "NL"}
  IN [offset |-> p.offset + i,
      line   |-> p.line + Cardinality(nls),
      column |-> IF nls = {} THEN p.column + i ELSE i - Max(nls)]

OK == [what |-> "ok"]
Error(what, p) == [what |-> what, pos |-> p]

\* Parser::Advance: the first token from offset j on that is neither newline
\* nor comment, when rest says which it is further on.
AheadFrom(s, rest, j) ==
  LET on(t) == IF t.kind \in {"newline", "comment"} THEN rest[t.end] ELSE t
  IN on(Lex(s, j))

Ahead(s, i) ==
  LET from[j \in 0 .. Len(s)] == AheadFrom(s, from, j) IN from[i]

Values == {"string", "bytes", "int", "float", "ident", "timestamp", "duration"}

\* ParseTableRow's loop over cells in s, which starts at p, when rest says what
\* comes of the cells further on: how many they are and where the row ends, or
\* the error.  t is the token behind a cell.
AfterCell(s, p, rest, t) ==
  LET more(r) == IF r.err = OK THEN [r EXCEPT !.cells = @ + 1] ELSE r
  IN CASE t.kind = "comma"  -> more(rest[t.end])
       [] t.kind = "rparen" -> [err |-> OK, end |-> t.end, cells |-> 1]
       [] OTHER -> [err |-> Error(t.kind, PosAt(p, s, t.at))]

\* ParseRowCell takes the token t when it is a value, and nothing where the
\* cell is empty.
RowCell(s, p, rest, t) ==
  AfterCell(s, p, rest, IF t.kind \in Values THEN Ahead(s, t.end) ELSE t)

\* The cells from the one at offset j on.
CellsFrom(s, p, rest, j) == RowCell(s, p, rest, Ahead(s, j))

Cells(s, p, i) ==
  LET from[j \in 0 .. Len(s)] == CellsFrom(s, p, from, j) IN from[i]

\* ParseTableRow at the "(" that is the token open: the row and where it ends,
\* or the error and where it is.
TableRow(s, p, open) ==
  LET row(r) ==
        IF r.err # OK THEN r
        ELSE IF r.cells # Columns
             THEN [err |-> Error("arity", PosAt(p, s, open.at))]
        ELSE [err |-> OK, end |-> r.end,
              row |-> [pos |-> PosAt(p, s, open.at), text |-> Text(s, open.at, r.end)]]
  IN row(Cells(s, p, open.end))

Beside(s, p, t) == Error("beside", PosAt(p, s, t.at))

\* The row that begins with the token t.
RowOf(s, p, t) ==
  IF t.kind = "lparen" THEN TableRow(s, p, t) ELSE [err |-> Beside(s, p, t)]

\* The row at offset j, after newlines and comments.
RowAt(s, p, j) == RowOf(s, p, Ahead(s, j))

\* ParseDatasetRow: the row the bytes s begin with.
ParseRow(s, p) == RowAt(s, p, 0)

\* The rows from offset j on, where the token t comes first, when rest says
\* which follow.
RowsOf(s, rest, j, t) ==
  LET stop(e) == [rows |-> <<>>, err |-> e, next |-> t.kind, end |-> j]
      row(r)  == IF r.err = OK THEN [rest[r.end] EXCEPT !.rows = <<r.row>> \o @]
                 ELSE stop(r.err)
  IN IF t.kind \in {"eof", "directive"} THEN stop(OK) ELSE row(RowAt(s, Start, j))

RowsFrom(s, rest, j) == RowsOf(s, rest, j, Ahead(s, j))

Rows(s, i) ==
  LET from[j \in 0 .. Len(s)] == RowsFrom(s, from, j) IN from[i]

\* What Parse makes of the text after a header: its rows, then the error, the
\* next directive or the end of the text.  end is where the last row ends.
ParseRows(s) == Rows(s, 0)

-----------------------------------------------------------------------------
(***************************************************************************)
(* The reader.                                                             *)
(***************************************************************************)
Init ==
  /\ doc \in Documents
  /\ taken \in 0 .. Min({PullSize - 1, MaxMessageSize, Len(doc)})
  /\ pending = Text(doc, 0, taken)
  /\ base = Start
  /\ scanPos = 0 /\ rowStart = -1
  /\ waiting = FALSE /\ waitAt = 0 /\ waitFrom = 0
  /\ srcEof = FALSE /\ finished = FALSE /\ err = OK
  /\ pc = "idle" /\ rows = <<>>

Fail(e) == err' = e /\ pc' = "idle"

\* Consume drops n bytes.  scan and row are where the scan stood before it.
Consume(n, scan, row) ==
  /\ base' = PosAt(base, pending, n)
  /\ pending' = SubSeq(pending, n + 1, Len(pending))
  /\ scanPos' = Max({scan - n, 0})
  /\ rowStart' = IF row >= n THEN row - n ELSE -1
  /\ waiting' = FALSE
  /\ UNCHANGED <<waitAt, waitFrom>>

\* Next on entry.  A finished reader, and one that has failed, does nothing.
Next ==
  /\ pc = "idle" /\ err = OK /\ ~finished
  /\ \E r \in {ParseRow(pending, base)} :
        IF rowStart < 0 /\ r.err = OK
        THEN /\ rows' = Append(rows, r.row)
             /\ Consume(r.end, scanPos, rowStart)
             /\ UNCHANGED pc
        ELSE /\ pc' = "resume"
             /\ UNCHANGED <<rows, pending, base, scanVars>>
  /\ UNCHANGED <<doc, taken, srcEof, finished, err>>

\* Next after the end or an error: the same result again.
NextAgain ==
  /\ pc = "idle" /\ (finished \/ err # OK)
  /\ UNCHANGED vars

\* Wrong: only the fresh bytes are looked at, so a "*/" or a closing quote that
\* a read cut in two is missed.
MayEndTokenFreshOnly ==
  \/ waitFrom - waitAt < ShortWait
  \/ \E j \in waitFrom .. Len(pending) - 1 :
       \/ Peek(pending, j) \in {"DQ", "NL"} /\ Peek(pending, waitAt) # "/"
       \/ Peek(pending, j) = "*" /\ Peek(pending, j + 1) = "/"

\* MayEndToken: whether the bytes read since the waiting token was last lexed
\* could end it.
MayEndToken ==
  LET s     == pending
      T(d)  == Peek(s, waitAt + d)
      fresh == waitFrom .. Len(s) - 1
      opens(q) == \A k \in 1 .. Len(q) : T(k - 1) = q[k]
      finds(i, q) == \E j \in i .. Len(s) - Len(q) : Text(s, j, j + Len(q)) = q
      slashes(j) == j - 1 - Max({waitAt} \cup {k \in waitAt .. j - 1 : Peek(s, k) # "\\"})
      chars == Len(s) - 1 - (waitAt + 2)
  IN \/ waitFrom - waitAt < ShortWait
     \/ /\ opens(<<"DQ", "DQ", "DQ">>)
        /\ finds(Max({waitFrom - 2, waitAt + 3}), <<"DQ", "DQ", "DQ">>)
     \/ /\ T(0) = "DQ" /\ ~opens(<<"DQ", "DQ", "DQ">>)
        /\ \E j \in fresh : \/ Peek(s, j) = "NL"
                            \/ Peek(s, j) = "DQ" /\ slashes(j) % 2 = 0
     \/ /\ opens(<<"b", "DQ">>)
        /\ \/ \E j \in fresh : Peek(s, j) \in {"DQ", "NL"}
           \/ (chars \div 4) * 3 > MaxBytesLiteral
     \/ /\ T(0) = "#" \/ opens(<<"/", "/">>)
        /\ \E j \in fresh : Peek(s, j) = "NL"
     \/ /\ opens(<<"/", "*">>)
        /\ finds(Max({waitFrom - 1, waitAt + 2}), <<"*", "/">>)
     \/ /\ \A d \in 0 .. 3 : T(d) \in Digits
        /\ T(4) = "-"
        /\ \E j \in Max({waitFrom - 1, waitAt}) .. Len(s) - 1 :
             \/ Peek(s, j) \in EndsRun
             \/ Peek(s, j) = "/" /\ Peek(s, j + 1) \in {"/", "*"}
     \/ /\ T(0) \notin {"DQ", "#"}
        /\ ~opens(<<"b", "DQ">>) /\ ~opens(<<"/", "/">>) /\ ~opens(<<"/", "*">>)
        /\ ~((\A d \in 0 .. 3 : T(d) \in Digits) /\ T(4) = "-")
        /\ \E j \in fresh : Peek(s, j) \notin IdentPart \cup {"+", "-", "C2", "B5"}

\* Wrong: "" is taken for a closed string.
CompleteEmptyString(t) ==
  LET n == Len(pending)
      next == Peek(pending, t.end)
  IN \/ srcEof
     \/ t.kind \in {"newline", "lparen", "rparen", "equals", "comma"}
     \/ t.kind = "illegal" /\ t.end + 4 <= n
     \/ /\ t.kind \notin {"illegal", "eof"}
        /\ \/ t.end >= n /\ t.kind \in {"string", "bytes"}
           \/ /\ t.end < n
              /\ next \in {".", "p", "/", "C2"} => t.end + 1 < n

\* Complete: bytes that arrive later cannot change the token.
Complete(t) ==
  LET n == Len(pending)
      text == Text(pending, t.at, t.end)
      next == Peek(pending, t.end)
  IN \/ srcEof
     \/ t.kind \in {"newline", "lparen", "rparen", "equals", "comma"}
     \/ t.kind = "illegal" /\ t.end + 4 <= n
     \/ /\ t.kind \notin {"illegal", "eof"}
        /\ \/ /\ t.end >= n
              /\ \/ t.kind \in {"string", "bytes"} /\ text # <<"DQ", "DQ">>
                 \/ t.kind = "comment" /\ Peek(text, 0) = "/" /\ Peek(text, 1) = "*"
           \/ /\ t.end < n
              /\ next \in {".", "p", "/", "C2"} => t.end + 1 < n

\* What Next does when the scan needs more bytes: it reads them, or at the end
\* of the source takes what is left as comments or as a row cut short.
NeedMore ==
  /\ ~srcEof /\ pc' = "pull"
  /\ UNCHANGED <<pending, base, finished, err>>

\* ScanRow on entry: Resume.
Resume ==
  /\ pc = "resume"
  /\ IF waiting /\ ~srcEof /\ ~MayEndToken
     THEN /\ waitFrom' = Len(pending)
          /\ NeedMore
          /\ UNCHANGED waiting
     ELSE /\ waiting' = FALSE
          /\ pc' = "scan"
          /\ UNCHANGED <<waitFrom, pending, base, finished, err>>
  /\ UNCHANGED <<doc, taken, scanPos, rowStart, waitAt, srcEof, rows>>

\* The scan takes a token that neither ends the row nor the rows.
TakeToken(t) ==
  /\ scanPos' = t.end
  /\ rowStart' = IF rowStart < 0 /\ t.kind = "lparen" THEN t.at ELSE rowStart
  /\ UNCHANGED <<waiting, waitAt, waitFrom, pending, base, finished, err, pc, rows>>

\* kRow: the row ends at t, and is parsed at its position in the stream.
RowEnds(t) ==
  \E r \in {ParseRow(Text(pending, 0, t.end), base)} :
     /\ Consume(t.end, t.end, -1)
     /\ IF r.err = OK THEN rows' = Append(rows, r.row) /\ pc' = "idle" /\ UNCHANGED err
        ELSE Fail(r.err) /\ UNCHANGED rows
     /\ UNCHANGED finished

\* RowError: the error the row parser finds in what is buffered.
RowFails ==
  /\ \E r \in {ParseRow(pending, base)} :
       Fail(IF r.err = OK THEN Error("neither", base) ELSE r.err)
  /\ UNCHANGED <<scanVars, pending, base, finished, rows>>

\* Wrong: the bytes the scan has passed are dropped, the directive with them.
DirectiveEndsDrops ==
  /\ finished' = TRUE /\ pc' = "idle"
  /\ Consume(Len(pending), scanPos, rowStart)
  /\ UNCHANGED <<err, rows>>

\* kEnd: the directive and what precedes it stay buffered, for Tail.
DirectiveEnds ==
  /\ finished' = TRUE /\ pc' = "idle"
  /\ UNCHANGED <<scanVars, pending, base, err, rows>>

\* kNotRow.
NotRow(t) ==
  /\ Fail(Beside(pending, base, t))
  /\ UNCHANGED <<scanVars, pending, base, finished, rows>>

\* The buffer ends before the token is known: wait for it, or at the end of
\* the source take the rest as comments, or as a row cut short.
BufferEnds(t) ==
  \/ /\ ~srcEof
     /\ waiting' = TRUE /\ waitAt' = t.at
     /\ waitFrom' = Len(pending) /\ scanPos' = t.at
     /\ NeedMore
     /\ UNCHANGED <<rowStart, rows>>
  \/ srcEof /\ rowStart >= 0 /\ RowFails
  \/ /\ srcEof /\ rowStart < 0
     /\ Consume(Len(pending), scanPos, rowStart)
     /\ finished' = TRUE /\ pc' = "idle"
     /\ UNCHANGED <<err, rows>>

\* One turn of ScanRow's loop, and what Next makes of its result.
ScanRow ==
  /\ pc = "scan"
  /\ \E t \in {Lex(pending, scanPos)} :
       LET inRow   == rowStart >= 0
           decided == t.kind # "eof" /\ Complete(t)
           comment == t.kind \in {"newline", "comment"}
       IN \/ ~decided /\ BufferEnds(t)
          \/ /\ decided
             /\ comment \/ IF inRow THEN t.kind \notin {"rparen", "lparen", "illegal"}
                                    ELSE t.kind = "lparen"
             /\ TakeToken(t)
          \/ decided /\ inRow /\ t.kind = "rparen" /\ RowEnds(t)
          \/ decided /\ inRow /\ t.kind \in {"lparen", "illegal"} /\ RowFails
          \/ decided /\ ~inRow /\ t.kind = "directive" /\ DirectiveEnds
          \/ /\ decided /\ ~inRow /\ ~comment /\ t.kind \notin {"lparen", "directive"}
             /\ NotRow(t)
  /\ UNCHANGED <<doc, taken, srcEof>>

\* Pull takes n of the bytes the stream has; the stream has what it likes.
PullBytes(n) ==
  /\ pc = "pull" /\ taken < Len(doc)
  /\ pending' = pending \o Text(doc, taken, taken + n)
  /\ taken' = taken + n
  /\ IF Len(pending') > MaxMessageSize THEN Fail(Error("size", Start))
     ELSE pc' = "resume" /\ UNCHANGED err
  /\ UNCHANGED <<doc, base, scanVars, srcEof, finished, rows>>

\* Wrong: the end of the source is not remembered.
PullEofForgets ==
  /\ pc = "pull" /\ taken = Len(doc)
  /\ pc' = "resume"
  /\ UNCHANGED <<doc, taken, pending, base, scanVars, srcEof, finished, err, rows>>

PullEof ==
  /\ pc = "pull" /\ taken = Len(doc)
  /\ srcEof' = TRUE /\ pc' = "resume"
  /\ UNCHANGED <<doc, taken, pending, base, scanVars, finished, err, rows>>

PullFails ==
  /\ SourceMayFail /\ pc = "pull"
  /\ Fail(Error("read", Start))
  /\ UNCHANGED <<doc, taken, pending, base, scanVars, srcEof, finished, rows>>

Pull == (\E n \in 1 .. Min({PullSize, Len(doc) - taken}) : PullBytes(n)) \/ PullEof \/ PullFails

Step == Next \/ NextAgain \/ Resume \/ ScanRow \/ Pull

Spec == Init /\ [][Step]_vars

-----------------------------------------------------------------------------
(***************************************************************************)
(* Properties.                                                             *)
(***************************************************************************)
Faults == {"size", "read"}

\* Next returns the rows Parse reads in the whole text, at their positions and
\* in order, ends only where Parse finds no more of them, and fails only with
\* the error Parse reports, at the same position, however the bytes arrive.
RowsAsParsed ==
  \E whole \in {ParseRows(doc)} :
     /\ \E n \in 0 .. Len(whole.rows) : rows = SubSeq(whole.rows, 1, n)
     /\ finished => rows = whole.rows /\ whole.err = OK
     /\ err # OK /\ err.what \notin Faults => rows = whole.rows /\ err = whole.err

\* Next asks the source for more bytes only when the buffer holds no complete
\* row: on a stream that stays open no row waits for bytes that never come.
\* Nor does it ask when the buffer has outgrown max_message_size.
NotHeldBack ==
  pc = "pull" => ParseRow(pending, base).err # OK /\ Len(pending) <= MaxMessageSize

\* Tail after the end: what was buffered and what is left of the source.  It
\* begins after the last row, and its first token is the directive that ended
\* the rows; at the end of the text it is empty.
TailResumes ==
  finished =>
    \E whole \in {ParseRows(doc)}, tail \in {pending \o Text(doc, taken, Len(doc))} :
       /\ tail = Text(doc, base.offset, Len(doc))
       /\ IF whole.next = "directive"
          THEN base.offset >= whole.end /\ Ahead(tail, 0).kind = "directive"
          ELSE tail = <<>>

\* After the end or an error nothing changes: Next returns the same result,
\* and the buffer stays as it is for Tail.
Sticky ==
  [][err # OK \/ finished => UNCHANGED vars]_vars

\* What is left: bytes not consumed, bytes not read and the end of the source,
\* bytes not scanned, and where the call is.
Left == <<Len(doc) - base.offset, Len(doc) - taken + (IF srcEof THEN 0 ELSE 1), Len(pending) - scanPos,
          [idle |-> 4, resume |-> 3, scan |-> 2, pull |-> 1][pc]>>

\* Every step of Next's loop gets on: it ends the reading, or leaves fewer
\* bytes of the stream, or of the source, or of the buffer, or the same bytes
\* to a later part of the call.  So no call of Next spins, every text is read
\* to its end or to an error however the bytes arrive, and that is final.
Advances ==
  [][/\ err = OK /\ ~finished
     /\ \/ finished' \/ err' # OK
        \/ \E i \in DOMAIN Left : Left'[i] < Left[i] /\ \A j \in 1 .. i - 1 : Left'[j] = Left[j]]_vars
=============================================================================
