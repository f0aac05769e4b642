------------------------ MODULE DatasetReaderProofs ------------------------
(***************************************************************************)
(* What holds of the dataset reader for every text, every arrival of its   *)
(* bytes, every limit and whatever the lexer makes of them.                *)
(***************************************************************************)
EXTENDS DatasetReader, PxfLexerProofs

\* A reader that has ended or failed is between calls of Next.
OverIsIdle == err # OK \/ finished => pc = "idle"

\* Next leaves the reader between calls once it ends or fails, and nothing
\* but Next moves a reader that is between calls.
LEMMA OverIsIdleInv == Spec => []OverIsIdle
<1>1. Init => OverIsIdle
  BY DEF Init, OverIsIdle
<1>2. OverIsIdle /\ [Step]_vars => OverIsIdle'
  <2> SUFFICES ASSUME OverIsIdle, [Step]_vars PROVE OverIsIdle'
    OBVIOUS
  <2>1. CASE Next
    BY <2>1 DEF Next, OverIsIdle
  <2>2. CASE NextAgain \/ UNCHANGED vars
    BY <2>2 DEF NextAgain, OverIsIdle, vars
  <2>3. CASE Resume
    BY <2>3 DEF Resume, NeedMore, OverIsIdle
  <2>4. CASE ScanRow
    <3>1. pc = "scan" /\ err = OK /\ ~finished
      BY <2>4 DEF ScanRow, OverIsIdle
    <3>2. PICK t \in {Lex(pending, scanPos)} :
            \/ BufferEnds(t) \/ TakeToken(t) \/ RowEnds(t) \/ RowFails
            \/ DirectiveEnds \/ NotRow(t)
      BY <2>4 DEF ScanRow
    <3>3. CASE BufferEnds(t)
      BY <3>1, <3>3 DEF BufferEnds, NeedMore, RowFails, Fail, OverIsIdle
    <3>4. CASE TakeToken(t)
      BY <3>1, <3>4 DEF TakeToken, OverIsIdle
    <3>5. CASE RowEnds(t)
      BY <3>1, <3>5 DEF RowEnds, Fail, OverIsIdle
    <3>6. CASE RowFails \/ DirectiveEnds \/ NotRow(t)
      BY <3>1, <3>6 DEF RowFails, DirectiveEnds, NotRow, Fail, OverIsIdle
    <3> QED
      BY <3>2, <3>3, <3>4, <3>5, <3>6
  <2>5. CASE Pull
    BY <2>5 DEF Pull, PullBytes, PullEof, PullFails, Fail, OverIsIdle
  <2> QED
    BY <2>1, <2>2, <2>3, <2>4, <2>5 DEF Step
<1> QED
  BY <1>1, <1>2, PTL DEF Spec

\* After the end or an error every call of Next returns the same result and
\* leaves the buffer as it is for Tail (dataset_reader.h: "After EOF or error,
\* all subsequent calls return the same sticky result").
THEOREM ResultsStick == Spec => Sticky
<1>1. OverIsIdle /\ [Step]_vars => [err # OK \/ finished => UNCHANGED vars]_vars
  BY DEF OverIsIdle, Step, Next, NextAgain, Resume, ScanRow, Pull, PullBytes, PullEof, PullFails
<1> QED
  BY <1>1, OverIsIdleInv, PTL DEF Spec, Sticky
-----------------------------------------------------------------------------
(***************************************************************************)
(* Parser::Advance.                                                        *)
(***************************************************************************)
Passed == {"newline", "comment"}

\* Parser::Advance passes newlines and comments.
LEMMA AheadStep ==
  ASSUME NEW s, NEW rest, NEW j
  PROVE  /\ Lex(s, j).kind \in Passed => AheadFrom(s, rest, j) = rest[Lex(s, j).end]
         /\ Lex(s, j).kind \notin Passed => AheadFrom(s, rest, j) = Lex(s, j)
BY DEF AheadFrom, Passed

\* A token that is not the last takes the lexer further.
LEMMA LexBounds ==
  ASSUME NEW s \in Seq(Bytes), NEW j \in 0 .. Len(s)
  PROVE  /\ Lex(s, j) \in TokensFrom(s, 0)
         /\ Lex(s, j).at \in j .. Len(s) /\ Lex(s, j).end \in j .. Len(s)
         /\ Lex(s, j).kind # "eof" => Lex(s, j).end > j /\ Lex(s, j).end \in j + 1 .. Len(s)
<1> DEFINE t == Lex(s, j)
<1>1. /\ t \in TokensFrom(s, j)
      /\ t.kind # "eof" => t.end >= t.at + 1
  BY LexerAdvances
<1> HIDE DEF t
<1>2. t.kind \in Kinds /\ t.at \in j .. Len(s) /\ t.end \in j .. Len(s)
      /\ t = [kind |-> t.kind, at |-> t.at, end |-> t.end]
  BY <1>1 DEF TokensFrom
<1>3. Len(s) \in Nat /\ j \in Nat
  OBVIOUS
<1>4. t.at \in 0 .. Len(s) /\ t.end \in 0 .. Len(s)
  BY <1>2, <1>3
<1>5. t \in TokensFrom(s, 0)
  BY <1>2, <1>4 DEF TokensFrom
<1>6. t.kind # "eof" => t.end > j /\ t.end \in j + 1 .. Len(s)
  BY <1>1, <1>2, <1>3
<1> QED BY <1>2, <1>5, <1>6 DEF t

\* Advance's loop ends: what it returns is what the next token makes of it.
LEMMA AheadUnfold ==
  ASSUME NEW s \in Seq(Bytes)
  PROVE  \E f \in [0 .. Len(s) -> TokensFrom(s, 0)] :
           \A j \in 0 .. Len(s) : f[j] = AheadFrom(s, f, j) /\ Ahead(s, j) = f[j]
<1> DEFINE D == 0 .. Len(s)
           V == TokensFrom(s, 0)
           rank == [d \in D |-> Len(s) - d]
           Phi == [g \in [D -> V] |-> [j \in D |-> AheadFrom(s, g, j)]]
<1>1. Len(s) \in Nat /\ 0 \in D
  OBVIOUS
<1>2. ASSUME NEW j \in D
      PROVE  Lex(s, j) \in V /\ (Lex(s, j).kind \in Passed => Lex(s, j).end \in D /\ Lex(s, j).end > j)
  <2>1. Lex(s, j) \in V /\ Lex(s, j).end \in j .. Len(s)
        /\ (Lex(s, j).kind # "eof" => Lex(s, j).end > j)
    BY LexBounds
  <2>2. Lex(s, j).end \in D
    BY <1>1, <2>1
  <2> QED BY <2>1, <2>2 DEF Passed
<1>3. ASSUME NEW g, NEW j \in D, \A k \in D : k > j => g[k] \in V
      PROVE  AheadFrom(s, g, j) \in V
  <2> HIDE DEF D, V
  <2> QED BY <1>2, <1>3, AheadStep
<1>4. ASSUME NEW g, NEW h, NEW j \in D, \A k \in D : k > j => g[k] = h[k]
      PROVE  AheadFrom(s, g, j) = AheadFrom(s, h, j)
  <2> HIDE DEF D, V
  <2> QED BY <1>2, <1>4, AheadStep
<1>5. PICK g \in [D -> V] : Phi[g] = g
  <2>1. V # {}
    <3> HIDE DEF V
    <3> QED BY <1>1, <1>2
  <2>2. Ranked(rank, Len(s) + 1, D)
    BY <1>1 DEF Ranked
  <2>3. Phi \in [[D -> V] -> [D -> V]]
    <3> HIDE DEF D, V
    <3> QED BY <1>3
  <2>4. ASSUME NEW g \in [D -> V], NEW h \in [D -> V], NEW d \in D,
               \A e \in D : rank[e] < rank[d] => g[e] = h[e]
        PROVE  Phi[g][d] = Phi[h][d]
    <3>1. \A k \in D : k > d => g[k] = h[k]
      BY <1>1, <2>4
    <3> HIDE DEF D, V
    <3> QED BY <1>4, <3>1
  <2> HIDE DEF Phi, rank, V, D
  <2>5. LooksBelow(Phi, rank, D, V)
    BY <2>3, <2>4 DEF LooksBelow
  <2> QED BY <2>1, <2>2, <2>5, FixedPoint
<1>6. g = [j \in D |-> AheadFrom(s, g, j)]
  <2> HIDE DEF D, V
  <2> QED BY <1>5
<1> DEFINE f == CHOOSE f : f = [j \in D |-> AheadFrom(s, f, j)]
<1>7. f = [j \in D |-> AheadFrom(s, f, j)]
  <2> HIDE DEF D, V
  <2> QED BY <1>6
<1>8. \A j \in D : Ahead(s, j) = f[j]
  BY DEF Ahead
<1> HIDE DEF f
<1>9. \A j \in D : f[j] = AheadFrom(s, f, j)
  <2> HIDE DEF D
  <2> QED BY <1>7
<1>10. \A j \in D : f[j] \in V
  <2> DEFINE S == {j \in D : f[j] \in V}
             hi == Len(s)
  <2>1. ASSUME NEW j \in D, \A k \in j + 1 .. Len(s) : k \in S
        PROVE  j \in S
    <3>1. \A k \in D : k > j => f[k] \in V
      BY <1>1, <2>1
    <3> HIDE DEF D, V
    <3> QED BY <1>3, <1>9, <3>1
  <2> HIDE DEF S, V
  <2>2. \A j \in 0 .. hi : (\A k \in j + 1 .. hi : k \in S) => j \in S
    BY <2>1
  <2>3. 0 \in Nat /\ hi \in Nat
    OBVIOUS
  <2> HIDE DEF hi
  <2>4. \A j \in 0 .. hi : j \in S
    BY <2>2, <2>3, DownInduction
  <2> QED BY <2>4 DEF S, hi
<1>11. f \in [D -> V]
  <2> HIDE DEF D, V
  <2> QED BY <1>7, <1>10
<1> QED BY <1>8, <1>9, <1>11
\* What Advance returns, by the token the lexer finds first.
LEMMA AheadEquation ==
  ASSUME NEW s \in Seq(Bytes), NEW j \in 0 .. Len(s)
  PROVE  /\ Lex(s, j).kind \in Passed => Ahead(s, j) = Ahead(s, Lex(s, j).end)
         /\ Lex(s, j).kind \notin Passed => Ahead(s, j) = Lex(s, j)
<1>1. PICK f \in [0 .. Len(s) -> TokensFrom(s, 0)] :
        \A k \in 0 .. Len(s) : f[k] = AheadFrom(s, f, k) /\ Ahead(s, k) = f[k]
  BY AheadUnfold
<1>2. Lex(s, j).end \in 0 .. Len(s)
  <2>1. Lex(s, j).end \in j .. Len(s)
    BY LexBounds
  <2> QED BY <2>1
<1> QED BY <1>1, <1>2, AheadStep

\* Advance returns no newline and no comment; what it returns is what the
\* lexer finds at some offset further on.
LEMMA AheadIsLexed ==
  ASSUME NEW s \in Seq(Bytes), NEW j \in 0 .. Len(s)
  PROVE  /\ Ahead(s, j).kind \notin Passed
         /\ \E k \in j .. Len(s) : Ahead(s, j) = Lex(s, k)
<1> DEFINE P(i) == /\ Ahead(s, i).kind \notin Passed
                   /\ \E k \in i .. Len(s) : Ahead(s, i) = Lex(s, k)
           S == {i \in 0 .. Len(s) : P(i)}
           hi == Len(s)
<1>1. ASSUME NEW i \in 0 .. Len(s), \A k \in i + 1 .. Len(s) : k \in S
      PROVE  P(i)
  <2>1. CASE Lex(s, i).kind \in Passed
    <3>1. Lex(s, i).end \in i + 1 .. Len(s)
      BY <2>1, LexBounds DEF Passed
    <3>2. P(Lex(s, i).end)
      BY <1>1, <3>1
    <3>3. Ahead(s, i) = Ahead(s, Lex(s, i).end)
      BY <2>1, AheadEquation
    <3>4. \A k \in Lex(s, i).end .. Len(s) : k \in i .. Len(s)
      BY <3>1
    <3> QED BY <3>2, <3>3, <3>4
  <2>2. CASE Lex(s, i).kind \notin Passed
    <3>1. i \in i .. Len(s)
      OBVIOUS
    <3> QED BY <2>2, <3>1, AheadEquation
  <2> QED BY <2>1, <2>2
<1> HIDE DEF P
<1>2. \A i \in 0 .. hi : (\A k \in i + 1 .. hi : k \in S) => i \in S
  BY <1>1
<1>3. 0 \in Nat /\ hi \in Nat
  OBVIOUS
<1>4. \A i \in 0 .. hi : i \in S
  <2> HIDE DEF S, hi
  <2> QED BY <1>2, <1>3, DownInduction
<1> QED BY <1>4 DEF P

\* Advance gets on: its token ends further on, unless it is the end.
LEMMA AheadBounds ==
  ASSUME NEW s \in Seq(Bytes), NEW j \in 0 .. Len(s)
  PROVE  /\ Ahead(s, j) \in TokensFrom(s, j)
         /\ Ahead(s, j).kind \notin Passed
         /\ Ahead(s, j).kind = "eof" <=> Ahead(s, j).at = Len(s)
         /\ Ahead(s, j).kind # "eof" => Ahead(s, j).end \in j + 1 .. Len(s)
                                        /\ Ahead(s, j).end >= Ahead(s, j).at + 1
<1> DEFINE t == Ahead(s, j)
<1>1. PICK k \in j .. Len(s) : t = Lex(s, k)
  BY AheadIsLexed
<1>2. k \in 0 .. Len(s) /\ Len(s) \in Nat /\ j \in Nat /\ k \in Nat /\ k >= j
  OBVIOUS
<1>3. /\ t \in TokensFrom(s, k) /\ t.kind \notin Passed
      /\ t.kind = "eof" <=> t.at = Len(s)
      /\ t.kind # "eof" => t.end >= t.at + 1
  BY <1>1, <1>2, LexerAdvances, AheadIsLexed
<1> HIDE DEF t
<1>4. t.kind \in Kinds /\ t.at \in k .. Len(s) /\ t.end \in k .. Len(s)
      /\ t = [kind |-> t.kind, at |-> t.at, end |-> t.end]
  BY <1>3 DEF TokensFrom
<1>5. t.at \in j .. Len(s) /\ t.end \in j .. Len(s)
  BY <1>2, <1>4
<1>6. t \in TokensFrom(s, j)
  BY <1>4, <1>5 DEF TokensFrom
<1>7. t.kind # "eof" => t.end \in j + 1 .. Len(s)
  BY <1>2, <1>3, <1>4
<1> QED BY <1>3, <1>6, <1>7 DEF t
-----------------------------------------------------------------------------
(***************************************************************************)
(* The row parser.                                                         *)
(***************************************************************************)
\* What comes of the cells of a row in s, which starts at p.
ErrorsIn(s, p) == {Error(w, PosAt(p, s, k)) : w \in Kinds \cup {"arity", "beside"}, k \in 0 .. Len(s)}
CellsOK(s) == {[err |-> OK, end |-> e, cells |-> n] : e \in 1 .. Len(s), n \in Nat}
CellsFail(s, p) == {[err |-> e] : e \in ErrorsIn(s, p)}

\* The token behind the cell at j: a comma, the end of the row, or none of
\* the row's.
BehindCell(s, j) ==
  IF Ahead(s, j).kind \in Values THEN Ahead(s, Ahead(s, j).end) ELSE Ahead(s, j)

\* No error is OK.
LEMMA ErrorIsNotOK ==
  ASSUME NEW w, NEW p
  PROVE  Error(w, p) # OK
<1>1. "pos" \in DOMAIN Error(w, p)
  BY DEF Error
<1>2. "pos" \notin DOMAIN OK
  BY DEF OK
<1> QED BY <1>1, <1>2

\* One turn of ParseTableRow's loop.
LEMMA CellsStep ==
  ASSUME NEW s, NEW p, NEW rest, NEW j
  PROVE  LET t == BehindCell(s, j)
             c == CellsFrom(s, p, rest, j)
             r == rest[t.end]
         IN /\ t.kind = "comma" /\ r.err = OK => c = [r EXCEPT !.cells = @ + 1]
            /\ t.kind = "comma" /\ r.err # OK => c = r
            /\ t.kind = "rparen" => c = [err |-> OK, end |-> t.end, cells |-> 1]
            /\ t.kind \notin {"comma", "rparen"} =>
                 c = [err |-> Error(t.kind, PosAt(p, s, t.at))]
<1> DEFINE t == BehindCell(s, j)
           r == rest[t.end]
           m == IF r.err = OK THEN [r EXCEPT !.cells = @ + 1] ELSE r
           e == [err |-> Error(t.kind, PosAt(p, s, t.at))]
           o == [err |-> OK, end |-> t.end, cells |-> 1]
<1>1. CellsFrom(s, p, rest, j) = CASE t.kind = "comma"  -> m
                                   [] t.kind = "rparen" -> o
                                   [] OTHER -> e
  BY DEF CellsFrom, RowCell, AfterCell, BehindCell
<1>2. (r.err = OK => m = [r EXCEPT !.cells = @ + 1]) /\ (r.err # OK => m = r)
  OBVIOUS
<1> HIDE DEF m, e, o, t
<1>3. /\ t.kind = "comma" => CellsFrom(s, p, rest, j) = m
      /\ t.kind = "rparen" => CellsFrom(s, p, rest, j) = o
      /\ t.kind \notin {"comma", "rparen"} => CellsFrom(s, p, rest, j) = e
  BY <1>1
<1> QED BY <1>2, <1>3 DEF e, o, t

\* The token behind a cell is further on.
LEMMA BehindCellBounds ==
  ASSUME NEW s \in Seq(Bytes), NEW j \in 0 .. Len(s)
  PROVE  /\ BehindCell(s, j) \in TokensFrom(s, j)
         /\ BehindCell(s, j).kind \notin Passed
         /\ BehindCell(s, j).kind # "eof" => BehindCell(s, j).end \in j + 1 .. Len(s)
                                       /\ BehindCell(s, j).end >= BehindCell(s, j).at + 1
<1> DEFINE t == Ahead(s, j)
           u == Ahead(s, t.end)
<1>1. CASE t.kind \in Values
  <2>1. t.kind # "eof"
    BY <1>1 DEF Values
  <2>2. t.end \in j + 1 .. Len(s)
    BY <2>1, AheadBounds
  <2>3. t.end \in 0 .. Len(s) /\ j \in Nat /\ t.end \in Nat /\ t.end > j /\ Len(s) \in Nat
    BY <2>2
  <2> HIDE DEF t
  <2>4. /\ u \in TokensFrom(s, t.end)
        /\ u.kind \notin Passed
        /\ u.kind # "eof" => u.end \in t.end + 1 .. Len(s) /\ u.end >= u.at + 1
    BY <2>3, AheadBounds
  <2>5. BehindCell(s, j) = u
    BY <1>1 DEF BehindCell, t
  <2> HIDE DEF u
  <2>6. u \in TokensFrom(s, j)
    <3>1. u.kind \in Kinds /\ u.at \in t.end .. Len(s) /\ u.end \in t.end .. Len(s)
          /\ u = [kind |-> u.kind, at |-> u.at, end |-> u.end]
      BY <2>4 DEF TokensFrom
    <3>2. u.at \in j .. Len(s) /\ u.end \in j .. Len(s)
      BY <2>3, <3>1
    <3> QED BY <3>1, <3>2 DEF TokensFrom
  <2>7. u.kind # "eof" => u.end \in j + 1 .. Len(s) /\ u.end >= u.at + 1
    BY <2>3, <2>4
  <2> QED BY <2>4, <2>5, <2>6, <2>7
<1>2. CASE t.kind \notin Values
  <2>1. BehindCell(s, j) = t
    BY <1>2 DEF BehindCell
  <2> QED BY <2>1, AheadBounds
<1> QED BY <1>1, <1>2

\* ParseTableRow's loop ends: what comes of the cells is what the next cell
\* makes of it.
LEMMA CellsUnfold ==
  ASSUME NEW s \in Seq(Bytes), NEW p
  PROVE  \E f \in [0 .. Len(s) -> CellsOK(s) \cup CellsFail(s, p)] :
           \A j \in 0 .. Len(s) : f[j] = CellsFrom(s, p, f, j) /\ Cells(s, p, j) = f[j]
<1> DEFINE D == 0 .. Len(s)
           V == CellsOK(s) \cup CellsFail(s, p)
           rank == [d \in D |-> Len(s) - d]
           Phi == [g \in [D -> V] |-> [j \in D |-> CellsFrom(s, p, g, j)]]
<1>1. Len(s) \in Nat /\ 0 \in D
  OBVIOUS
<1>2. ASSUME NEW j \in D
      PROVE  LET t == BehindCell(s, j)
             IN /\ t.kind \in {"comma", "rparen"} => t.end \in D /\ t.end > j /\ t.end \in 1 .. Len(s)
                /\ t.kind \in Kinds /\ t.at \in 0 .. Len(s)
  <2> DEFINE t == BehindCell(s, j)
  <2>1. t \in TokensFrom(s, j) /\ (t.kind # "eof" => t.end \in j + 1 .. Len(s))
    BY BehindCellBounds
  <2> HIDE DEF t
  <2>2. t.kind \in Kinds /\ t.at \in j .. Len(s)
    BY <2>1 DEF TokensFrom
  <2>3. t.kind \in {"comma", "rparen"} => t.end \in j + 1 .. Len(s)
    BY <2>1
  <2> QED BY <1>1, <2>2, <2>3 DEF t
<1>3. ASSUME NEW g, NEW j \in D, \A k \in D : k > j => g[k] \in V
      PROVE  CellsFrom(s, p, g, j) \in V
  <2> DEFINE t == BehindCell(s, j)
             r == g[t.end]
             c == CellsFrom(s, p, g, j)
  <2>1. /\ t.kind \in {"comma", "rparen"} => t.end \in D /\ t.end > j /\ t.end \in 1 .. Len(s)
        /\ t.kind \in Kinds /\ t.at \in 0 .. Len(s)
    BY <1>2
  <2>2. /\ t.kind = "comma" /\ r.err = OK => c = [r EXCEPT !.cells = @ + 1]
        /\ t.kind = "comma" /\ r.err # OK => c = r
        /\ t.kind = "rparen" => c = [err |-> OK, end |-> t.end, cells |-> 1]
        /\ t.kind \notin {"comma", "rparen"} =>
                 c = [err |-> Error(t.kind, PosAt(p, s, t.at))]
    BY CellsStep
  <2> HIDE DEF t, r, c
  <2>3. CASE t.kind = "comma"
    <3>1. r \in V
      <4> HIDE DEF V, D
      <4> QED BY <1>3, <2>1, <2>3 DEF r
    <3>2. CASE r \in CellsOK(s)
      <4>1. PICK e \in 1 .. Len(s), n \in Nat : r = [err |-> OK, end |-> e, cells |-> n]
        BY <3>2 DEF CellsOK
      <4>2. r.err = OK /\ [r EXCEPT !.cells = @ + 1] = [err |-> OK, end |-> e, cells |-> n + 1]
        BY <4>1
      <4>3. c = [err |-> OK, end |-> e, cells |-> n + 1] /\ n + 1 \in Nat
        BY <2>2, <2>3, <4>2
      <4> QED BY <4>3 DEF CellsOK, c
    <3>3. CASE r \in CellsFail(s, p)
      <4>1. PICK e \in ErrorsIn(s, p) : r = [err |-> e]
        BY <3>3 DEF CellsFail
      <4>2. r.err # OK
        BY <4>1, ErrorIsNotOK DEF ErrorsIn
      <4>3. c = r
        BY <2>2, <2>3, <4>2
      <4> QED BY <3>1, <4>3 DEF c
    <3> QED BY <3>1, <3>2, <3>3
  <2>4. CASE t.kind = "rparen"
    <3>1. c = [err |-> OK, end |-> t.end, cells |-> 1] /\ t.end \in 1 .. Len(s) /\ 1 \in Nat
      BY <2>1, <2>2, <2>4
    <3> QED BY <3>1 DEF CellsOK, c
  <2>5. CASE t.kind \notin {"comma", "rparen"}
    <3>1. Error(t.kind, PosAt(p, s, t.at)) \in ErrorsIn(s, p)
      BY <2>1 DEF ErrorsIn
    <3>2. c = [err |-> Error(t.kind, PosAt(p, s, t.at))]
      BY <2>2, <2>5
    <3> QED BY <3>1, <3>2 DEF CellsFail, c
  <2> QED BY <2>3, <2>4, <2>5
<1>4. ASSUME NEW g, NEW h, NEW j \in D, \A k \in D : k > j => g[k] = h[k]
      PROVE  CellsFrom(s, p, g, j) = CellsFrom(s, p, h, j)
  <2> DEFINE t == BehindCell(s, j)
  <2>1. t.kind \in {"comma", "rparen"} => t.end \in D /\ t.end > j
    BY <1>2
  <2> HIDE DEF D, V, t
  <2>2. t.kind = "comma" => g[t.end] = h[t.end]
    BY <1>4, <2>1
  <2>3. CASE t.kind = "comma" /\ g[t.end].err = OK
    BY <2>2, <2>3, CellsStep DEF t
  <2>4. CASE t.kind = "comma" /\ g[t.end].err # OK
    BY <2>2, <2>4, CellsStep DEF t
  <2>5. CASE t.kind # "comma"
    BY <2>5, CellsStep DEF t
  <2> QED BY <2>3, <2>4, <2>5
<1>5. PICK g \in [D -> V] : Phi[g] = g
  <2>1. V # {}
    <3>1. Len(s) \in D /\ \A k \in D : ~(k > Len(s))
      BY <1>1
    <3> HIDE DEF V, D
    <3> QED BY <1>3, <3>1
  <2>2. Ranked(rank, Len(s) + 1, D)
    BY <1>1 DEF Ranked
  <2>3. Phi \in [[D -> V] -> [D -> V]]
    <3> HIDE DEF D, V
    <3> QED BY <1>3
  <2>4. ASSUME NEW g \in [D -> V], NEW h \in [D -> V], NEW d \in D,
               \A e \in D : rank[e] < rank[d] => g[e] = h[e]
        PROVE  Phi[g][d] = Phi[h][d]
    <3>1. \A k \in D : k > d => g[k] = h[k]
      BY <1>1, <2>4
    <3> HIDE DEF D, V
    <3> QED BY <1>4, <3>1
  <2> HIDE DEF Phi, rank, V, D
  <2>5. LooksBelow(Phi, rank, D, V)
    BY <2>3, <2>4 DEF LooksBelow
  <2> QED BY <2>1, <2>2, <2>5, FixedPoint
<1>6. g = [j \in D |-> CellsFrom(s, p, g, j)]
  <2> HIDE DEF D, V
  <2> QED BY <1>5
<1> DEFINE f == CHOOSE f : f = [j \in D |-> CellsFrom(s, p, f, j)]
<1>7. f = [j \in D |-> CellsFrom(s, p, f, j)]
  <2> HIDE DEF D, V
  <2> QED BY <1>6
<1>8. \A j \in D : Cells(s, p, j) = f[j]
  BY DEF Cells
<1> HIDE DEF f
<1>9. \A j \in D : f[j] = CellsFrom(s, p, f, j)
  <2> HIDE DEF D
  <2> QED BY <1>7
<1>10. \A j \in D : f[j] \in V
  <2> DEFINE S == {j \in D : f[j] \in V}
             hi == Len(s)
  <2>1. ASSUME NEW j \in D, \A k \in j + 1 .. Len(s) : k \in S
        PROVE  j \in S
    <3>1. \A k \in D : k > j => f[k] \in V
      BY <1>1, <2>1
    <3> HIDE DEF D, V
    <3> QED BY <1>3, <1>9, <3>1
  <2> HIDE DEF S, V
  <2>2. \A j \in 0 .. hi : (\A k \in j + 1 .. hi : k \in S) => j \in S
    BY <2>1
  <2>3. 0 \in Nat /\ hi \in Nat
    OBVIOUS
  <2> HIDE DEF hi
  <2>4. \A j \in 0 .. hi : j \in S
    BY <2>2, <2>3, DownInduction
  <2> QED BY <2>4 DEF S, hi
<1>11. f \in [D -> V]
  <2> HIDE DEF D, V
  <2> QED BY <1>7, <1>10
<1> QED BY <1>8, <1>9, <1>11
\* What comes of the cells, by the token behind the first.
LEMMA CellsEquation ==
  ASSUME NEW s \in Seq(Bytes), NEW p, NEW j \in 0 .. Len(s)
  PROVE  LET t == BehindCell(s, j)
             c == Cells(s, p, j)
             r == Cells(s, p, t.end)
         IN /\ c \in CellsOK(s) \cup CellsFail(s, p)
            /\ t.kind = "comma" /\ r.err = OK => c = [r EXCEPT !.cells = @ + 1]
            /\ t.kind = "comma" /\ r.err # OK => c = r
            /\ t.kind = "rparen" => c = [err |-> OK, end |-> t.end, cells |-> 1]
            /\ t.kind \notin {"comma", "rparen"} =>
                 c = [err |-> Error(t.kind, PosAt(p, s, t.at))]
<1> DEFINE t == BehindCell(s, j)
<1>1. PICK f \in [0 .. Len(s) -> CellsOK(s) \cup CellsFail(s, p)] :
        \A k \in 0 .. Len(s) : f[k] = CellsFrom(s, p, f, k) /\ Cells(s, p, k) = f[k]
  BY CellsUnfold
<1>2. t.kind = "comma" => t.end \in 0 .. Len(s)
  <2>1. t.kind # "eof" => t.end \in j + 1 .. Len(s)
    BY BehindCellBounds
  <2> HIDE DEF t
  <2>2. t.kind = "comma" => t.end \in j + 1 .. Len(s)
    BY <2>1
  <2> QED BY <2>2
<1>3. Cells(s, p, j) = CellsFrom(s, p, f, j) /\ Cells(s, p, j) \in CellsOK(s) \cup CellsFail(s, p)
  BY <1>1
<1>4. t.kind = "comma" => f[t.end] = Cells(s, p, t.end)
  <2> HIDE DEF t
  <2> QED BY <1>1, <1>2
<1>5. /\ t.kind = "comma" /\ f[t.end].err = OK => Cells(s, p, j) = [f[t.end] EXCEPT !.cells = @ + 1]
      /\ t.kind = "comma" /\ f[t.end].err # OK => Cells(s, p, j) = f[t.end]
      /\ t.kind = "rparen" => Cells(s, p, j) = [err |-> OK, end |-> t.end, cells |-> 1]
      /\ t.kind \notin {"comma", "rparen"} =>
           Cells(s, p, j) = [err |-> Error(t.kind, PosAt(p, s, t.at))]
  BY <1>3, CellsStep
<1> HIDE DEF t
<1> QED BY <1>3, <1>4, <1>5 DEF t

\* A row whose cells begin at j ends behind j.
LEMMA CellsBounds ==
  ASSUME NEW s \in Seq(Bytes), NEW p, NEW j \in 0 .. Len(s)
  PROVE  \/ \E e \in j + 1 .. Len(s), n \in Nat : Cells(s, p, j) = [err |-> OK, end |-> e, cells |-> n]
         \/ /\ Cells(s, p, j) \in CellsFail(s, p)
            /\ Cells(s, p, j).err # OK /\ Cells(s, p, j).err \in ErrorsIn(s, p)
<1> DEFINE G(i) == \E e \in i + 1 .. Len(s), n \in Nat :
                      Cells(s, p, i) = [err |-> OK, end |-> e, cells |-> n]
           S == {i \in 0 .. Len(s) : Cells(s, p, i) \in CellsFail(s, p) \/ G(i)}
           hi == Len(s)
<1>1. ASSUME NEW i \in 0 .. Len(s), \A k \in i + 1 .. Len(s) : k \in S
      PROVE  i \in S
  <2> DEFINE t == BehindCell(s, i)
             c == Cells(s, p, i)
             r == Cells(s, p, t.end)
  <2>1. /\ c \in CellsOK(s) \cup CellsFail(s, p)
        /\ t.kind = "comma" /\ r.err = OK => c = [r EXCEPT !.cells = @ + 1]
        /\ t.kind = "comma" /\ r.err # OK => c = r
        /\ t.kind = "rparen" => c = [err |-> OK, end |-> t.end, cells |-> 1]
        /\ t.kind \notin {"comma", "rparen"} => c = [err |-> Error(t.kind, PosAt(p, s, t.at))]
    BY CellsEquation
  <2>2. t.kind \in {"comma", "rparen"} => t.end \in i + 1 .. Len(s)
    <3>1. t.kind # "eof" => t.end \in i + 1 .. Len(s)
      BY BehindCellBounds
    <3> HIDE DEF t
    <3> QED BY <3>1
  <2>3. CASE t.kind = "comma"
    <3>1. t.end \in i + 1 .. Len(s) /\ t.end \in S
      <4> HIDE DEF t, S
      <4> QED BY <1>1, <2>2, <2>3
    <3>2. CASE r \in CellsFail(s, p)
      <4>1. r.err # OK
        <5> HIDE DEF r
        <5> QED BY <3>2, ErrorIsNotOK DEF CellsFail, ErrorsIn
      <4>2. c \in CellsFail(s, p)
        <5> HIDE DEF r, c, t
        <5> QED BY <2>1, <2>3, <3>2, <4>1
      <4> QED BY <4>2
    <3>3. CASE G(t.end)
      <4>1. PICK e \in t.end + 1 .. Len(s), n \in Nat : r = [err |-> OK, end |-> e, cells |-> n]
        BY <3>3
      <4>2. e \in i + 1 .. Len(s)
        <5> HIDE DEF t
        <5> QED BY <3>1
      <4>3. r.err = OK /\ [r EXCEPT !.cells = @ + 1] = [err |-> OK, end |-> e, cells |-> n + 1]
        <5> HIDE DEF r
        <5> QED BY <4>1
      <4>4. c = [err |-> OK, end |-> e, cells |-> n + 1] /\ n + 1 \in Nat
        <5> HIDE DEF r, c, t
        <5> QED BY <2>1, <2>3, <4>3
      <4> QED BY <4>2, <4>4
    <3> QED BY <3>1, <3>2, <3>3
  <2>4. CASE t.kind = "rparen"
    <3>1. c = [err |-> OK, end |-> t.end, cells |-> 1] /\ t.end \in i + 1 .. Len(s) /\ 1 \in Nat
      <4> HIDE DEF c, t
      <4> QED BY <2>1, <2>2, <2>4
    <3> QED BY <3>1
  <2>5. CASE t.kind \notin {"comma", "rparen"}
    <3>1. t.kind \in Kinds /\ t.at \in i .. Len(s)
      BY BehindCellBounds DEF TokensFrom
    <3>2. t.at \in 0 .. Len(s)
      <4> HIDE DEF t
      <4> QED BY <3>1
    <3>3. c = [err |-> Error(t.kind, PosAt(p, s, t.at))]
      <4> HIDE DEF c, t
      <4> QED BY <2>1, <2>5
    <3>4. Error(t.kind, PosAt(p, s, t.at)) \in ErrorsIn(s, p)
      <4> HIDE DEF t
      <4> QED BY <3>1, <3>2 DEF ErrorsIn
    <3>5. c \in CellsFail(s, p)
      <4> HIDE DEF c, t
      <4> QED BY <3>3, <3>4 DEF CellsFail
    <3> QED BY <3>5
  <2> QED BY <2>3, <2>4, <2>5
<1>2. 0 \in Nat /\ hi \in Nat /\ \A i \in 0 .. hi : (\A k \in i + 1 .. hi : k \in S) => i \in S
  <2> HIDE DEF S
  <2> QED BY <1>1
<1>3. \A i \in 0 .. hi : i \in S
  <2> HIDE DEF S, hi
  <2> QED BY <1>2, DownInduction
<1>4. CASE G(j)
  BY <1>4
<1>5. CASE Cells(s, p, j) \in CellsFail(s, p)
  <2>1. PICK e \in ErrorsIn(s, p) : Cells(s, p, j) = [err |-> e]
    BY <1>5 DEF CellsFail
  <2>2. e # OK
    BY <2>1, ErrorIsNotOK DEF ErrorsIn
  <2> QED BY <1>5, <2>1, <2>2
<1> QED BY <1>3, <1>4, <1>5
\* The row parser's errors stand at tokens of the row.
LEMMA ErrorInText ==
  ASSUME NEW s, NEW p, NEW w \in {"arity", "beside"}, NEW k \in 0 .. Len(s)
  PROVE  Error(w, PosAt(p, s, k)) \in ErrorsIn(s, p)
<1>1. w \in Kinds \cup {"arity", "beside"}
  OBVIOUS
<1> QED BY <1>1 DEF ErrorsIn

\* ParseDatasetRow at an offset: the row from its "(" to its ")", or an error.
LEMMA RowAtFacts ==
  ASSUME NEW s \in Seq(Bytes), NEW p, NEW j \in 0 .. Len(s)
  PROVE  LET r == RowAt(s, p, j)
             o == Ahead(s, j)
         IN \/ /\ o.kind = "lparen" /\ r.err = OK /\ r.end \in j + 1 .. Len(s)
               /\ r.row = [pos |-> PosAt(p, s, o.at), text |-> Text(s, o.at, r.end)]
               /\ Cells(s, p, o.end).err = OK /\ Cells(s, p, o.end).end = r.end
            \/ r.err # OK /\ r.err \in ErrorsIn(s, p)
<1> DEFINE r == RowAt(s, p, j)
           o == Ahead(s, j)
           c == Cells(s, p, o.end)
           done == [err |-> OK, end |-> c.end,
                    row |-> [pos |-> PosAt(p, s, o.at), text |-> Text(s, o.at, c.end)]]
<1>1. o \in TokensFrom(s, j) /\ (o.kind # "eof" => o.end \in j + 1 .. Len(s))
  BY AheadBounds
<1>2. o.at \in 0 .. Len(s) /\ Len(s) \in Nat
  <2> HIDE DEF o
  <2>1. o.at \in j .. Len(s)
    BY <1>1 DEF TokensFrom
  <2> QED BY <2>1
<1>3. CASE o.kind # "lparen"
  <2>1. r = [err |-> Error("beside", PosAt(p, s, o.at))]
    BY <1>3 DEF RowAt, RowOf, Beside
  <2>2. Error("beside", PosAt(p, s, o.at)) \in ErrorsIn(s, p)
    <3> HIDE DEF o
    <3> QED BY <1>2, ErrorInText
  <2> HIDE DEF r, o
  <2>3. r.err = Error("beside", PosAt(p, s, o.at))
    BY <2>1
  <2>4. r.err # OK /\ r.err \in ErrorsIn(s, p)
    BY <2>2, <2>3, ErrorIsNotOK
  <2> QED BY <2>4 DEF r
<1>4. CASE o.kind = "lparen"
  <2>1. o.end \in j + 1 .. Len(s)
    <3> HIDE DEF o
    <3> QED BY <1>1, <1>4
  <2>2. o.end \in 0 .. Len(s)
    <3> HIDE DEF o
    <3> QED BY <2>1
  <2>3. \/ \E e \in o.end + 1 .. Len(s), n \in Nat : c = [err |-> OK, end |-> e, cells |-> n]
        \/ c.err # OK /\ c.err \in ErrorsIn(s, p)
    <3> HIDE DEF o
    <3> QED BY <2>2, CellsBounds
  <2>4. r = IF c.err # OK THEN c
            ELSE IF c.cells # Columns THEN [err |-> Error("arity", PosAt(p, s, o.at))]
            ELSE done
    BY <1>4 DEF RowAt, RowOf, TableRow
  <2>5. CASE c.err # OK /\ c.err \in ErrorsIn(s, p)
    <3>1. r = c
      <4> HIDE DEF r, c, done
      <4> QED BY <2>4, <2>5
    <3> HIDE DEF r, c
    <3> QED BY <2>5, <3>1 DEF r
  <2>6. CASE \E e \in o.end + 1 .. Len(s), n \in Nat : c = [err |-> OK, end |-> e, cells |-> n]
    <3>1. c.err = OK /\ c.end \in o.end + 1 .. Len(s)
      <4> HIDE DEF c, o
      <4> QED BY <2>6
    <3>2. CASE c.cells # Columns
      <4> HIDE DEF o, c, done, r
      <4>1. r = [err |-> Error("arity", PosAt(p, s, o.at))]
        BY <2>4, <3>1, <3>2
      <4>2. Error("arity", PosAt(p, s, o.at)) \in ErrorsIn(s, p)
        BY <1>2, ErrorInText
      <4>3. r.err = Error("arity", PosAt(p, s, o.at))
        BY <4>1
      <4> QED BY <4>2, <4>3, ErrorIsNotOK DEF r
    <3>3. CASE c.cells = Columns
      <4>1. r = done
        <5> HIDE DEF o, c, done, r
        <5> QED BY <2>4, <3>1, <3>3
      <4> DEFINE x == [pos |-> PosAt(p, s, o.at), text |-> Text(s, o.at, c.end)]
                 y == c.end
      <4>2. r = [err |-> OK, end |-> y, row |-> x]
        BY <4>1
      <4> HIDE DEF r, o, c, x, y
      <4>3. r.err = OK /\ r.end = y /\ r.row = x
        BY <4>2
      <4>4. r.end \in j + 1 .. Len(s)
        BY <1>2, <2>1, <3>1, <4>3 DEF y
      <4> QED BY <1>4, <3>1, <4>3, <4>4 DEF r, o, c, x, y
    <3> QED BY <3>2, <3>3
  <2> QED BY <2>3, <2>5, <2>6
<1> QED BY <1>3, <1>4
-----------------------------------------------------------------------------
(***************************************************************************)
(* The buffer.                                                             *)
(***************************************************************************)
\* pending_ is the part of the text between what was consumed and what the
\* source has handed over; the scan stands in it, and the source is asked for
\* more only before its end.
Buffered ==
  /\ doc \in Seq(Bytes)
  /\ taken \in 0 .. Len(doc) /\ base.offset \in 0 .. taken
  /\ pending = Text(doc, base.offset, taken)
  /\ scanPos \in 0 .. Len(pending) /\ rowStart \in Int
  /\ pc \in {"idle", "resume", "scan", "pull"}
  /\ pc = "pull" => ~srcEof

\* What is buffered is a text.
LEMMA PendingText ==
  ASSUME Buffered
  PROVE  /\ pending \in Seq(Bytes) /\ Len(pending) = taken - base.offset
         /\ Len(pending) \in Nat /\ Len(doc) \in Nat /\ taken \in Nat /\ base.offset \in Nat
         /\ taken <= Len(doc) /\ base.offset <= taken /\ scanPos \in 0 .. Len(pending)
<1>1. Len(doc) \in Nat /\ taken \in Nat /\ base.offset \in Nat
      /\ taken <= Len(doc) /\ base.offset <= taken
  BY DEF Buffered
<1>2. pending \in Seq(Bytes) /\ Len(pending) = taken - base.offset
  BY <1>1, TextFacts DEF Buffered
<1> QED BY <1>1, <1>2 DEF Buffered

\* A reader begins with what the header's parser has read.
LEMMA BufferedInit == Init => Buffered
<1> SUFFICES ASSUME Init PROVE Buffered
  OBVIOUS
<1> DEFINE m == Min({PullSize - 1, MaxMessageSize, Len(doc)})
<1>1. doc \in Seq(Bytes) /\ Len(doc) \in Nat
  BY DocumentsAssumption DEF Init
<1>2. m \in Nat /\ m <= Len(doc)
  <2> DEFINE A == {PullSize - 1, MaxMessageSize, Len(doc)}
  <2>1. A \in SUBSET Nat /\ A # {} /\ Len(doc) \in A
    BY <1>1, ReaderSizesAssumption
  <2> HIDE DEF A
  <2>2. Min(A) \in A /\ Min(A) <= Len(doc)
    BY <2>1, MinIsLeast
  <2> QED BY <2>1, <2>2 DEF A
<1>3. taken \in 0 .. m /\ base.offset = 0 /\ pending = Text(doc, 0, taken)
  BY DEF Init, Start
<1> HIDE DEF m
<1>4. taken \in 0 .. Len(doc) /\ taken \in Nat
  BY <1>1, <1>2, <1>3
<1>5. Len(pending) = taken - 0
  BY <1>1, <1>3, <1>4, TextFacts
<1>6. 0 \in 0 .. Len(pending) /\ 0 \in 0 .. taken
  BY <1>4, <1>5
<1>7. scanPos = 0 /\ rowStart = -1 /\ pc = "idle"
  BY DEF Init
<1> QED BY <1>1, <1>3, <1>4, <1>6, <1>7 DEF Buffered

\* Consume drops bytes at the front of the buffer, and the position of its
\* first byte moves on by as many.
LEMMA ConsumeKeeps ==
  ASSUME Buffered, NEW n \in 0 .. Len(pending), NEW scan \in 0 .. Len(pending), NEW row \in Int,
         Consume(n, scan, row), UNCHANGED <<doc, taken>>
  PROVE  /\ base'.offset = base.offset + n
         /\ base'.offset \in 0 .. taken
         /\ pending' = Text(doc, base'.offset, taken)
         /\ scanPos' \in 0 .. Len(pending') /\ rowStart' \in Int
<1>1. /\ pending \in Seq(Bytes) /\ Len(pending) = taken - base.offset
      /\ Len(pending) \in Nat /\ Len(doc) \in Nat /\ taken \in Nat /\ base.offset \in Nat
      /\ taken <= Len(doc) /\ base.offset <= taken
  BY PendingText
<1>2. base'.offset = base.offset + n
  BY DEF Consume, PosAt
<1>3. n \in Nat /\ n <= taken - base.offset /\ base.offset + n \in 0 .. taken
  BY <1>1
<1>4. pending' = Text(pending, n, Len(pending))
  BY DEF Consume, Text
<1>5. Text(pending, n, taken - base.offset) = Text(doc, base.offset + n, base.offset + (taken - base.offset))
  <2>1. pending = Text(doc, base.offset, taken)
    BY DEF Buffered
  <2>2. doc \in Seq(Bytes) /\ taken - base.offset \in Nat /\ taken - base.offset <= taken - base.offset
    BY <1>1 DEF Buffered
  <2> DEFINE o == base.offset
             w == taken - base.offset
  <2>3. o \in Nat /\ w \in Nat /\ n <= w /\ w <= taken - o /\ o <= taken
    BY <1>1, <1>3, <2>2
  <2>4. pending = Text(doc, o, taken)
    BY <2>1
  <2> HIDE DEF o, w
  <2>5. Text(Text(doc, o, taken), n, w) = Text(doc, o + n, o + w)
    BY <1>1, <1>3, <2>2, <2>3, TextOfText
  <2> QED BY <2>4, <2>5 DEF o, w
<1>6. base.offset + (taken - base.offset) = taken
  BY <1>1
<1>7. pending' = Text(doc, base'.offset, taken)
  BY <1>1, <1>2, <1>4, <1>5, <1>6
<1>8. Len(pending') = Len(pending) - n
  <2>1. n <= Len(pending) /\ Len(pending) <= Len(pending)
    BY <1>1
  <2> QED BY <1>1, <1>3, <1>4, <2>1, TextFacts
<1>9. scanPos' \in 0 .. Len(pending')
  <2>1. scanPos' = Max({scan - n, 0}) /\ scan - n \in Int /\ 0 \in Int
    BY <1>3 DEF Consume
  <2>2. scanPos' = IF scan - n >= 0 THEN scan - n ELSE 0
    BY <2>1, MaxOfTwo
  <2> QED BY <1>1, <1>3, <1>8, <2>2
<1>10. rowStart' \in Int
  BY <1>3 DEF Consume
<1> QED BY <1>2, <1>3, <1>7, <1>9, <1>10
\* The token the scan stands at, in the buffer.
LEMMA ScanToken ==
  ASSUME Buffered, NEW t, t = Lex(pending, scanPos)
  PROVE  /\ t.at \in scanPos .. Len(pending) /\ t.end \in scanPos .. Len(pending)
         /\ t.at \in 0 .. Len(pending) /\ t.end \in 0 .. Len(pending)
         /\ t.kind # "eof" => t.end > scanPos
         /\ scanPos \in Nat
<1>1. pending \in Seq(Bytes) /\ scanPos \in 0 .. Len(pending) /\ Len(pending) \in Nat
  BY PendingText
<1>2. /\ Lex(pending, scanPos).at \in scanPos .. Len(pending)
      /\ Lex(pending, scanPos).end \in scanPos .. Len(pending)
      /\ Lex(pending, scanPos).kind # "eof" => Lex(pending, scanPos).end > scanPos
  BY <1>1, LexBounds
<1>3. /\ t.at \in scanPos .. Len(pending) /\ t.end \in scanPos .. Len(pending)
      /\ t.kind # "eof" => t.end > scanPos
  BY <1>2
<1> QED BY <1>1, <1>3

\* How far the reading is: what is left to consume, to read, to scan, and of
\* the call.
ToRead == Len(doc) - taken + (IF srcEof THEN 0 ELSE 1)
PcRank == [idle |-> 4, resume |-> 3, scan |-> 2, pull |-> 1][pc]

\* A step that gets nearer to the end, or is the last.
Nearer ==
  \/ finished' \/ err' # OK
  \/ base'.offset > base.offset
  \/ base'.offset = base.offset /\ ToRead' < ToRead
  \/ /\ base'.offset = base.offset /\ ToRead' = ToRead
     /\ Len(pending') - scanPos' < Len(pending) - scanPos
  \/ /\ base'.offset = base.offset /\ ToRead' = ToRead
     /\ Len(pending') - scanPos' = Len(pending) - scanPos
     /\ PcRank' < PcRank

\* The parts of a call in order.
LEMMA PcRanks ==
  /\ pc = "idle" => PcRank = 4
  /\ pc = "resume" => PcRank = 3
  /\ pc = "scan" => PcRank = 2
  /\ pc = "pull" => PcRank = 1
BY DEF PcRank

\* Next's fast path consumes a row; without one the call goes on.
LEMMA NextNearer ==
  ASSUME Buffered, Next
  PROVE  Buffered' /\ Nearer
<1> DEFINE r == ParseRow(pending, base)
<1>1. UNCHANGED <<doc, taken, srcEof, finished, err>> /\ pc = "idle"
  BY DEF Next
<1>2. CASE rowStart < 0 /\ r.err = OK
  <2>1. Consume(r.end, scanPos, rowStart) /\ UNCHANGED pc
    BY <1>2 DEF Next
  <2>2. pending \in Seq(Bytes) /\ 0 \in 0 .. Len(pending) /\ scanPos \in 0 .. Len(pending)
        /\ base.offset \in Nat
    BY PendingText
  <2>3. r.end \in 0 + 1 .. Len(pending)
    BY <1>2, <2>2, RowAtFacts DEF ParseRow
  <2>4. r.end \in 0 .. Len(pending) /\ rowStart \in Int /\ r.end > 0 /\ r.end \in Nat
    BY <2>2, <2>3 DEF Buffered
  <2> HIDE DEF r
  <2>5. /\ base'.offset = base.offset + r.end
        /\ base'.offset \in 0 .. taken
        /\ pending' = Text(doc, base'.offset, taken)
        /\ scanPos' \in 0 .. Len(pending') /\ rowStart' \in Int
    BY <1>1, <2>1, <2>2, <2>4, ConsumeKeeps
  <2>6. Buffered'
    BY <1>1, <2>1, <2>5 DEF Buffered
  <2>7. base'.offset > base.offset
    BY <2>2, <2>4, <2>5
  <2> QED BY <2>6, <2>7 DEF Nearer
<1>3. CASE ~(rowStart < 0 /\ r.err = OK)
  <2>1. pc' = "resume" /\ UNCHANGED <<rows, pending, base, scanVars>>
    BY <1>3 DEF Next
  <2>2. Buffered'
    BY <1>1, <2>1 DEF Buffered, scanVars
  <2>3. ToRead' = ToRead
    BY <1>1 DEF ToRead
  <2>4. PcRank' = 3 /\ PcRank = 4
    BY <1>1, <2>1 DEF PcRank
  <2>5. base' = base /\ pending' = pending /\ scanPos' = scanPos
    BY <2>1 DEF scanVars
  <2> QED BY <2>2, <2>3, <2>4, <2>5 DEF Nearer
<1> QED BY <1>2, <1>3

\* Resume goes to the scan, or to the source when it is not at its end.
LEMMA ResumeNearer ==
  ASSUME Buffered, Resume
  PROVE  Buffered' /\ Nearer
<1>1. /\ UNCHANGED <<doc, taken, scanPos, rowStart, srcEof, pending, base>>
      /\ pc = "resume" /\ ((pc' = "pull" /\ ~srcEof) \/ pc' = "scan")
  BY DEF Resume, NeedMore
<1>2. Buffered'
  BY <1>1 DEF Buffered
<1>3. ToRead' = ToRead
  BY <1>1 DEF ToRead
<1>4. PcRank = 3 /\ PcRank' \in {1, 2}
  BY <1>1 DEF PcRank
<1>5. PcRank' < PcRank
  BY <1>4
<1> QED BY <1>1, <1>2, <1>3, <1>5 DEF Nearer

\* A read hands over bytes, or is the last.
LEMMA PullNearer ==
  ASSUME Buffered, Pull
  PROVE  Buffered' /\ Nearer
<1>1. /\ Len(doc) \in Nat /\ taken \in Nat /\ base.offset \in Nat /\ taken <= Len(doc)
      /\ base.offset <= taken /\ pending \in Seq(Bytes) /\ Len(pending) \in Nat
      /\ Len(pending) = taken - base.offset /\ scanPos \in 0 .. Len(pending)
  BY PendingText
<1>2. ASSUME NEW n \in 1 .. Min({PullSize, Len(doc) - taken}), PullBytes(n)
      PROVE  Buffered' /\ Nearer
  <2>1. UNCHANGED <<doc, base, scanPos, rowStart, srcEof>> /\ taken' = taken + n
        /\ pending' = pending \o Text(doc, taken, taken + n)
        /\ (pc' = "idle" \/ pc' = "resume")
    BY <1>2 DEF PullBytes, Fail, scanVars
  <2>2. PullSize \in Int /\ Len(doc) - taken \in Int
    BY <1>1, ReaderSizesAssumption
  <2>3. n \in Nat /\ n >= 1 /\ n <= Len(doc) - taken
    BY <2>2, MinOfTwo
  <2>4. taken + n \in 0 .. Len(doc) /\ taken <= taken + n /\ taken + n <= Len(doc) /\ taken + n \in Nat
    BY <1>1, <2>3
  <2>5. doc \in Seq(Bytes) /\ pending = Text(doc, base.offset, taken)
    BY DEF Buffered
  <2>6. pending' = Text(doc, base.offset, taken + n)
    <3> DEFINE o == base.offset
               m == taken + n
    <3>1. o \in Nat /\ m \in Nat /\ o <= taken /\ taken <= m /\ m <= Len(doc)
      BY <1>1, <2>4
    <3>2. pending' = pending \o Text(doc, taken, m) /\ pending = Text(doc, o, taken)
      BY <2>1, <2>5
    <3> HIDE DEF o, m
    <3>3. doc \in Seq(Bytes) /\ taken \in Nat
      BY <1>1, <2>5
    <3>4. \A i, j, k \in Nat : i <= j /\ j <= k /\ k <= Len(doc)
            => Text(doc, i, j) \o Text(doc, j, k) = Text(doc, i, k)
      BY <3>3, TextConcat
    <3>5. Text(doc, o, taken) \o Text(doc, taken, m) = Text(doc, o, m)
      BY <3>1, <3>3, <3>4, Zenon
    <3> QED BY <3>2, <3>5 DEF o, m
  <2>7. Len(pending') = (taken + n) - base.offset
    <3>1. base.offset <= taken + n
      BY <1>1, <2>3
    <3> QED BY <1>1, <2>4, <2>5, <2>6, <3>1, TextFacts
  <2>8. Buffered'
    <3>1. scanPos' \in 0 .. Len(pending') /\ base'.offset \in 0 .. taken'
      BY <1>1, <2>1, <2>3, <2>7
    <3> QED BY <2>1, <2>4, <2>5, <2>6, <3>1 DEF Buffered
  <2>9. ToRead' < ToRead
    BY <1>1, <2>1, <2>3 DEF ToRead
  <2> QED BY <2>1, <2>8, <2>9 DEF Nearer
<1>3. CASE PullEof
  <2>1. /\ UNCHANGED <<doc, taken, pending, base, scanPos, rowStart>>
        /\ pc = "pull" /\ srcEof' /\ pc' = "resume"
    BY <1>3 DEF PullEof, scanVars
  <2>2. ~srcEof
    BY <2>1 DEF Buffered
  <2>3. Buffered'
    BY <2>1 DEF Buffered
  <2>4. ToRead' < ToRead
    BY <1>1, <2>1, <2>2 DEF ToRead
  <2> QED BY <2>1, <2>3, <2>4 DEF Nearer
<1>4. CASE PullFails
  <2>1. /\ UNCHANGED <<doc, taken, pending, base, scanPos, rowStart, srcEof>>
        /\ err' = Error("read", Start) /\ pc' = "idle"
    BY <1>4 DEF PullFails, Fail, scanVars
  <2>2. Buffered'
    BY <2>1 DEF Buffered
  <2>3. err' # OK
    BY <2>1, ErrorIsNotOK
  <2> QED BY <2>2, <2>3 DEF Nearer
<1> QED BY <1>2, <1>3, <1>4 DEF Pull

\* Each turn of ScanRow's loop passes a token, consumes a row, waits for bytes
\* at the token it stands at, or ends the reading.
LEMMA ScanNearer ==
  ASSUME Buffered, ScanRow
  PROVE  Buffered' /\ Nearer
<1>1. /\ Len(doc) \in Nat /\ taken \in Nat /\ base.offset \in Nat /\ taken <= Len(doc)
      /\ base.offset <= taken /\ pending \in Seq(Bytes) /\ Len(pending) \in Nat
      /\ scanPos \in 0 .. Len(pending) /\ 0 \in 0 .. Len(pending)
  BY PendingText
<1>2. PICK t \in {Lex(pending, scanPos)} :
        \/ BufferEnds(t)
        \/ t.kind # "eof" /\ (TakeToken(t) \/ RowEnds(t) \/ RowFails \/ DirectiveEnds \/ NotRow(t))
  BY DEF ScanRow
<1>3. /\ t.at \in scanPos .. Len(pending) /\ t.end \in scanPos .. Len(pending)
      /\ t.at \in 0 .. Len(pending) /\ t.end \in 0 .. Len(pending)
      /\ t.kind # "eof" => t.end > scanPos
      /\ scanPos \in Nat
  BY ScanToken
<1>4. UNCHANGED <<doc, taken, srcEof>> /\ pc = "scan"
  BY DEF ScanRow
<1>5. ToRead' = ToRead /\ PcRank = 2
  BY <1>4 DEF ToRead, PcRank
<1>6. doc \in Seq(Bytes) /\ taken \in 0 .. Len(doc) /\ base.offset \in 0 .. taken
      /\ pending = Text(doc, base.offset, taken) /\ rowStart \in Int
  BY DEF Buffered
<1>7. ASSUME RowFails PROVE Buffered' /\ Nearer
  <2> DEFINE r == ParseRow(pending, base)
             e == IF r.err = OK THEN Error("neither", base) ELSE r.err
  <2>1. err' = e /\ pc' = "idle" /\ UNCHANGED <<pending, base, scanPos, rowStart>>
    BY <1>7 DEF RowFails, Fail, scanVars
  <2>2. e # OK
    BY ErrorIsNotOK
  <2>3. Buffered'
    BY <1>4, <1>1, <1>6, <2>1 DEF Buffered
  <2> HIDE DEF e
  <2> QED BY <2>1, <2>2, <2>3 DEF Nearer
<1>8. CASE BufferEnds(t)
  <2>1. CASE /\ ~srcEof /\ scanPos' = t.at /\ pc' = "pull"
             /\ UNCHANGED <<pending, base, rowStart>>
    <3>1. Buffered'
      BY <1>1, <1>3, <1>4, <1>6, <2>1 DEF Buffered
    <3>2. PcRank' = 1
      BY <2>1 DEF PcRank
    <3>3. base' = base /\ pending' = pending /\ scanPos' = t.at
      BY <2>1
    <3>4. \/ Len(pending') - scanPos' < Len(pending) - scanPos
          \/ Len(pending') - scanPos' = Len(pending) - scanPos
      BY <1>1, <1>3, <3>3
    <3> QED BY <1>5, <3>1, <3>2, <3>3, <3>4 DEF Nearer
  <2>2. CASE RowFails
    BY <1>7, <2>2
  <2>3. CASE Consume(Len(pending), scanPos, rowStart) /\ finished' = TRUE /\ pc' = "idle"
    <3>1. Len(pending) \in 0 .. Len(pending)
      BY <1>1
    <3>2. /\ base'.offset \in 0 .. taken
          /\ pending' = Text(doc, base'.offset, taken)
          /\ scanPos' \in 0 .. Len(pending') /\ rowStart' \in Int
      BY <1>1, <1>4, <1>6, <2>3, <3>1, ConsumeKeeps
    <3>3. Buffered'
      BY <1>4, <1>6, <2>3, <3>2 DEF Buffered
    <3> QED BY <2>3, <3>3 DEF Nearer
  <2> QED BY <1>8, <2>1, <2>2, <2>3 DEF BufferEnds, NeedMore
<1>9. CASE t.kind # "eof" /\ TakeToken(t)
  <2>1. scanPos' = t.end /\ UNCHANGED <<pending, base, pc>> /\ rowStart' \in {t.at, rowStart}
    BY <1>9 DEF TakeToken
  <2>2. rowStart' \in Int
    BY <1>1, <1>3, <1>6, <2>1
  <2>3. Buffered'
    BY <1>1, <1>3, <1>4, <1>6, <2>1, <2>2 DEF Buffered
  <2>4. Len(pending') - scanPos' < Len(pending) - scanPos
    BY <1>1, <1>3, <1>9, <2>1
  <2> QED BY <1>5, <2>1, <2>3, <2>4 DEF Nearer
<1>10. CASE t.kind # "eof" /\ RowEnds(t)
  <2>1. Consume(t.end, t.end, -1) /\ pc' = "idle"
    BY <1>10 DEF RowEnds, Fail
  <2>2. /\ base'.offset = base.offset + t.end
        /\ base'.offset \in 0 .. taken
        /\ pending' = Text(doc, base'.offset, taken)
        /\ scanPos' \in 0 .. Len(pending') /\ rowStart' \in Int
    BY <1>3, <1>4, <2>1, ConsumeKeeps
  <2>3. base'.offset > base.offset
    BY <1>1, <1>3, <1>10, <2>2
  <2>4. Buffered'
    BY <1>4, <1>6, <2>1, <2>2 DEF Buffered
  <2> QED BY <2>3, <2>4 DEF Nearer
<1>11. CASE DirectiveEnds
  <2>1. finished' /\ pc' = "idle" /\ UNCHANGED <<pending, base, scanPos, rowStart>>
    BY <1>11 DEF DirectiveEnds, scanVars
  <2>2. Buffered'
    BY <1>1, <1>4, <1>6, <2>1 DEF Buffered
  <2> QED BY <2>1, <2>2 DEF Nearer
<1>12. CASE NotRow(t)
  <2>1. /\ err' = Error("beside", PosAt(base, pending, t.at)) /\ pc' = "idle"
        /\ UNCHANGED <<pending, base, scanPos, rowStart>>
    BY <1>12 DEF NotRow, Fail, Beside, scanVars
  <2>2. Buffered'
    BY <1>1, <1>4, <1>6, <2>1 DEF Buffered
  <2>3. err' # OK
    BY <2>1, ErrorIsNotOK
  <2> QED BY <2>2, <2>3 DEF Nearer
<1> QED BY <1>2, <1>7, <1>8, <1>9, <1>10, <1>11, <1>12
\* What is buffered is at every moment the stream from base_ on, as far as it
\* has been read.
LEMMA BufferedInv == Spec => []Buffered
<1>1. Init => Buffered
  BY BufferedInit
<1>2. Buffered /\ [Step]_vars => Buffered'
  <2> SUFFICES ASSUME Buffered, [Step]_vars PROVE Buffered'
    OBVIOUS
  <2>1. CASE NextAgain \/ UNCHANGED vars
    BY <2>1 DEF NextAgain, Buffered, vars, scanVars
  <2> QED BY <2>1, NextNearer, ResumeNearer, ScanNearer, PullNearer DEF Step
<1> QED BY <1>1, <1>2, PTL DEF Spec

\* Nearer in terms of what is left.
LEMMA NearerIsLess ==
  ASSUME Buffered, Buffered', Nearer, doc' = doc
  PROVE  \/ finished' \/ err' # OK
         \/ \E i \in DOMAIN Left : Left'[i] < Left[i] /\ \A j \in 1 .. i - 1 : Left'[j] = Left[j]
<1> DEFINE a == Len(doc) - base.offset
           b == ToRead
           c == Len(pending) - scanPos
           d == PcRank
<1>1. Left = <<a, b, c, d>> /\ Left' = <<a', b', c', d'>> /\ DOMAIN Left = 1 .. 4
  BY DEF Left, ToRead, PcRank
<1>2. Left[1] = a /\ Left[2] = b /\ Left[3] = c /\ Left[4] = d
  BY <1>1
<1>3. Left'[1] = a' /\ Left'[2] = b' /\ Left'[3] = c' /\ Left'[4] = d'
  BY <1>1
<1>4. Len(doc) \in Nat /\ base.offset \in Nat /\ base'.offset \in Nat
  <2>1. base.offset \in Nat /\ Len(doc) \in Nat
    BY PendingText
  <2>2. base'.offset \in 0 .. taken' /\ taken' \in 0 .. Len(doc)
    BY DEF Buffered
  <2> QED BY <2>1, <2>2
<1>5. /\ base'.offset > base.offset => a' < a
      /\ base'.offset = base.offset => a' = a
  BY <1>4
<1> HIDE DEF a, b, c, d
<1>6. \/ finished' \/ err' # OK
      \/ a' < a
      \/ a' = a /\ b' < b
      \/ a' = a /\ b' = b /\ c' < c
      \/ a' = a /\ b' = b /\ c' = c /\ d' < d
  BY <1>5 DEF Nearer, b, c, d
<1> DEFINE L == Left
           R == Left'
<1>7. L[1] = a /\ L[2] = b /\ L[3] = c /\ L[4] = d /\ DOMAIN L = 1 .. 4
      /\ R[1] = a' /\ R[2] = b' /\ R[3] = c' /\ R[4] = d'
  BY <1>1, <1>2, <1>3
<1> HIDE DEF L, R
<1>8. \/ finished' \/ err' # OK
      \/ \E i \in DOMAIN L : R[i] < L[i] /\ \A j \in 1 .. i - 1 : R[j] = L[j]
  <2>1. CASE a' < a
    <3>1. 1 \in DOMAIN L /\ R[1] < L[1] /\ \A j \in 1 .. 1 - 1 : R[j] = L[j]
      BY <1>7, <2>1
    <3> QED BY <3>1, Zenon
  <2>2. CASE a' = a /\ b' < b
    <3>1. 2 \in DOMAIN L /\ R[2] < L[2] /\ \A j \in 1 .. 2 - 1 : R[j] = L[j]
      BY <1>7, <2>2
    <3> QED BY <3>1, Zenon
  <2>3. CASE a' = a /\ b' = b /\ c' < c
    <3>1. 3 \in DOMAIN L /\ R[3] < L[3] /\ \A j \in 1 .. 3 - 1 : R[j] = L[j]
      BY <1>7, <2>3
    <3> QED BY <3>1, Zenon
  <2>4. CASE a' = a /\ b' = b /\ c' = c /\ d' < d
    <3>1. 4 \in DOMAIN L /\ R[4] < L[4] /\ \A j \in 1 .. 4 - 1 : R[j] = L[j]
      BY <1>7, <2>4
    <3> QED BY <3>1, Zenon
  <2> QED BY <1>6, <2>1, <2>2, <2>3, <2>4
<1> QED BY <1>8 DEF L, R

\* No call of Next spins: every step gets on, and a reader that has ended or
\* failed takes none.  Whatever the bytes are and however they arrive, the
\* stream is read to its end or to an error (DatasetReader::Next).
THEOREM ReaderAdvances == Spec => Advances
<1>1. ASSUME Buffered, Buffered', OverIsIdle, [Step]_vars
      PROVE  [/\ err = OK /\ ~finished
              /\ \/ finished' \/ err' # OK
                 \/ \E i \in DOMAIN Left :
                      Left'[i] < Left[i] /\ \A j \in 1 .. i - 1 : Left'[j] = Left[j]]_vars
  <2>1. CASE NextAgain \/ UNCHANGED vars
    BY <2>1 DEF NextAgain
  <2>2. CASE Next \/ Resume \/ ScanRow \/ Pull
    <3>1. Nearer
      BY <1>1, <2>2, NextNearer, ResumeNearer, ScanNearer, PullNearer
    <3>2. err = OK /\ ~finished
      BY <1>1, <2>2 DEF OverIsIdle, Next, Resume, ScanRow, Pull, PullBytes, PullEof, PullFails
    <3>3. doc' = doc
      BY <2>2 DEF Next, Resume, ScanRow, Pull, PullBytes, PullEof, PullFails
    <3> QED BY <1>1, <3>1, <3>2, <3>3, NearerIsLess
  <2> QED BY <1>1, <2>1, <2>2 DEF Step
<1> QED BY <1>1, BufferedInv, OverIsIdleInv, PTL DEF Spec, Advances
=============================================================================
