--------------------------- MODULE PxfLexerProofs ---------------------------
(***************************************************************************)
(* What holds of the PXF lexer for every text.                             *)
(***************************************************************************)
EXTENDS PxfLexer, WellFoundedInduction, TLAPS

(***************************************************************************)
(* Induction, with the property as a set, and functions defined by         *)
(* recursion.                                                              *)
(***************************************************************************)

\* A nonempty set of natural numbers has a least element.
LEMMA LeastNat ==
  ASSUME NEW T \in SUBSET Nat, T # {}
  PROVE  \E x \in T : \A y \in T : x <= y
<1> DEFINE R == OpToRel(<, Nat)
<1>1. IsWellFoundedOn(R, Nat)
  BY NatLessThanWellFounded
<1>2. \A x, y \in Nat : <<y, x>> \in R <=> y < x
  BY DEF OpToRel
<1> HIDE DEF R
<1>3. PICK x \in T : \A y \in T : ~(<<y, x>> \in R)
  BY <1>1, WFMin
<1>4. ASSUME NEW y \in T PROVE x <= y
  <2>1. x \in Nat /\ y \in Nat /\ ~(y < x)
    BY <1>2, <1>3
  <2> QED BY <2>1
<1> QED BY <1>4

\* What holds of n when it holds below n holds of every natural number.
LEMMA StrongInduction ==
  ASSUME NEW S,
         \A n \in Nat : (\A k \in Nat : k < n => k \in S) => n \in S
  PROVE  \A n \in Nat : n \in S
<1> DEFINE T == {n \in Nat : n \notin S}
<1> SUFFICES ASSUME T # {} PROVE FALSE
  OBVIOUS
<1>1. PICK x \in T : \A y \in T : x <= y
  BY LeastNat
<1>2. x \in Nat /\ x \notin S
  OBVIOUS
<1>3. ASSUME NEW k \in Nat, k < x PROVE k \in S
  <2>1. k \in T => x <= k
    BY <1>1
  <2> QED BY <1>2, <1>3, <2>1
<1> QED BY <1>2, <1>3

\* What holds at an offset when it holds behind it, up to the end of a text,
\* holds at every offset.
LEMMA DownInduction ==
  ASSUME NEW lo \in Nat, NEW hi \in Nat, NEW S,
         \A j \in lo .. hi : (\A k \in j + 1 .. hi : k \in S) => j \in S
  PROVE  \A j \in lo .. hi : j \in S
<1> DEFINE U == {n \in Nat : n <= hi - lo => hi - n \in S}
<1>1. ASSUME NEW n \in Nat, \A k \in Nat : k < n => k \in U
      PROVE  n \in U
  <2> SUFFICES ASSUME n <= hi - lo PROVE hi - n \in S
    OBVIOUS
  <2>1. hi - n \in lo .. hi
    OBVIOUS
  <2>2. ASSUME NEW k \in (hi - n) + 1 .. hi PROVE k \in S
    <3>1. hi - k \in Nat /\ hi - k < n
      OBVIOUS
    <3>2. hi - k \in U
      BY <1>1, <3>1
    <3>3. hi - (hi - k) \in S
      BY <3>1, <3>2
    <3>4. hi - (hi - k) = k
      OBVIOUS
    <3> QED BY <3>3, <3>4
  <2> QED BY <2>1, <2>2
<1>2. \A n \in Nat : n \in U
  <2> HIDE DEF U
  <2> QED BY <1>1, StrongInduction
<1> SUFFICES ASSUME NEW j \in lo .. hi PROVE j \in S
  OBVIOUS
<1>3. hi - j \in Nat /\ hi - j <= hi - lo /\ hi - (hi - j) = j
  OBVIOUS
<1>4. hi - (hi - j) \in S
  BY <1>2, <1>3
<1> QED BY <1>3, <1>4

\* Every argument of D has a rank below N, and what Phi returns at d depends on
\* its argument at smaller ranks only.
Ranked(rank, N, D) == rank \in [D -> Nat] /\ N \in Nat /\ \A d \in D : rank[d] < N
LooksBelow(Phi, rank, D, V) ==
  /\ Phi \in [[D -> V] -> [D -> V]]
  /\ \A g, h \in [D -> V] : \A d \in D :
       (\A e \in D : rank[e] < rank[d] => g[e] = h[e]) => Phi[g][d] = Phi[h][d]

\* A functional that looks below has a fixed point: a function defined by
\* recursion exists.
LEMMA FixedPoint ==
  ASSUME NEW D, NEW V, V # {}, NEW rank, NEW N, Ranked(rank, N, D),
         NEW Phi, LooksBelow(Phi, rank, D, V)
  PROVE  \E g \in [D -> V] : Phi[g] = g
<1> USE DEF Ranked, LooksBelow
<1> DEFINE P(n) == \E g \in [D -> V] : \A d \in D : rank[d] < n => Phi[g][d] = g[d]
           S == {n \in Nat : P(n)}
<1>1. P(0)
  <2>1. PICK v \in V : TRUE
    OBVIOUS
  <2>2. [d \in D |-> v] \in [D -> V]
    BY <2>1
  <2>3. \A d \in D : ~(rank[d] < 0)
    OBVIOUS
  <2> QED BY <2>2, <2>3
<1>2. ASSUME NEW n \in Nat, P(n) PROVE P(n + 1)
  <2>1. PICK g \in [D -> V] : \A d \in D : rank[d] < n => Phi[g][d] = g[d]
    BY <1>2
  <2> DEFINE h == Phi[g]
  <2>2. h \in [D -> V]
    OBVIOUS
  <2>3. ASSUME NEW d \in D, rank[d] < n + 1 PROVE Phi[h][d] = h[d]
    <3>1. \A e \in D : rank[e] < rank[d] => h[e] = g[e]
      <4> SUFFICES ASSUME NEW e \in D, rank[e] < rank[d] PROVE h[e] = g[e]
        OBVIOUS
      <4>1. rank[e] \in Nat /\ rank[d] \in Nat
        OBVIOUS
      <4>2. rank[e] < n
        BY <4>1, <2>3
      <4> QED BY <2>1, <4>2
    <3> HIDE DEF h
    <3>2. Phi[h][d] = Phi[g][d]
      BY <2>2, <3>1
    <3> QED BY <3>2 DEF h
  <2> HIDE DEF h
  <2> QED BY <2>2, <2>3
<1>3. \A n \in Nat : n \in S
  <2>1. ASSUME NEW n \in Nat, \A k \in Nat : k < n => k \in S
        PROVE  n \in S
    <3>1. CASE n = 0
      BY <1>1, <3>1
    <3>2. CASE n # 0
      <4>1. n - 1 \in Nat /\ n - 1 < n /\ (n - 1) + 1 = n
        BY <3>2
      <4>2. P(n - 1)
        BY <2>1, <4>1
      <4> HIDE DEF P
      <4>3. P((n - 1) + 1)
        BY <1>2, <4>1, <4>2
      <4> QED BY <4>1, <4>3
    <3> QED BY <3>1, <3>2
  <2> HIDE DEF S
  <2> QED BY <2>1, StrongInduction
<1>4. PICK g \in [D -> V] : \A d \in D : rank[d] < N => Phi[g][d] = g[d]
  BY <1>3
<1>5. \A d \in D : Phi[g][d] = g[d]
  BY <1>4
<1>6. Phi[g] \in [D -> V]
  OBVIOUS
<1>7. Phi[g] = g
  BY <1>5, <1>6
<1> QED BY <1>7
-----------------------------------------------------------------------------
(***************************************************************************)
(* Offsets.                                                                *)
(***************************************************************************)

\* Min is the least element of a nonempty set of offsets.
LEMMA MinIsLeast ==
  ASSUME NEW A \in SUBSET Nat, A # {}
  PROVE  Min(A) \in A /\ \A x \in A : Min(A) <= x
BY LeastNat DEF Min

\* It is the only one.
LEMMA MinUnique ==
  ASSUME NEW A \in SUBSET Nat, NEW m \in A, \A x \in A : m <= x
  PROVE  Min(A) = m
<1>1. Min(A) \in A /\ Min(A) <= m
  BY MinIsLeast
<1>2. Min(A) \in Nat /\ m \in Nat /\ m <= Min(A)
  BY <1>1
<1> QED BY <1>1, <1>2

\* The larger of two numbers.
LEMMA MaxOfTwo ==
  ASSUME NEW a \in Int, NEW b \in Int
  PROVE  Max({a, b}) = IF a >= b THEN a ELSE b
<1> DEFINE m == IF a >= b THEN a ELSE b
<1>1. m \in {a, b} /\ \A y \in {a, b} : m >= y
  OBVIOUS
<1>2. \A x \in {a, b} : (\A y \in {a, b} : x >= y) => x = m
  OBVIOUS
<1> QED BY <1>1, <1>2 DEF Max

\* The smaller of two numbers.
LEMMA MinOfTwo ==
  ASSUME NEW a \in Int, NEW b \in Int
  PROVE  Min({a, b}) = IF a <= b THEN a ELSE b
<1> DEFINE m == IF a <= b THEN a ELSE b
<1>1. m \in {a, b} /\ \A y \in {a, b} : m <= y
  OBVIOUS
<1>2. \A x \in {a, b} : (\A y \in {a, b} : x <= y) => x = m
  OBVIOUS
<1> QED BY <1>1, <1>2 DEF Min

\* A byte that is read is there.
LEMMA PeekInText ==
  ASSUME NEW s \in Seq(Bytes), NEW k \in Nat
  PROVE  /\ Peek(s, k) # "NUL" => k < Len(s)
         /\ k >= Len(s) => Peek(s, k) = "NUL"
BY DEF Peek

\* A run of bytes of C ends at the first byte not of C, or with the text.
LEMMA RunEndFacts ==
  ASSUME NEW s \in Seq(Bytes), NEW i \in Nat, i <= Len(s), NEW C
  PROVE  /\ RunEnd(s, i, C) \in i .. Len(s)
         /\ \A k \in i .. RunEnd(s, i, C) - 1 : Peek(s, k) \in C
         /\ RunEnd(s, i, C) < Len(s) => Peek(s, RunEnd(s, i, C)) \notin C
<1> DEFINE A == {j \in i .. Len(s) - 1 : Peek(s, j) \notin C}
<1>1. Len(s) \in Nat /\ Max({i, Len(s)}) = Len(s)
  BY MaxOfTwo
<1>2. RunEnd(s, i, C) = IF A = {} THEN Len(s) ELSE Min(A)
  BY <1>1 DEF RunEnd, First
<1>3. A \in SUBSET Nat
  BY <1>1
<1>4. CASE A = {}
  BY <1>1, <1>2, <1>4
<1>5. CASE A # {}
  <2>1. Min(A) \in A /\ \A x \in A : Min(A) <= x
    BY <1>3, <1>5, MinIsLeast
  <2> DEFINE m == Min(A)
  <2>2. m \in i .. Len(s) - 1 /\ Peek(s, m) \notin C
    BY <2>1
  <2>3. \A k \in i .. m - 1 : Peek(s, k) \in C
    BY <1>1, <2>1, <2>2
  <2> QED BY <1>1, <1>2, <1>5, <2>2, <2>3
<1> QED BY <1>4, <1>5
-----------------------------------------------------------------------------
(***************************************************************************)
(* The extent of a token: it starts where its first byte stands, takes at  *)
(* least that byte and ends in the text.                                   *)
(***************************************************************************)
\* Which branch of Lexer::Next's dispatch on the first bytes is taken.
LEMMA Dispatch ==
  ASSUME NEW s \in Seq(Bytes), NEW i \in Nat, i < Len(s)
  PROVE  LET c == Peek(s, i)
             d == Peek(s, i + 1)
             e == Peek(s, i + 2)
             t == TokenAt(s, i)
         IN /\ c = "#" \/ (c = "/" /\ d = "/") => t = LexLineComment(s, i)
            /\ c = "/" /\ d = "*" => t = LexBlockComment(s, i)
            /\ c = "DQ" /\ d = "DQ" /\ e = "DQ" => t = LexTripleString(s, i)
            /\ c = "DQ" /\ ~(d = "DQ" /\ e = "DQ") => t = LexString(s, i)
            /\ c = "b" /\ d = "DQ" => t = LexBytes(s, i)
            /\ c \in {"NL", "(", ")", ",", "="} => t = Token(OneByteKind[c], i, i + 1)
            /\ c = "@" => t = LexDirective(s, i)
            /\ c \in Digits \cup {"+", "-"} => t = LexNumber(s, i)
            /\ c \in IdentStart /\ ~(c = "b" /\ d = "DQ") =>
                 t = Token("ident", i, RunEnd(s, i, IdentPart))
            /\ c \notin {"#", "DQ", "NL", "(", ")", ",", "=", "@", "+", "-"} \cup Digits \cup IdentStart
                 /\ ~(c = "/" /\ d \in {"/", "*"}) =>
                 t = Token("illegal", i, IF c = "C2" /\ d = "B5" THEN i + 2 ELSE i + 1)
<1> DEFINE c == Peek(s, i)
           d == Peek(s, i + 1)
           e == Peek(s, i + 2)
<1>1. i # Len(s)
  OBVIOUS
<1>2. DOMAIN OneByteKind = {"NL", "(", ")", ",", "="}
  BY DEF OneByteKind
<1>3. /\ Digits = {"0", "2"}
      /\ IdentStart = {"a", "b", "e", "f", "i", "p", "x", "s", "n", "u", "U", "Z"}
  BY DEF Digits, IdentStart, LowerAlpha, Unit
<1> HIDE DEF c, d, e
<1>4. TokenAt(s, i) =
       CASE i = Len(s) -> Token("eof", i, i)
       [] c = "#" \/ (c = "/" /\ d = "/") -> LexLineComment(s, i)
       [] c = "/" /\ d = "*" -> LexBlockComment(s, i)
       [] c = "DQ" /\ d = "DQ" /\ e = "DQ" -> LexTripleString(s, i)
       [] c = "DQ" /\ ~(d = "DQ" /\ e = "DQ") -> LexString(s, i)
       [] c = "b" /\ d = "DQ" -> LexBytes(s, i)
       [] c \in DOMAIN OneByteKind -> Token(OneByteKind[c], i, i + 1)
       [] c = "@" -> LexDirective(s, i)
       [] c \in Digits \cup {"+", "-"} -> LexNumber(s, i)
       [] c \in IdentStart /\ ~(c = "b" /\ d = "DQ") ->
            Token("ident", i, RunEnd(s, i, IdentPart))
       [] OTHER -> Token("illegal", i, IF c = "C2" /\ d = "B5" THEN i + 2 ELSE i + 1)
  BY DEF TokenAt, c, d, e
<1>5. /\ c = "#" \/ (c = "/" /\ d = "/") => TokenAt(s, i) = LexLineComment(s, i)
      /\ c = "/" /\ d = "*" => TokenAt(s, i) = LexBlockComment(s, i)
      /\ c = "DQ" /\ d = "DQ" /\ e = "DQ" => TokenAt(s, i) = LexTripleString(s, i)
      /\ c = "DQ" /\ ~(d = "DQ" /\ e = "DQ") => TokenAt(s, i) = LexString(s, i)
      /\ c = "b" /\ d = "DQ" => TokenAt(s, i) = LexBytes(s, i)
  BY <1>1, <1>2, <1>3, <1>4
<1>6. /\ c \in {"NL", "(", ")", ",", "="} => TokenAt(s, i) = Token(OneByteKind[c], i, i + 1)
      /\ c = "@" => TokenAt(s, i) = LexDirective(s, i)
      /\ c \in Digits \cup {"+", "-"} => TokenAt(s, i) = LexNumber(s, i)
      /\ c \in IdentStart /\ ~(c = "b" /\ d = "DQ") =>
            TokenAt(s, i) = Token("ident", i, RunEnd(s, i, IdentPart))
  BY <1>1, <1>2, <1>3, <1>4
<1>7. c \notin {"#", "DQ", "NL", "(", ")", ",", "=", "@", "+", "-"} \cup Digits \cup IdentStart
        /\ ~(c = "/" /\ d \in {"/", "*"}) =>
        TokenAt(s, i) = Token("illegal", i, IF c = "C2" /\ d = "B5" THEN i + 2 ELSE i + 1)
  BY <1>1, <1>2, <1>3, <1>4
<1> QED BY <1>5, <1>6, <1>7 DEF c, d, e

\* Lexer::Next at the end of the text.
LEMMA DispatchEnd ==
  ASSUME NEW s \in Seq(Bytes)
  PROVE  TokenAt(s, Len(s)) = Token("eof", Len(s), Len(s))
<1> DEFINE i == Len(s)
           c == Peek(s, i)
           d == Peek(s, i + 1)
           e == Peek(s, i + 2)
<1>1. i \in Nat /\ c = "NUL"
  BY PeekInText
<1>2. DOMAIN OneByteKind = {"NL", "(", ")", ",", "="}
  BY DEF OneByteKind
<1>3. /\ Digits = {"0", "2"}
      /\ IdentStart = {"a", "b", "e", "f", "i", "p", "x", "s", "n", "u", "U", "Z"}
  BY DEF Digits, IdentStart, LowerAlpha, Unit
<1> HIDE DEF c, d, e
<1>4. TokenAt(s, i) =
       CASE i = Len(s) -> Token("eof", i, i)
       [] c = "#" \/ (c = "/" /\ d = "/") -> LexLineComment(s, i)
       [] c = "/" /\ d = "*" -> LexBlockComment(s, i)
       [] c = "DQ" /\ d = "DQ" /\ e = "DQ" -> LexTripleString(s, i)
       [] c = "DQ" /\ ~(d = "DQ" /\ e = "DQ") -> LexString(s, i)
       [] c = "b" /\ d = "DQ" -> LexBytes(s, i)
       [] c \in DOMAIN OneByteKind -> Token(OneByteKind[c], i, i + 1)
       [] c = "@" -> LexDirective(s, i)
       [] c \in Digits \cup {"+", "-"} -> LexNumber(s, i)
       [] c \in IdentStart /\ ~(c = "b" /\ d = "DQ") ->
            Token("ident", i, RunEnd(s, i, IdentPart))
       [] OTHER -> Token("illegal", i, IF c = "C2" /\ d = "B5" THEN i + 2 ELSE i + 1)
  BY DEF TokenAt, c, d, e
<1> QED BY <1>1, <1>2, <1>3, <1>4

\* The first of some offsets of a text, and none before it.
LEMMA FirstFacts ==
  ASSUME NEW i \in Nat, NEW n \in Nat, NEW A \in SUBSET (i .. n - 1), A # {}
  PROVE  /\ Min(A) \in A /\ Min(A) \in i .. n - 1
         /\ \A k \in i .. Min(A) - 1 : k \notin A
<1>1. A \in SUBSET Nat
  OBVIOUS
<1>2. Min(A) \in A /\ \A x \in A : Min(A) <= x
  BY <1>1, MinIsLeast
<1> HIDE DEF Min
<1>3. Min(A) \in i .. n - 1
  BY <1>2
<1>4. ASSUME NEW k \in i .. Min(A) - 1 PROVE k \notin A
  BY <1>2, <1>3
<1> QED BY <1>2, <1>3, <1>4

\* The first of some offsets of a text, or its end.
LEMMA FirstOrEnd ==
  ASSUME NEW i \in Nat, NEW n \in Nat, i <= n, NEW A \in SUBSET (i .. n - 1)
  PROVE  LET e == IF A = {} THEN n ELSE Min(A)
         IN /\ e \in i .. n
            /\ \A k \in i .. e - 1 : k \notin A
            /\ e < n => e \in A
<1>1. CASE A = {}
  BY <1>1
<1>2. CASE A # {}
  <2> DEFINE m == Min(A)
  <2>1. m \in A /\ m \in i .. n - 1 /\ \A k \in i .. m - 1 : k \notin A
    BY <1>2, FirstFacts
  <2> HIDE DEF m
  <2>2. m \in i .. n
    BY <2>1
  <2>3. (IF A = {} THEN n ELSE Min(A)) = m
    BY <1>2 DEF m
  <2> QED BY <2>1, <2>2, <2>3
<1> QED BY <1>1, <1>2

\* Lexer::LexLineComment stops at the newline or the end of the text.
LEMMA LineCommentFacts ==
  ASSUME NEW s \in Seq(Bytes), NEW i \in Nat, i < Len(s)
  PROVE  LET t == LexLineComment(s, i)
         IN /\ t = Token("comment", i, t.end)
            /\ t.end \in i .. Len(s)
            /\ \A k \in i .. t.end - 1 : Peek(s, k) # "NL"
            /\ t.end < Len(s) => Peek(s, t.end) = "NL"
<1> DEFINE A == {j \in i .. Len(s) - 1 : Peek(s, j) = "NL"}
           e == IF A = {} THEN Len(s) ELSE Min(A)
<1>1. LexLineComment(s, i) = Token("comment", i, e)
  BY DEF LexLineComment, First
<1>2. Len(s) \in Nat /\ A \in SUBSET (i .. Len(s) - 1)
  OBVIOUS
<1>3. e \in i .. Len(s) /\ (\A k \in i .. e - 1 : k \notin A) /\ (e < Len(s) => e \in A)
  <2> HIDE DEF A
  <2> QED BY <1>2, FirstOrEnd
<1> HIDE DEF e
<1>4. (\A k \in i .. e - 1 : Peek(s, k) # "NL") /\ (e < Len(s) => Peek(s, e) = "NL")
  BY <1>2, <1>3
<1> QED BY <1>1, <1>3, <1>4 DEF Token

\* Lexer::LexBlockComment ends behind the first "*/", or is unterminated.
LEMMA BlockCommentFacts ==
  ASSUME NEW s \in Seq(Bytes), NEW i \in Nat, i + 2 <= Len(s)
  PROVE  LET t == LexBlockComment(s, i)
             ends(k) == Peek(s, k) = "*" /\ Peek(s, k + 1) = "/"
         IN \/ /\ t = Token("comment", i, t.end)
               /\ t.end \in i + 4 .. Len(s)
               /\ ends(t.end - 2)
               /\ \A k \in i + 2 .. t.end - 3 : ~ends(k)
            \/ /\ t = Token("illegal", i, t.end)
               /\ t.end \in i + 2 .. Len(s) /\ t.end >= Len(s) - 1
               /\ t.end = IF i + 2 >= Len(s) - 1 THEN i + 2 ELSE Len(s) - 1
               /\ \A k \in i + 2 .. Len(s) - 1 : ~ends(k)
<1> DEFINE ends(k) == Peek(s, k) = "*" /\ Peek(s, k + 1) = "/"
           A == {k \in i + 2 .. Len(s) - 1 : ends(k)}
           m == Min(A)
           u == Max({i + 2, Len(s) - 1})
<1>1. Len(s) \in Nat /\ A \in SUBSET (i + 2 .. Len(s) - 1) /\ i + 2 \in Nat
  OBVIOUS
<1>2. LexBlockComment(s, i) =
        IF (IF A = {} THEN -1 ELSE m) >= 0 THEN Token("comment", i, (IF A = {} THEN -1 ELSE m) + 2)
        ELSE Token("illegal", i, u)
  BY DEF LexBlockComment, First
<1>3. CASE A = {}
  <2>1. LexBlockComment(s, i) = Token("illegal", i, u)
    BY <1>2, <1>3
  <2>2. u = IF i + 2 >= Len(s) - 1 THEN i + 2 ELSE Len(s) - 1
    BY <1>1, MaxOfTwo
  <2>3. u \in i + 2 .. Len(s) /\ u >= Len(s) - 1
    BY <1>1, <2>2
  <2>4. \A k \in i + 2 .. Len(s) - 1 : ~ends(k)
    BY <1>3
  <2> HIDE DEF u, ends
  <2> QED BY <2>1, <2>2, <2>3, <2>4 DEF Token, ends
<1>4. CASE A # {}
  <2>1. m \in A /\ m \in i + 2 .. Len(s) - 1 /\ \A k \in i + 2 .. m - 1 : k \notin A
    <3> HIDE DEF A
    <3> QED BY <1>1, <1>4, FirstFacts
  <2> HIDE DEF m
  <2>2. LexBlockComment(s, i) = Token("comment", i, m + 2)
    BY <1>1, <1>2, <1>4, <2>1
  <2>3. ends(m) /\ \A k \in i + 2 .. m - 1 : ~ends(k)
    BY <1>1, <2>1
  <2>4. m + 1 < Len(s)
    BY <2>1, <2>3, PeekInText
  <2>5. (m + 2) - 2 = m /\ (m + 2) - 3 = m - 1 /\ m + 2 \in i + 4 .. Len(s)
    BY <1>1, <2>1, <2>4
  <2> HIDE DEF ends
  <2>6. LexBlockComment(s, i).end = m + 2
    BY <2>2 DEF Token
  <2> QED BY <2>2, <2>3, <2>5, <2>6 DEF ends
<1> QED BY <1>3, <1>4

\* Three quotes from an offset on.
LEMMA ThreeQuotesFacts ==
  ASSUME NEW s \in Seq(Bytes), NEW k \in Nat
  PROVE  /\ ThreeQuotes(s, k) <=>
              Peek(s, k) = "DQ" /\ Peek(s, k + 1) = "DQ" /\ Peek(s, k + 2) = "DQ"
         /\ ThreeQuotes(s, k) => k + 2 < Len(s)
<1>1. ThreeQuotes(s, k) <=>
        Peek(s, k + 0) = "DQ" /\ Peek(s, k + 1) = "DQ" /\ Peek(s, k + 2) = "DQ"
  <2>1. 0 .. 2 = {0, 1, 2}
    OBVIOUS
  <2> QED BY <2>1, Zenon DEF ThreeQuotes
<1>2. k + 0 = k /\ k + 2 \in Nat
  OBVIOUS
<1> QED BY <1>1, <1>2, PeekInText

\* Lexer::LexTripleString ends behind the first three quotes, or is
\* unterminated.
LEMMA TripleStringFacts ==
  ASSUME NEW s \in Seq(Bytes), NEW i \in Nat, i + 3 <= Len(s)
  PROVE  LET t == LexTripleString(s, i)
         IN \/ /\ t = Token("string", i, t.end)
               /\ t.end \in i + 6 .. Len(s)
               /\ ThreeQuotes(s, t.end - 3)
               /\ \A k \in i + 3 .. t.end - 4 : ~ThreeQuotes(s, k)
            \/ /\ t = Token("illegal", i, t.end)
               /\ t.end \in i + 3 .. Len(s) /\ t.end >= Len(s) - 2
               /\ t.end = IF i + 3 >= Len(s) - 2 THEN i + 3 ELSE Len(s) - 2
               /\ \A k \in i + 3 .. Len(s) - 1 : ~ThreeQuotes(s, k)
<1> DEFINE A == {k \in i + 3 .. Len(s) - 1 : ThreeQuotes(s, k)}
           m == Min(A)
           u == Max({i + 3, Len(s) - 2})
<1>1. Len(s) \in Nat /\ A \in SUBSET (i + 3 .. Len(s) - 1) /\ i + 3 \in Nat
  OBVIOUS
<1>2. LexTripleString(s, i) =
        IF (IF A = {} THEN -1 ELSE m) >= 0 THEN Token("string", i, (IF A = {} THEN -1 ELSE m) + 3)
        ELSE Token("illegal", i, u)
  BY DEF LexTripleString, First
<1>3. CASE A = {}
  <2>1. LexTripleString(s, i) = Token("illegal", i, u)
    BY <1>2, <1>3
  <2>2. u = IF i + 3 >= Len(s) - 2 THEN i + 3 ELSE Len(s) - 2
    BY <1>1, MaxOfTwo
  <2>3. u \in i + 3 .. Len(s) /\ u >= Len(s) - 2
    BY <1>1, <2>2
  <2>4. \A k \in i + 3 .. Len(s) - 1 : ~ThreeQuotes(s, k)
    BY <1>3
  <2> HIDE DEF u
  <2> QED BY <2>1, <2>2, <2>3, <2>4 DEF Token
<1>4. CASE A # {}
  <2>1. m \in A /\ m \in i + 3 .. Len(s) - 1 /\ \A k \in i + 3 .. m - 1 : k \notin A
    <3> HIDE DEF A
    <3> QED BY <1>1, <1>4, FirstFacts
  <2> HIDE DEF m
  <2>2. LexTripleString(s, i) = Token("string", i, m + 3)
    BY <1>1, <1>2, <1>4, <2>1
  <2>3. ThreeQuotes(s, m) /\ \A k \in i + 3 .. m - 1 : ~ThreeQuotes(s, k)
    BY <1>1, <2>1
  <2>4. m + 2 < Len(s)
    <3>1. m \in Nat
      BY <1>1, <2>1
    <3> QED BY <2>3, <3>1, ThreeQuotesFacts
  <2>5. (m + 3) - 3 = m /\ (m + 3) - 4 = m - 1 /\ m + 3 \in i + 6 .. Len(s)
    BY <1>1, <2>1, <2>4
  <2>6. LexTripleString(s, i).end = m + 3
    BY <2>2 DEF Token
  <2> QED BY <2>2, <2>3, <2>5, <2>6
<1> QED BY <1>3, <1>4

\* An escape takes its letter, and digits that are in the text
\* (ReadHexByte, ReadOctRest, ReadHexRune).
LEMMA EscapeFacts ==
  ASSUME NEW s \in Seq(Bytes), NEW e \in Nat, e < Len(s)
  PROVE  /\ Escape(s, e).end \in e + 1 .. Len(s)
         /\ Escape(s, e) = [kind |-> Escape(s, e).kind, end |-> Escape(s, e).end]
<1> DEFINE p == e + 1
           c == Peek(s, e)
<1>1. p \in Nat /\ p <= Len(s) /\ p + 1 \in Nat /\ Len(s) \in Nat
  OBVIOUS
<1>2. ASSUME NEW C, "NUL" \notin C
      PROVE  /\ ReadTwo(s, p, C).end \in e + 1 .. Len(s)
             /\ ReadTwo(s, p, C) = [kind |-> ReadTwo(s, p, C).kind, end |-> ReadTwo(s, p, C).end]
  <2>1. CASE Peek(s, p) \in C /\ Peek(s, p + 1) \in C
    <3>1. p + 1 < Len(s)
      BY <1>1, <1>2, <2>1, PeekInText
    <3>2. ReadTwo(s, p, C) = [kind |-> "rune", end |-> p + 2]
      BY <2>1 DEF ReadTwo
    <3> QED BY <1>1, <3>1, <3>2
  <2>2. CASE ~(Peek(s, p) \in C /\ Peek(s, p + 1) \in C)
    <3>1. ReadTwo(s, p, C) = [kind |-> "illegal", end |-> p]
      BY <2>2 DEF ReadTwo
    <3> QED BY <1>1, <3>1
  <2> QED BY <2>1, <2>2
<1>3. ASSUME NEW n \in Nat
      PROVE  /\ ReadHexRune(s, p, n).end \in e + 1 .. Len(s)
             /\ ReadHexRune(s, p, n) = [kind |-> ReadHexRune(s, p, n).kind, end |-> ReadHexRune(s, p, n).end]
  <2> DEFINE q == RunEnd(s, p, HexDigits)
  <2>1. q \in p .. Len(s)
    BY <1>1, RunEndFacts
  <2> HIDE DEF q
  <2>2. ReadHexRune(s, p, n) = IF p + n > Len(s) THEN [kind |-> "illegal", end |-> p]
                               ELSE IF q < p + n THEN [kind |-> "illegal", end |-> q]
                               ELSE [kind |-> IF Valid(Text(s, p, p + n)) THEN "rune" ELSE "illegal", end |-> p + n]
    BY DEF ReadHexRune, q
  <2>3. CASE p + n > Len(s)
    BY <1>1, <2>2, <2>3
  <2>4. CASE ~(p + n > Len(s)) /\ q < p + n
    BY <1>1, <2>1, <2>2, <2>4
  <2>5. CASE ~(p + n > Len(s)) /\ ~(q < p + n)
    <3> DEFINE v == IF Valid(Text(s, p, p + n)) THEN "rune" ELSE "illegal"
    <3>1. ReadHexRune(s, p, n) = [kind |-> v, end |-> p + n]
      BY <2>2, <2>5
    <3> HIDE DEF v
    <3> QED BY <1>1, <2>5, <3>1
  <2> QED BY <2>3, <2>4, <2>5
<1>4. "NUL" \notin HexDigits /\ "NUL" \notin Digits
  BY DEF HexDigits, Digits
<1> HIDE DEF c, p
<1>5. Escape(s, e) =
        CASE c = "x" -> ReadTwo(s, p, HexDigits)
          [] c \in OctLead -> ReadTwo(s, p, Digits)
          [] c = "u" -> ReadHexRune(s, p, 4)
          [] c = "U" -> ReadHexRune(s, p, 8)
          [] OTHER -> [kind |-> IF c \in {"DQ", "\\", "?", "a", "b", "f", "n"} THEN "rune" ELSE "illegal",
                       end |-> p]
  BY DEF Escape, c, p
<1>6. CASE c = "x"
  <2>1. Escape(s, e) = ReadTwo(s, p, HexDigits)
    BY <1>5, <1>6 DEF OctLead
  <2> QED BY <1>2, <1>4, <2>1
<1>7. CASE c \in OctLead
  <2>1. Escape(s, e) = ReadTwo(s, p, Digits)
    BY <1>5, <1>7 DEF OctLead
  <2> QED BY <1>2, <1>4, <2>1
<1>8. CASE c = "u"
  <2>1. Escape(s, e) = ReadHexRune(s, p, 4)
    BY <1>5, <1>8 DEF OctLead
  <2> QED BY <1>3, <2>1
<1>9. CASE c = "U"
  <2>1. Escape(s, e) = ReadHexRune(s, p, 8)
    BY <1>5, <1>9 DEF OctLead
  <2> QED BY <1>3, <2>1
<1>10. CASE c \notin {"x", "u", "U"} \cup OctLead
  <2> DEFINE v == IF c \in {"DQ", "\\", "?", "a", "b", "f", "n"} THEN "rune" ELSE "illegal"
  <2>1. Escape(s, e) = [kind |-> v, end |-> p]
    BY <1>5, <1>10
  <2> HIDE DEF v
  <2> QED BY <1>1, <2>1 DEF p
<1> QED BY <1>6, <1>7, <1>8, <1>9, <1>10

\* Which branch of LexString's loop is taken.
LEMMA StringStep ==
  ASSUME NEW s \in Seq(Bytes), NEW i, NEW rest, NEW j \in Nat, j <= Len(s)
  PROVE  LET c == Peek(s, j)
             t == StringFrom(s, i, rest, j)
             x == Escape(s, j + 1)
         IN /\ j = Len(s) => t = Token("illegal", i, j)
            /\ j < Len(s) /\ c = "DQ" => t = Token("string", i, j + 1)
            /\ j < Len(s) /\ c = "NL" => t = Token("illegal", i, j)
            /\ j + 1 = Len(s) /\ c = "\\" => t = Token("illegal", i, j + 1)
            /\ j + 1 < Len(s) /\ c = "\\" /\ x.kind = "rune" => t = rest[x.end]
            /\ j + 1 < Len(s) /\ c = "\\" /\ x.kind # "rune" => t = Token("illegal", i, x.end)
            /\ j < Len(s) /\ c \notin {"DQ", "NL", "\\"} => t = rest[j + 1]
<1> DEFINE c == Peek(s, j)
           x == Escape(s, j + 1)
           y == IF x.kind = "rune" THEN rest[x.end] ELSE Token("illegal", i, x.end)
<1>1. Len(s) \in Nat /\ (j = Len(s) => c = "NUL")
  BY PeekInText
<1> HIDE DEF c, x, y
<1>2. StringFrom(s, i, rest, j) =
        CASE j = Len(s) -> Token("illegal", i, j)
          [] c = "DQ" -> Token("string", i, j + 1)
          [] c = "NL" -> Token("illegal", i, j)
          [] c = "\\" /\ j + 1 = Len(s) -> Token("illegal", i, j + 1)
          [] c = "\\" /\ j + 1 < Len(s) -> y
          [] OTHER -> rest[j + 1]
  BY DEF StringFrom, c, x, y
<1>3. /\ j = Len(s) => StringFrom(s, i, rest, j) = Token("illegal", i, j)
      /\ j < Len(s) /\ c = "DQ" => StringFrom(s, i, rest, j) = Token("string", i, j + 1)
      /\ j < Len(s) /\ c = "NL" => StringFrom(s, i, rest, j) = Token("illegal", i, j)
  BY <1>1, <1>2
<1>4. /\ j + 1 = Len(s) /\ c = "\\" => StringFrom(s, i, rest, j) = Token("illegal", i, j + 1)
      /\ j + 1 < Len(s) /\ c = "\\" => StringFrom(s, i, rest, j) = y
      /\ j < Len(s) /\ c \notin {"DQ", "NL", "\\"} => StringFrom(s, i, rest, j) = rest[j + 1]
  BY <1>1, <1>2
<1> QED BY <1>3, <1>4 DEF c, x, y

StringTokens(s, i) == [kind : {"string", "illegal"}, at : {i}, end : i + 1 .. Len(s)]

\* LexString's loop reads forward: it is a function defined by recursion, and
\* the token is its value at the literal's first byte.
LEMMA LexStringUnfold ==
  ASSUME NEW s \in Seq(Bytes), NEW i \in Nat, i < Len(s)
  PROVE  \E f \in [i + 1 .. Len(s) -> StringTokens(s, i)] :
           /\ \A j \in i + 1 .. Len(s) : f[j] = StringFrom(s, i, f, j)
           /\ LexString(s, i) = f[i + 1]
<1> DEFINE D == i + 1 .. Len(s)
           V == StringTokens(s, i)
           rank == [d \in D |-> Len(s) - d]
           Phi == [g \in [D -> V] |-> [j \in D |-> StringFrom(s, i, g, j)]]
<1>1. Len(s) \in Nat /\ i + 1 \in D
  OBVIOUS
<1>2. ASSUME NEW m \in D, NEW k \in {"illegal", "string"} PROVE Token(k, i, m) \in V
  BY DEF Token, StringTokens
<1>3. ASSUME NEW j \in D, j + 1 < Len(s)
      PROVE  Escape(s, j + 1).end \in D /\ Escape(s, j + 1).end > j
  <2>1. j + 1 \in Nat /\ j \in Nat
    BY <1>1
  <2>2. Escape(s, j + 1).end \in (j + 1) + 1 .. Len(s)
    BY <1>3, <2>1, EscapeFacts
  <2> QED BY <1>1, <2>1, <2>2
<1>4. ASSUME NEW g, NEW j \in D, \A k \in D : k > j => g[k] \in V
      PROVE  StringFrom(s, i, g, j) \in V
  <2> DEFINE x == Escape(s, j + 1)
  <2>1. j \in Nat /\ j <= Len(s) /\ (j < Len(s) => j + 1 \in D /\ j + 1 > j)
        /\ (j = Len(s) \/ j + 1 = Len(s) \/ j + 1 < Len(s))
    BY <1>1
  <2>2. j + 1 < Len(s) => x.end \in D /\ x.end > j
    BY <1>3
  <2> HIDE DEF x, D, V
  <2>3. CASE j = Len(s)
    BY <1>2, <2>1, <2>3, StringStep
  <2>4. CASE j < Len(s) /\ Peek(s, j) \in {"DQ", "NL"}
    BY <1>2, <2>1, <2>4, StringStep
  <2>5. CASE j + 1 = Len(s) /\ Peek(s, j) = "\\"
    BY <1>2, <2>1, <2>5, StringStep
  <2>6. CASE j + 1 < Len(s) /\ Peek(s, j) = "\\"
    <3>1. StringFrom(s, i, g, j) = IF x.kind = "rune" THEN g[x.end] ELSE Token("illegal", i, x.end)
      BY <2>1, <2>6, StringStep DEF x
    <3> QED BY <1>2, <1>4, <2>2, <2>6, <3>1
  <2>7. CASE j < Len(s) /\ Peek(s, j) \notin {"DQ", "NL", "\\"}
    <3>1. StringFrom(s, i, g, j) = g[j + 1]
      BY <2>1, <2>7, StringStep
    <3> QED BY <1>4, <2>1, <2>7, <3>1
  <2> QED BY <2>1, <2>3, <2>4, <2>5, <2>6, <2>7
<1>5. ASSUME NEW g, NEW h, NEW j \in D, \A k \in D : k > j => g[k] = h[k]
      PROVE  StringFrom(s, i, g, j) = StringFrom(s, i, h, j)
  <2> DEFINE x == Escape(s, j + 1)
  <2>1. j \in Nat /\ j <= Len(s) /\ (j < Len(s) => j + 1 \in D /\ j + 1 > j)
        /\ (j = Len(s) \/ j + 1 = Len(s) \/ j + 1 < Len(s))
    BY <1>1
  <2>2. j + 1 < Len(s) => x.end \in D /\ x.end > j
    BY <1>3
  <2> HIDE DEF x, D, V
  <2>3. CASE j = Len(s) \/ (j < Len(s) /\ Peek(s, j) \in {"DQ", "NL"})
              \/ (j + 1 = Len(s) /\ Peek(s, j) = "\\")
    BY <2>1, <2>3, StringStep
  <2>6. CASE j + 1 < Len(s) /\ Peek(s, j) = "\\"
    <3>1. /\ StringFrom(s, i, g, j) = IF x.kind = "rune" THEN g[x.end] ELSE Token("illegal", i, x.end)
          /\ StringFrom(s, i, h, j) = IF x.kind = "rune" THEN h[x.end] ELSE Token("illegal", i, x.end)
      BY <2>1, <2>6, StringStep DEF x
    <3> QED BY <1>5, <2>2, <2>6, <3>1
  <2>7. CASE j < Len(s) /\ Peek(s, j) \notin {"DQ", "NL", "\\"}
    <3>1. StringFrom(s, i, g, j) = g[j + 1] /\ StringFrom(s, i, h, j) = h[j + 1]
      BY <2>1, <2>7, StringStep
    <3> QED BY <1>5, <2>1, <2>7, <3>1
  <2> QED BY <2>1, <2>3, <2>6, <2>7
<1>6. PICK g \in [D -> V] : Phi[g] = g
  <2>1. V # {}
    BY <1>1, <1>2
  <2>2. rank \in [D -> Nat] /\ \A d \in D : rank[d] < Len(s) + 1
    BY <1>1
  <2>3. Phi \in [[D -> V] -> [D -> V]]
    <3> HIDE DEF D, V
    <3> QED BY <1>4
  <2>4. ASSUME NEW g \in [D -> V], NEW h \in [D -> V], NEW d \in D,
               \A e \in D : rank[e] < rank[d] => g[e] = h[e]
        PROVE  Phi[g][d] = Phi[h][d]
    <3>1. \A k \in D : k > d => g[k] = h[k]
      BY <1>1, <2>4
    <3> HIDE DEF D, V
    <3> QED BY <1>5, <3>1
  <2>5. Ranked(rank, Len(s) + 1, D)
    BY <1>1, <2>2 DEF Ranked
  <2> HIDE DEF Phi, rank, V, D
  <2>6. LooksBelow(Phi, rank, D, V)
    BY <2>3, <2>4 DEF LooksBelow
  <2> QED BY <2>1, <2>5, <2>6, FixedPoint
<1>7. g = [j \in D |-> StringFrom(s, i, g, j)]
  <2> HIDE DEF D, V
  <2> QED BY <1>6
<1> DEFINE f == CHOOSE f : f = [j \in D |-> StringFrom(s, i, f, j)]
<1>8. f = [j \in D |-> StringFrom(s, i, f, j)]
  <2> HIDE DEF D, V
  <2> QED BY <1>7
<1>9. LexString(s, i) = f[i + 1]
  BY DEF LexString
<1> HIDE DEF f
<1>10. \A j \in D : f[j] = StringFrom(s, i, f, j)
  BY <1>8
<1>11. \A j \in D : f[j] \in V
  <2> DEFINE S == {j \in D : f[j] \in V}
  <2>1. ASSUME NEW j \in D, \A k \in j + 1 .. Len(s) : k \in S
        PROVE  j \in S
    <3>1. \A k \in D : k > j => f[k] \in V
      BY <1>1, <2>1
    <3> HIDE DEF D, V
    <3> QED BY <1>4, <1>10, <3>1
  <2> DEFINE lo == i + 1
             hi == Len(s)
  <2> HIDE DEF S, V
  <2>2. lo \in Nat /\ hi \in Nat
    OBVIOUS
  <2>3. \A j \in lo .. hi : (\A k \in j + 1 .. hi : k \in S) => j \in S
    BY <2>1
  <2> HIDE DEF lo, hi
  <2>4. \A j \in lo .. hi : j \in S
    BY <2>2, <2>3, DownInduction
  <2> QED BY <2>4 DEF S, lo, hi
<1>12. f \in [D -> V]
  <2> HIDE DEF D, V
  <2> QED BY <1>8, <1>11
<1> QED BY <1>9, <1>10, <1>12
\* The tokens of more than one byte, or of any length, that begin at i.
LongKinds == {"comment", "illegal", "string", "bytes", "directive", "timestamp",
              "duration", "float", "int", "ident"}
LongTokens(s, i) == [kind : LongKinds, at : {i}, end : i + 1 .. Len(s)]

\* Lexer::LexString stops in the text.
LEMMA StringExtent ==
  ASSUME NEW s \in Seq(Bytes), NEW i \in Nat, i < Len(s)
  PROVE  LexString(s, i) \in LongTokens(s, i)
<1>1. PICK f \in [i + 1 .. Len(s) -> StringTokens(s, i)] : LexString(s, i) = f[i + 1]
  BY LexStringUnfold
<1>2. i + 1 \in i + 1 .. Len(s)
  OBVIOUS
<1>3. LexString(s, i) \in StringTokens(s, i)
  BY <1>1, <1>2
<1> QED BY <1>3 DEF StringTokens, LongTokens, LongKinds

\* Lexer::LexBytes stops at the quote that closes the literal, at the newline
\* or the end that cuts it, or at the byte that makes it too long.
LEMMA BytesExtent ==
  ASSUME NEW s \in Seq(Bytes), NEW i \in Nat, i + 2 <= Len(s)
  PROVE  LexBytes(s, i) \in LongTokens(s, i)
<1> DEFINE start == i + 2
           A == {j \in start .. Len(s) - 1 : Peek(s, j) \in {"DQ", "NL"}}
           B == {j \in start .. Len(s) - 1 : ((j - start) \div 4) * 3 > MaxBytesLiteral}
           stop == IF A = {} THEN Len(s) ELSE Min(A)
           tooLong == IF B = {} THEN Len(s) ELSE Min(B)
           k == IF Valid(Text(s, start, stop)) THEN "bytes" ELSE "illegal"
<1>1. Len(s) \in Nat /\ start \in Nat /\ start <= Len(s)
  OBVIOUS
<1>2. A \in SUBSET (start .. Len(s) - 1) /\ B \in SUBSET (start .. Len(s) - 1)
  OBVIOUS
<1>3. LexBytes(s, i) =
       CASE tooLong < Len(s) /\ tooLong <= stop -> Token("illegal", i, tooLong)
         [] ~(tooLong < Len(s) /\ tooLong <= stop) /\ Peek(s, stop) = "DQ" ->
              Token(k, i, stop + 1)
         [] OTHER -> Token("illegal", i, stop)
  BY DEF LexBytes, First
<1> HIDE DEF A, B, start
<1>4. stop \in start .. Len(s) /\ tooLong \in start .. Len(s)
  BY <1>1, <1>2, FirstOrEnd
<1>5. k \in {"bytes", "illegal"}
  OBVIOUS
<1> HIDE DEF stop, tooLong, k
<1>6. stop \in Nat
  BY <1>1, <1>4
<1>7. Peek(s, stop) = "DQ" => stop + 1 \in i + 1 .. Len(s)
  BY <1>1, <1>4, <1>6, PeekInText DEF start
<1>8. stop \in i + 1 .. Len(s) /\ tooLong \in i + 1 .. Len(s)
  BY <1>1, <1>4 DEF start
<1>9. ASSUME NEW q \in {"bytes", "illegal"}, NEW e \in i + 1 .. Len(s)
      PROVE  Token(q, i, e) \in LongTokens(s, i)
  BY <1>9 DEF Token, LongTokens, LongKinds
<1> QED BY <1>3, <1>5, <1>7, <1>8, <1>9

\* A directive's name ends in the text.
LEMMA DirectiveExtent ==
  ASSUME NEW s \in Seq(Bytes), NEW i \in Nat, i < Len(s)
  PROVE  LexDirective(s, i) \in LongTokens(s, i)
<1> DEFINE e == RunEnd(s, i + 1, IdentPart)
<1>1. e \in i + 1 .. Len(s)
  BY RunEndFacts
<1> HIDE DEF e
<1>2. LexDirective(s, i) = Token(IF e = i + 1 THEN "illegal" ELSE "directive", i, e)
  BY DEF LexDirective, e
<1> QED BY <1>1, <1>2 DEF Token, LongTokens, LongKinds
\* A precision behind a number ends in the text.
LEMMA PrecisionExtent ==
  ASSUME NEW s \in Seq(Bytes), NEW j \in Nat, j <= Len(s)
  PROVE  LexPrecision(s, j) \in j .. Len(s)
<1>1. CASE Peek(s, j) = "p" /\ Peek(s, j + 1) \in Digits
  <2>1. j < Len(s)
    BY <1>1, PeekInText
  <2>2. RunEnd(s, j + 1, Digits) \in j + 1 .. Len(s)
    BY <2>1, RunEndFacts
  <2>3. LexPrecision(s, j) = RunEnd(s, j + 1, Digits)
    BY <1>1 DEF LexPrecision
  <2> QED BY <2>1, <2>2, <2>3
<1>2. CASE ~(Peek(s, j) = "p" /\ Peek(s, j + 1) \in Digits)
  <2>1. LexPrecision(s, j) = j
    BY <1>2 DEF LexPrecision
  <2> QED BY <2>1
<1> QED BY <1>1, <1>2

\* A timestamp, which reads to the end of the run, ends in the text.
LEMMA TimestampExtent ==
  ASSUME NEW s \in Seq(Bytes), NEW i \in Nat, NEW j \in Nat, i < j, j <= Len(s)
  PROVE  LexTimestamp(s, i, j) \in LongTokens(s, i)
<1> DEFINE A == {k \in j .. Len(s) - 1 :
                   \/ Peek(s, k) \in EndsRun
                   \/ Peek(s, k) = "/" /\ Peek(s, k + 1) \in {"/", "*"}}
           e == IF A = {} THEN Len(s) ELSE Min(A)
<1>1. LexTimestamp(s, i, j) = Token(IF Valid(Text(s, i, e)) THEN "timestamp" ELSE "illegal", i, e)
  BY DEF LexTimestamp, First
<1>2. Len(s) \in Nat /\ A \in SUBSET (j .. Len(s) - 1)
  OBVIOUS
<1> HIDE DEF A
<1>3. e \in j .. Len(s)
  BY <1>2, FirstOrEnd
<1> HIDE DEF e
<1>4. e \in i + 1 .. Len(s)
  BY <1>2, <1>3
<1> QED BY <1>1, <1>4 DEF Token, LongTokens, LongKinds

\* A duration ends in the text.
LEMMA DurationExtent ==
  ASSUME NEW s \in Seq(Bytes), NEW i \in Nat, NEW j \in Nat, i < j, j <= Len(s)
  PROVE  LexDuration(s, i, j) \in LongTokens(s, i)
<1> DEFINE In(k) == \/ Peek(s, k) \in Digits \cup LowerAlpha
                    \/ Peek(s, k) = "." /\ Peek(s, k + 1) \in Digits
                    \/ Peek(s, k) = "C2" /\ Peek(s, k + 1) = "B5"
                    \/ k > j /\ Peek(s, k) = "B5" /\ Peek(s, k - 1) = "C2"
           A == {k \in j .. Len(s) - 1 : ~In(k)}
           e == IF A = {} THEN Len(s) ELSE Min(A)
<1>1. LexDuration(s, i, j) = Token(IF Valid(Text(s, i, e)) THEN "duration" ELSE "illegal", i, e)
  BY DEF LexDuration, First
<1>2. Len(s) \in Nat /\ A \in SUBSET (j .. Len(s) - 1)
  OBVIOUS
<1> HIDE DEF A
<1>3. e \in j .. Len(s)
  BY <1>2, FirstOrEnd
<1> HIDE DEF e
<1>4. e \in i + 1 .. Len(s)
  BY <1>2, <1>3
<1> QED BY <1>1, <1>4 DEF Token, LongTokens, LongKinds

\* A float's fraction, exponent and precision end in the text.
LEMMA FloatExtent ==
  ASSUME NEW s \in Seq(Bytes), NEW i \in Nat, NEW j \in Nat, i < j, j <= Len(s)
  PROVE  LexFloat(s, i, j) \in LongTokens(s, i)
<1> DEFINE frac == IF Peek(s, j) = "." THEN RunEnd(s, j + 1, Digits) ELSE j
           sign == IF Peek(s, frac + 1) \in {"+", "-"} THEN frac + 2 ELSE frac + 1
           exp  == IF Peek(s, frac) = "e" THEN RunEnd(s, sign, Digits) ELSE frac
           e    == LexPrecision(s, exp)
<1>1. LexFloat(s, i, j) = Token("float", i, e)
  BY DEF LexFloat
<1>2. Len(s) \in Nat
  OBVIOUS
<1>3. frac \in j .. Len(s)
  <2>1. CASE Peek(s, j) = "."
    <3>1. j < Len(s)
      BY <2>1, PeekInText
    <3>2. RunEnd(s, j + 1, Digits) \in j + 1 .. Len(s)
      BY <3>1, RunEndFacts
    <3> QED BY <1>2, <2>1, <3>2
  <2> QED BY <1>2, <2>1
<1> HIDE DEF frac
<1>4. frac \in Nat /\ frac + 1 \in Nat
  BY <1>2, <1>3
<1>5. Peek(s, frac) = "e" => sign \in frac + 1 .. Len(s)
  <2>1. SUFFICES ASSUME Peek(s, frac) = "e" PROVE sign \in frac + 1 .. Len(s)
    OBVIOUS
  <2>2. frac < Len(s)
    BY <1>4, <2>1, PeekInText
  <2>3. Peek(s, frac + 1) \in {"+", "-"} => frac + 1 < Len(s)
    BY <1>4, PeekInText
  <2> QED BY <1>2, <1>4, <2>2, <2>3
<1> HIDE DEF sign
<1>6. exp \in j .. Len(s)
  <2>1. CASE Peek(s, frac) = "e"
    <3>1. sign \in Nat /\ sign <= Len(s)
      BY <1>2, <1>4, <1>5, <2>1
    <3>2. RunEnd(s, sign, Digits) \in sign .. Len(s)
      BY <3>1, RunEndFacts
    <3> QED BY <1>2, <1>3, <1>4, <1>5, <2>1, <3>1, <3>2
  <2> QED BY <1>3, <2>1
<1> HIDE DEF exp
<1>7. e \in exp .. Len(s)
  <2>1. exp \in Nat /\ exp <= Len(s)
    BY <1>2, <1>6
  <2> QED BY <2>1, PrecisionExtent
<1> HIDE DEF e
<1>8. e \in i + 1 .. Len(s)
  BY <1>2, <1>6, <1>7
<1> QED BY <1>1, <1>8 DEF Token, LongTokens, LongKinds
\* A run of bytes of C that begins with one takes it.
LEMMA RunTakesFirst ==
  ASSUME NEW s \in Seq(Bytes), NEW i \in Nat, NEW C, "NUL" \notin C, Peek(s, i) \in C
  PROVE  RunEnd(s, i, C) \in i + 1 .. Len(s)
<1>1. i < Len(s) /\ Len(s) \in Nat
  BY PeekInText
<1>2. /\ RunEnd(s, i, C) \in i .. Len(s)
      /\ RunEnd(s, i, C) < Len(s) => Peek(s, RunEnd(s, i, C)) \notin C
  BY <1>1, RunEndFacts
<1>3. RunEnd(s, i, C) # i
  BY <1>1, <1>2
<1> QED BY <1>1, <1>2, <1>3

\* A number, with its unit or its fraction, ends in the text.
LEMMA UnsignedExtent ==
  ASSUME NEW s \in Seq(Bytes), NEW i \in Nat, NEW d \in Nat, i <= d, Peek(s, d) \in Digits
  PROVE  LexUnsigned(s, i, d) \in LongTokens(s, i)
<1> DEFINE int  == RunEnd(s, d, Digits)
           frac == Peek(s, int) = "." /\ Peek(s, int + 1) \in Digits
           mag  == IF frac THEN RunEnd(s, int + 1, Digits) ELSE int
           ts   == i = d /\ int - d = 4 /\ Peek(s, int) = "-"
<1>1. Len(s) \in Nat /\ "NUL" \notin Digits
  BY DEF Digits
<1>2. LexUnsigned(s, i, d) =
       CASE ts -> LexTimestamp(s, i, int)
         [] ~ts -> IF AtDurationUnit(s, mag) THEN LexDuration(s, i, mag)
                   ELSE IF frac \/ Peek(s, mag) \in {".", "e"} THEN LexFloat(s, i, mag)
                   ELSE Token("int", i, LexPrecision(s, mag))
  BY DEF LexUnsigned
<1>3. int \in d + 1 .. Len(s)
  BY <1>1, RunTakesFirst
<1> HIDE DEF int
<1>4. int \in Nat /\ i < int /\ int <= Len(s) /\ int + 1 \in Nat
  BY <1>1, <1>3
<1>5. mag \in Nat /\ i < mag /\ mag <= Len(s)
  <2>1. CASE frac
    <3>1. RunEnd(s, int + 1, Digits) \in int + 1 + 1 .. Len(s)
      BY <1>1, <1>4, <2>1, RunTakesFirst
    <3> QED BY <1>1, <1>4, <2>1, <3>1
  <2> QED BY <1>4, <2>1
<1> HIDE DEF mag, frac, ts
<1>6. LexPrecision(s, mag) \in mag .. Len(s)
  BY <1>5, PrecisionExtent
<1>7. Token("int", i, LexPrecision(s, mag)) \in LongTokens(s, i)
  <2>1. LexPrecision(s, mag) \in i + 1 .. Len(s)
    BY <1>1, <1>5, <1>6
  <2> QED BY <2>1 DEF Token, LongTokens, LongKinds
<1>8. /\ LexTimestamp(s, i, int) \in LongTokens(s, i)
      /\ LexDuration(s, i, mag) \in LongTokens(s, i)
      /\ LexFloat(s, i, mag) \in LongTokens(s, i)
  BY <1>4, <1>5, TimestampExtent, DurationExtent, FloatExtent
<1> QED BY <1>2, <1>7, <1>8

\* A number with its sign ends in the text, and so does a sign alone.
LEMMA NumberExtent ==
  ASSUME NEW s \in Seq(Bytes), NEW i \in Nat, i < Len(s)
  PROVE  LexNumber(s, i) \in LongTokens(s, i)
<1> DEFINE text == Text(s, i + 1, Min({i + 4, Len(s)}))
           inf  == text = <<"i", "n", "f">> /\ Peek(s, i + 4) \notin IdentPart
<1>1. Len(s) \in Nat /\ i + 1 \in Nat /\ i <= i + 1 /\ i <= i
  OBVIOUS
<1>2. LexNumber(s, i) =
       IF Peek(s, i) \in Digits THEN LexUnsigned(s, i, i)
       ELSE IF inf THEN Token("float", i, i + 4)
       ELSE IF Peek(s, i) = "-" /\ Peek(s, i + 1) \in Digits THEN LexUnsigned(s, i, i + 1)
       ELSE Token("illegal", i, i + 1)
  BY DEF LexNumber
<1>3. inf => i + 4 <= Len(s)
  <2> DEFINE m == Min({i + 4, Len(s)})
  <2>1. SUFFICES ASSUME inf, i + 4 > Len(s) PROVE FALSE
    BY <1>1
  <2>2. m = Len(s)
    BY <1>1, <2>1, MinOfTwo
  <2>3. text = SubSeq(s, i + 1 + 1, m)
    BY DEF Text
  <2> HIDE DEF text, m
  <2>4. Len(text) = 3
    BY <2>1
  <2>5. Len(SubSeq(s, i + 1 + 1, Len(s))) = IF i + 2 <= Len(s) THEN Len(s) - (i + 1) ELSE 0
    BY <1>1
  <2>6. Len(SubSeq(s, i + 1 + 1, Len(s))) = 3
    BY <2>2, <2>3, <2>4
  <2> QED BY <1>1, <2>1, <2>5, <2>6
<1> HIDE DEF inf
<1>4. Token("illegal", i, i + 1) \in LongTokens(s, i)
  BY <1>1 DEF Token, LongTokens, LongKinds
<1>5. inf => Token("float", i, i + 4) \in LongTokens(s, i)
  BY <1>1, <1>3 DEF Token, LongTokens, LongKinds
<1>6. Peek(s, i) \in Digits => LexUnsigned(s, i, i) \in LongTokens(s, i)
  BY <1>1, UnsignedExtent
<1>7. Peek(s, i + 1) \in Digits => LexUnsigned(s, i, i + 1) \in LongTokens(s, i)
  BY <1>1, UnsignedExtent
<1>8. CASE Peek(s, i) \in Digits
  BY <1>2, <1>6, <1>8
<1>9. CASE Peek(s, i) \notin Digits /\ inf
  BY <1>2, <1>5, <1>9
<1>10. CASE Peek(s, i) \notin Digits /\ ~inf /\ Peek(s, i) = "-" /\ Peek(s, i + 1) \in Digits
  BY <1>2, <1>7, <1>10
<1>11. CASE /\ Peek(s, i) \notin Digits /\ ~inf
            /\ ~(Peek(s, i) = "-" /\ Peek(s, i + 1) \in Digits)
  BY <1>2, <1>4, <1>11
<1> QED BY <1>8, <1>9, <1>10, <1>11
OneByteTokens(i) ==
  [kind : {"newline", "lparen", "rparen", "comma", "equals"}, at : {i}, end : {i + 1}]

\* Lexer::Next at a byte: the token begins there, takes at least that byte and
\* ends in the text.
LEMMA TokenExtent ==
  ASSUME NEW s \in Seq(Bytes), NEW i \in Nat, i < Len(s)
  PROVE  TokenAt(s, i) \in LongTokens(s, i) \cup OneByteTokens(i)
<1> DEFINE c == Peek(s, i)
           d == Peek(s, i + 1)
           e == Peek(s, i + 2)
           t == TokenAt(s, i)
<1>1. Len(s) \in Nat /\ i + 1 \in Nat /\ i + 2 \in Nat /\ (i + 1 < Len(s) => i + 2 <= Len(s))
      /\ (i + 2 < Len(s) => i + 3 <= Len(s)) /\ i + 1 \in i + 1 .. Len(s)
  OBVIOUS
<1>2. (d # "NUL" => i + 2 <= Len(s)) /\ (e # "NUL" => i + 3 <= Len(s))
  BY <1>1, PeekInText
<1>3. /\ c = "#" \/ (c = "/" /\ d = "/") => t = LexLineComment(s, i)
      /\ c = "/" /\ d = "*" => t = LexBlockComment(s, i)
      /\ c = "DQ" /\ d = "DQ" /\ e = "DQ" => t = LexTripleString(s, i)
      /\ c = "DQ" /\ ~(d = "DQ" /\ e = "DQ") => t = LexString(s, i)
      /\ c = "b" /\ d = "DQ" => t = LexBytes(s, i)
      /\ c = "@" => t = LexDirective(s, i)
      /\ c \in Digits \cup {"+", "-"} => t = LexNumber(s, i)
  BY Dispatch
<1>4. /\ c \in {"NL", "(", ")", ",", "="} => t = Token(OneByteKind[c], i, i + 1)
      /\ c \in IdentStart /\ ~(c = "b" /\ d = "DQ") =>
            t = Token("ident", i, RunEnd(s, i, IdentPart))
      /\ c \notin {"#", "DQ", "NL", "(", ")", ",", "=", "@", "+", "-"} \cup Digits \cup IdentStart
            /\ ~(c = "/" /\ d \in {"/", "*"}) =>
            t = Token("illegal", i, IF c = "C2" /\ d = "B5" THEN i + 2 ELSE i + 1)
  BY Dispatch
<1> HIDE DEF c, d, e, t
<1>5. CASE c = "#" \/ (c = "/" /\ d = "/")
  <2> DEFINE q == LexLineComment(s, i)
  <2>1. q = Token("comment", i, q.end) /\ q.end \in i .. Len(s)
        /\ (q.end < Len(s) => Peek(s, q.end) = "NL")
    BY LineCommentFacts
  <2>2. q.end # i
    BY <1>5, <2>1 DEF c
  <2>3. q.end \in i + 1 .. Len(s)
    BY <1>1, <2>1, <2>2
  <2> HIDE DEF q
  <2>4. q \in LongTokens(s, i)
    BY <2>1, <2>3 DEF Token, LongTokens, LongKinds
  <2> QED BY <1>3, <1>5, <2>4 DEF q, t
<1>6. CASE c = "/" /\ d = "*"
  <2> DEFINE q == LexBlockComment(s, i)
  <2>1. i + 2 <= Len(s)
    BY <1>2, <1>6
  <2>2. \/ q = Token("comment", i, q.end) /\ q.end \in i + 4 .. Len(s)
        \/ q = Token("illegal", i, q.end) /\ q.end \in i + 2 .. Len(s)
    BY <2>1, BlockCommentFacts
  <2>3. q.end \in i + 1 .. Len(s)
    <3>1. CASE q = Token("comment", i, q.end) /\ q.end \in i + 4 .. Len(s)
      BY <1>1, <3>1
    <3>2. CASE q.end \in i + 2 .. Len(s)
      BY <1>1, <3>2
    <3> QED BY <2>2, <3>1, <3>2
  <2> HIDE DEF q
  <2>4. q \in LongTokens(s, i)
    BY <2>2, <2>3 DEF Token, LongTokens, LongKinds
  <2> QED BY <1>3, <1>6, <2>4 DEF q, t
<1>7. CASE c = "DQ" /\ d = "DQ" /\ e = "DQ"
  <2> DEFINE q == LexTripleString(s, i)
  <2>1. i + 3 <= Len(s)
    BY <1>2, <1>7
  <2>2. \/ q = Token("string", i, q.end) /\ q.end \in i + 6 .. Len(s)
        \/ q = Token("illegal", i, q.end) /\ q.end \in i + 3 .. Len(s)
    BY <2>1, TripleStringFacts
  <2>3. q.end \in i + 1 .. Len(s)
    <3>1. CASE q = Token("string", i, q.end) /\ q.end \in i + 6 .. Len(s)
      BY <1>1, <3>1
    <3>2. CASE q.end \in i + 3 .. Len(s)
      BY <1>1, <3>2
    <3> QED BY <2>2, <3>1, <3>2
  <2> HIDE DEF q
  <2>4. q \in LongTokens(s, i)
    BY <2>2, <2>3 DEF Token, LongTokens, LongKinds
  <2> QED BY <1>3, <1>7, <2>4 DEF q, t
<1>8. CASE c = "DQ" /\ ~(d = "DQ" /\ e = "DQ")
  BY <1>3, <1>8, StringExtent DEF t
<1>9. CASE c = "b" /\ d = "DQ"
  <2>1. LexBytes(s, i) \in LongTokens(s, i)
    BY <1>2, <1>9, BytesExtent
  <2> QED BY <1>3, <1>9, <2>1 DEF t
<1>10. CASE c = "@"
  BY <1>3, <1>10, DirectiveExtent DEF t
<1>11. CASE c \in Digits \cup {"+", "-"}
  BY <1>3, <1>11, NumberExtent DEF t
<1>12. CASE c \in {"NL", "(", ")", ",", "="}
  <2>1. OneByteKind[c] \in {"newline", "lparen", "rparen", "comma", "equals"}
    BY <1>12 DEF OneByteKind
  <2>2. t = Token(OneByteKind[c], i, i + 1)
    BY <1>4, <1>12
  <2>3. t \in OneByteTokens(i)
    BY <2>1, <2>2 DEF Token, OneByteTokens
  <2> QED BY <2>3 DEF t
<1>13. CASE c \in IdentStart /\ ~(c = "b" /\ d = "DQ")
  <2>1. "NUL" \notin IdentPart /\ c \in IdentPart
    BY <1>13 DEF IdentPart, IdentStart, LowerAlpha, Unit, Digits
  <2>2. RunEnd(s, i, IdentPart) \in i + 1 .. Len(s)
    BY <2>1, RunTakesFirst DEF c
  <2>3. t = Token("ident", i, RunEnd(s, i, IdentPart))
    BY <1>4, <1>13
  <2>4. t \in LongTokens(s, i)
    BY <2>2, <2>3 DEF Token, LongTokens, LongKinds
  <2> QED BY <2>4 DEF t
<1>14. CASE c \notin {"#", "DQ", "NL", "(", ")", ",", "=", "@", "+", "-"} \cup Digits \cup IdentStart
             /\ ~(c = "/" /\ d \in {"/", "*"})
  <2> DEFINE m == IF c = "C2" /\ d = "B5" THEN i + 2 ELSE i + 1
  <2>1. m \in i + 1 .. Len(s)
    BY <1>1, <1>2
  <2> HIDE DEF m
  <2>2. t = Token("illegal", i, m)
    BY <1>4, <1>14 DEF m
  <2>3. t \in LongTokens(s, i)
    BY <2>1, <2>2 DEF Token, LongTokens, LongKinds
  <2> QED BY <2>3 DEF t
<1> QED BY <1>5, <1>6, <1>7, <1>8, <1>9, <1>10, <1>11, <1>12, <1>13, <1>14
\* What Lexer::Next may return for a text from offset j on.
Kinds == LongKinds \cup {"newline", "lparen", "rparen", "comma", "equals", "eof"}
TokensFrom(s, j) == [kind : Kinds, at : j .. Len(s), end : j .. Len(s)]

\* Lexer::Next gets on.  It passes spaces only, returns the end of the text at
\* the end and nowhere else, and takes a byte or more for any other token,
\* literals that are unterminated or refused and stray bytes included; it
\* never reads past the end.  So no loop over the tokens of a text spins, and
\* none runs over its end.
THEOREM LexerAdvances ==
  ASSUME NEW s \in Seq(Bytes), NEW j \in 0 .. Len(s)
  PROVE  /\ Lex(s, j) \in TokensFrom(s, j)
         /\ \A k \in j .. Lex(s, j).at - 1 : Peek(s, k) \in Spaces
         /\ Lex(s, j).kind = "eof" <=> Lex(s, j).at = Len(s)
         /\ IF Lex(s, j).kind = "eof" THEN Lex(s, j).end = Len(s)
            ELSE Lex(s, j).end >= Lex(s, j).at + 1
<1> DEFINE i == RunEnd(s, j, Spaces)
           t == TokenAt(s, i)
<1>1. Len(s) \in Nat /\ j \in Nat /\ j <= Len(s)
  OBVIOUS
<1>2. i \in j .. Len(s) /\ \A k \in j .. i - 1 : Peek(s, k) \in Spaces
  BY <1>1, RunEndFacts
<1>3. Lex(s, j) = t
  BY DEF Lex
<1> HIDE DEF i
<1>4. i \in Nat
  BY <1>1, <1>2
<1>5. CASE i = Len(s)
  <2>1. t = Token("eof", i, i)
    BY <1>5, DispatchEnd
  <2> HIDE DEF t
  <2>2. t \in TokensFrom(s, j) /\ t.kind = "eof" /\ t.at = i /\ t.end = i
    BY <1>2, <2>1 DEF Token, TokensFrom, Kinds
  <2> QED BY <1>2, <1>3, <1>5, <2>2
<1>6. CASE i # Len(s)
  <2>1. i < Len(s)
    BY <1>1, <1>2, <1>6
  <2>2. t \in LongTokens(s, i) \cup OneByteTokens(i)
    BY <1>4, <2>1, TokenExtent
  <2> HIDE DEF t
  <2>3. t.kind \in Kinds \ {"eof"} /\ t.at = i /\ t.end \in i + 1 .. Len(s)
        /\ t = [kind |-> t.kind, at |-> t.at, end |-> t.end]
    <3>1. CASE t \in LongTokens(s, i)
      BY <3>1 DEF LongTokens, Kinds, LongKinds
    <3>2. CASE t \in OneByteTokens(i)
      BY <1>1, <1>4, <2>1, <3>2 DEF OneByteTokens, Kinds
    <3> QED BY <2>2, <3>1, <3>2
  <2>4. t.at \in j .. Len(s) /\ t.end \in j .. Len(s) /\ t.end >= t.at + 1
    BY <1>1, <1>2, <1>4, <2>3
  <2>5. t \in TokensFrom(s, j)
    BY <2>3, <2>4 DEF TokensFrom
  <2> QED BY <1>2, <1>3, <1>6, <2>3, <2>4, <2>5
<1> QED BY <1>5, <1>6
-----------------------------------------------------------------------------
(***************************************************************************)
(* Parts of a text.                                                        *)
(***************************************************************************)
\* A part of a text has the bytes of the text, from its offset on.
LEMMA TextFacts ==
  ASSUME NEW s \in Seq(Bytes), NEW i \in Nat, NEW j \in Nat, i <= j, j <= Len(s)
  PROVE  /\ Text(s, i, j) \in Seq(Bytes)
         /\ Len(Text(s, i, j)) = j - i
         /\ \A k \in 0 .. (j - i) - 1 : Peek(Text(s, i, j), k) = Peek(s, i + k)
<1>1. Text(s, i, j) = [k \in 1 .. (j - i) |-> s[i + k]]
  BY DEF Text
<1>2. \A k \in 1 .. (j - i) : s[i + k] \in Bytes
  OBVIOUS
<1>3. Text(s, i, j) \in Seq(Bytes) /\ Len(Text(s, i, j)) = j - i
  BY <1>1, <1>2
<1>4. ASSUME NEW k \in 0 .. (j - i) - 1 PROVE Peek(Text(s, i, j), k) = Peek(s, i + k)
  <2>1. k < j - i /\ i + k < Len(s) /\ k + 1 \in 1 .. (j - i) /\ i + (k + 1) = (i + k) + 1
    OBVIOUS
  <2>2. Peek(Text(s, i, j), k) = Text(s, i, j)[k + 1]
    BY <1>3, <2>1 DEF Peek
  <2>3. Peek(s, i + k) = s[(i + k) + 1]
    BY <2>1 DEF Peek
  <2>4. Text(s, i, j)[k + 1] = s[i + (k + 1)]
    BY <1>1, <2>1
  <2> QED BY <2>1, <2>2, <2>3, <2>4
<1> QED BY <1>3, <1>4

\* The bytes of a part, counted from one.
LEMMA TextBytes ==
  ASSUME NEW s \in Seq(Bytes), NEW i \in Nat, NEW j \in Nat, i <= j, j <= Len(s)
  PROVE  \A x \in 1 .. (j - i) : Text(s, i, j)[x] = s[i + x]
<1>1. Text(s, i, j) = [k \in 1 .. (j - i) |-> s[i + k]]
  BY DEF Text
<1> QED BY <1>1

\* A part of a part is a part.
LEMMA TextOfText ==
  ASSUME NEW s \in Seq(Bytes), NEW i \in Nat, NEW j \in Nat, i <= j, j <= Len(s),
         NEW a \in Nat, NEW b \in Nat, a <= b, b <= j - i
  PROVE  Text(Text(s, i, j), a, b) = Text(s, i + a, i + b)
<1> DEFINE t == Text(s, i, j)
<1>1. t = [k \in 1 .. (j - i) |-> s[i + k]]
  BY DEF Text
<1>2. t \in Seq(Bytes) /\ Len(t) = j - i
  BY TextFacts
<1>3. Text(s, i + a, i + b) = [k \in 1 .. (b - a) |-> s[(i + a) + k]]
  <2>1. Text(s, i + a, i + b) = [k \in 1 .. ((i + b) - (i + a)) |-> s[(i + a) + k]]
    BY DEF Text
  <2>2. (i + b) - (i + a) = b - a
    OBVIOUS
  <2> QED BY <2>1, <2>2
<1> HIDE DEF t
<1>4. Text(t, a, b) = [k \in 1 .. (b - a) |-> t[a + k]]
  BY <1>2 DEF Text
<1>5. \A k \in 1 .. (b - a) : t[a + k] = s[(i + a) + k]
  <2> SUFFICES ASSUME NEW k \in 1 .. (b - a) PROVE t[a + k] = s[(i + a) + k]
    OBVIOUS
  <2>1. a + k \in 1 .. (j - i) /\ i + (a + k) = (i + a) + k
    OBVIOUS
  <2> QED BY <1>1, <2>1
<1> QED BY <1>3, <1>4, <1>5 DEF t

\* Two parts, one behind the other, are a part.
LEMMA TextConcat ==
  ASSUME NEW s \in Seq(Bytes), NEW i \in Nat, NEW j \in Nat, NEW k \in Nat,
         i <= j, j <= k, k <= Len(s)
  PROVE  Text(s, i, j) \o Text(s, j, k) = Text(s, i, k)
<1> DEFINE a == Text(s, i, j)
           b == Text(s, j, k)
           c == Text(s, i, k)
<1>0. Len(s) \in Nat /\ j <= Len(s) /\ i <= k
  OBVIOUS
<1>1. a \in Seq(Bytes) /\ Len(a) = j - i /\ b \in Seq(Bytes) /\ Len(b) = k - j
      /\ c \in Seq(Bytes) /\ Len(c) = k - i
  <2>1. a \in Seq(Bytes) /\ Len(a) = j - i
    BY <1>0, TextFacts
  <2>2. b \in Seq(Bytes) /\ Len(b) = k - j
    BY <1>0, TextFacts
  <2>3. c \in Seq(Bytes) /\ Len(c) = k - i
    BY <1>0, TextFacts
  <2> QED BY <2>1, <2>2, <2>3
<1>2. /\ \A x \in 1 .. (j - i) : a[x] = s[i + x]
      /\ \A x \in 1 .. (k - j) : b[x] = s[j + x]
  <2>1. \A x \in 1 .. (j - i) : a[x] = s[i + x]
    BY <1>0, TextBytes
  <2>2. \A x \in 1 .. (k - j) : b[x] = s[j + x]
    BY <1>0, TextBytes
  <2> QED BY <2>1, <2>2
<1>3. \A x \in 1 .. (k - i) : c[x] = s[i + x]
  BY <1>0, TextBytes
<1> HIDE DEF a, b, c
<1>4. a \o b \in Seq(Bytes) /\ Len(a \o b) = Len(a) + Len(b)
      /\ \A x \in 1 .. Len(a) + Len(b) : (a \o b)[x] = IF x <= Len(a) THEN a[x] ELSE b[x - Len(a)]
  <2>1. a \o b \in Seq(Bytes) /\ Len(a \o b) = Len(a) + Len(b)
    <3>1. a \in Seq(Bytes) /\ b \in Seq(Bytes)
      BY <1>1
    <3>2. a \o b \in Seq(Bytes)
      BY <3>1
    <3>3. Len(a \o b) = Len(a) + Len(b)
      BY <3>1
    <3> QED BY <3>2, <3>3
  <2>2. ASSUME NEW x \in 1 .. Len(a) + Len(b)
        PROVE  (a \o b)[x] = IF x <= Len(a) THEN a[x] ELSE b[x - Len(a)]
    BY <1>1, <2>2
  <2> QED BY <2>1, <2>2
<1>5. Len(a) + Len(b) = k - i /\ Len(a \o b) = k - i
  BY <1>1, <1>4
<1>6. ASSUME NEW x \in 1 .. k - i PROVE (a \o b)[x] = c[x]
  <2>1. c[x] = s[i + x]
    BY <1>3
  <2>2. CASE x <= j - i
    <3>1. (a \o b)[x] = a[x]
      BY <1>1, <1>4, <1>5, <2>2
    <3>2. x \in 1 .. (j - i)
      BY <2>2
    <3>3. a[x] = s[i + x]
      BY <1>2, <3>2
    <3> QED BY <2>1, <3>1, <3>3
  <2>3. CASE x > j - i
    <3>1. (a \o b)[x] = b[x - (j - i)]
      BY <1>1, <1>4, <1>5, <2>3
    <3>2. x - (j - i) \in 1 .. (k - j) /\ j + (x - (j - i)) = i + x
      BY <2>3
    <3> DEFINE y == x - (j - i)
    <3> HIDE DEF y
    <3>3. b[y] = s[j + y]
      BY <1>2, <3>2 DEF y
    <3>4. j + y = i + x
      BY <3>2 DEF y
    <3> QED BY <2>1, <3>1, <3>3, <3>4 DEF y
  <2>4. x <= j - i \/ x > j - i
    OBVIOUS
  <2> QED BY <2>2, <2>3, <2>4, Zenon
<1>7. a \o b = c
  <2> DEFINE w == a \o b
  <2>1. w \in Seq(Bytes) /\ Len(w) = k - i /\ \A x \in 1 .. k - i : w[x] = c[x]
    BY <1>4, <1>5, <1>6
  <2> HIDE DEF w
  <2>2. w = c
    BY <1>1, <2>1
  <2> QED BY <2>2 DEF w
<1> QED BY <1>7 DEF a, b, c
=============================================================================
