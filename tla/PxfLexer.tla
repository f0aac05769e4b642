------------------------------ MODULE PxfLexer ------------------------------
(***************************************************************************)
(* The lexer of PXF text, pxf::Lexer outside tolerant mode, as a function: *)
(* Lex(s, i) is the token Lexer::Next returns on the bytes s from offset   *)
(* i, with where it starts (Token.pos) and where the lexer stands after it *)
(* (CurrentPos).  Offsets count from 0, as in the code.  A byte is a       *)
(* one-character string that stands for its class; the alphabet has every  *)
(* byte the lexer treats in a way of its own, except the braces, brackets  *)
(* and colon, which are one-byte tokens as "=" is.                         *)
(***************************************************************************)
EXTENDS Integers, Sequences, FiniteSetsExt

CONSTANTS Valid(_),        \* whether a literal's text means something: a rune,
                           \* a base64 text, a duration or a timestamp
          MaxBytesLiteral  \* Lexer::max_bytes_literal_

ASSUME MaxBytesLiteralAssumption == MaxBytesLiteral \in Nat \ {0}

Digits     == {"0", "2"}
OctLead    == {"0", "2"}
Unit       == {"s", "n", "u"}
LowerAlpha == {"a", "b", "e", "f", "i", "p", "x"} \cup Unit
HexDigits  == Digits \cup {"a", "b", "e", "f"}
IdentStart == LowerAlpha \cup {"U", "Z"}
IdentPart  == IdentStart \cup Digits \cup {"."}
Spaces     == {" "}
EndsRun    == Spaces \cup {"NL", ",", ")", "#"}
\* NL is the line feed, DQ the double quote, C2 B5 the micro sign.
Bytes      == IdentPart \cup Spaces
                \cup {"NL", "(", ")", ",", "=", "@", "#", "/", "*", "DQ", "\\",
                      "?", "+", "-", "C2", "B5"}

\* Lexer::Peek: the byte at an offset, or the zero byte past the end.
Peek(s, i) == IF i < Len(s) THEN s[i + 1] ELSE "NUL"

\* The bytes of s from offset i up to offset j.
Text(s, i, j) == SubSeq(s, i + 1, j)

\* The first of the offsets at, or d.
First(at, d) == IF at = {} THEN d ELSE Min(at)

\* Where a run of bytes of C that starts at i ends.
RunEnd(s, i, C) ==
  First({j \in i .. Len(s) - 1 : Peek(s, j) \notin C}, Max({i, Len(s)}))

Token(k, i, j) == [kind |-> k, at |-> i, end |-> j]

OneByteKind ==
  [c \in {"NL", "(", ")", ",", "="} |->
     CASE c = "NL" -> "newline" [] c = "(" -> "lparen" [] c = ")" -> "rparen"
       [] c = "," -> "comma" [] c = "=" -> "equals"]

LexLineComment(s, i) ==
  Token("comment", i, First({j \in i .. Len(s) - 1 : Peek(s, j) = "NL"}, Len(s)))

\* Unterminated, it stops at the last byte, which may begin the "*/".
LexBlockComment(s, i) ==
  LET j == First({k \in i + 2 .. Len(s) - 1 : Peek(s, k) = "*" /\ Peek(s, k + 1) = "/"}, -1)
  IN IF j >= 0 THEN Token("comment", i, j + 2)
     ELSE Token("illegal", i, Max({i + 2, Len(s) - 1}))

ThreeQuotes(s, k) == \A d \in 0 .. 2 : Peek(s, k + d) = "DQ"

\* Unterminated, it stops two bytes before the end.
LexTripleString(s, i) ==
  LET j == First({k \in i + 3 .. Len(s) - 1 : ThreeQuotes(s, k)}, -1)
  IN IF j >= 0 THEN Token("string", i, j + 3)
     ELSE Token("illegal", i, Max({i + 3, Len(s) - 2}))

\* ReadHexByte and ReadOctRest read two digits of C, or nothing.
ReadTwo(s, p, C) ==
  IF Peek(s, p) \in C /\ Peek(s, p + 1) \in C
  THEN [kind |-> "rune", end |-> p + 2] ELSE [kind |-> "illegal", end |-> p]

\* ReadHexRune reads n digits: none when the input is too short to hold them,
\* and those before a bad one.
ReadHexRune(s, p, n) ==
  LET q == RunEnd(s, p, HexDigits)
  IN IF p + n > Len(s) THEN [kind |-> "illegal", end |-> p]
     ELSE IF q < p + n THEN [kind |-> "illegal", end |-> q]
     ELSE [kind |-> IF Valid(Text(s, p, p + n)) THEN "rune" ELSE "illegal", end |-> p + n]

\* The escape whose letter stands at offset e.
Escape(s, e) ==
  LET c == Peek(s, e)
  IN CASE c = "x" -> ReadTwo(s, e + 1, HexDigits)
       [] c \in OctLead -> ReadTwo(s, e + 1, Digits)
       [] c = "u" -> ReadHexRune(s, e + 1, 4)
       [] c = "U" -> ReadHexRune(s, e + 1, 8)
       [] OTHER -> [kind |-> IF c \in {"DQ", "\\", "?", "a", "b", "f", "n"} THEN "rune" ELSE "illegal",
                    end |-> e + 1]

\* What LexString makes of a literal that opens at i at offset j of it, when
\* rest says what it makes of it further on.
StringFrom(s, i, rest, j) ==
  LET c   == Peek(s, j)
      esc == Escape(s, j + 1)
  IN CASE j = Len(s)  -> Token("illegal", i, j)
       [] c = "DQ"    -> Token("string", i, j + 1)
       [] c = "NL"    -> Token("illegal", i, j)
       [] c = "\\" /\ j + 1 = Len(s) -> Token("illegal", i, j + 1)
       [] c = "\\" /\ j + 1 < Len(s) ->
            IF esc.kind = "rune" THEN rest[esc.end] ELSE Token("illegal", i, esc.end)
       [] OTHER       -> rest[j + 1]

LexString(s, i) ==
  LET from[j \in i + 1 .. Len(s)] == StringFrom(s, i, from, j) IN from[i + 1]

\* The literal is refused by its length before its end is sought.
LexBytes(s, i) ==
  LET start   == i + 2
      stop    == First({j \in start .. Len(s) - 1 : Peek(s, j) \in {"DQ", "NL"}}, Len(s))
      tooLong == First({j \in start .. Len(s) - 1 : ((j - start) \div 4) * 3 > MaxBytesLiteral},
                       Len(s))
  IN CASE tooLong < Len(s) /\ tooLong <= stop -> Token("illegal", i, tooLong)
       [] ~(tooLong < Len(s) /\ tooLong <= stop) /\ Peek(s, stop) = "DQ" ->
            Token(IF Valid(Text(s, start, stop)) THEN "bytes" ELSE "illegal", i, stop + 1)
       [] OTHER -> Token("illegal", i, stop)

LexDirective(s, i) ==
  LET j == RunEnd(s, i + 1, IdentPart)
  IN Token(IF j = i + 1 THEN "illegal" ELSE "directive", i, j)

LexPrecision(s, j) ==
  IF Peek(s, j) = "p" /\ Peek(s, j + 1) \in Digits THEN RunEnd(s, j + 1, Digits) ELSE j

LexTimestamp(s, i, j) ==
  LET e == First({k \in j .. Len(s) - 1 : \/ Peek(s, k) \in EndsRun
                                          \/ Peek(s, k) = "/" /\ Peek(s, k + 1) \in {"/", "*"}},
                 Len(s))
  IN Token(IF Valid(Text(s, i, e)) THEN "timestamp" ELSE "illegal", i, e)

\* The bytes of a duration are digits, letters, a "." before a digit, and
\* the two bytes of the micro sign.
LexDuration(s, i, j) ==
  LET In(k) == \/ Peek(s, k) \in Digits \cup LowerAlpha
               \/ Peek(s, k) = "." /\ Peek(s, k + 1) \in Digits
               \/ Peek(s, k) = "C2" /\ Peek(s, k + 1) = "B5"
               \/ k > j /\ Peek(s, k) = "B5" /\ Peek(s, k - 1) = "C2"
      e == First({k \in j .. Len(s) - 1 : ~In(k)}, Len(s))
  IN Token(IF Valid(Text(s, i, e)) THEN "duration" ELSE "illegal", i, e)

\* The fraction may have been read already: a "." at j is then a second one.
LexFloat(s, i, j) ==
  LET frac == IF Peek(s, j) = "." THEN RunEnd(s, j + 1, Digits) ELSE j
      sign == IF Peek(s, frac + 1) \in {"+", "-"} THEN frac + 2 ELSE frac + 1
      exp  == IF Peek(s, frac) = "e" THEN RunEnd(s, sign, Digits) ELSE frac
  IN Token("float", i, LexPrecision(s, exp))

AtDurationUnit(s, j) ==
  Peek(s, j) \in Unit \/ (Peek(s, j) = "C2" /\ Peek(s, j + 1) = "B5")

\* A number without its sign: digits from offset d on.
LexUnsigned(s, i, d) ==
  LET int  == RunEnd(s, d, Digits)
      frac == Peek(s, int) = "." /\ Peek(s, int + 1) \in Digits
      mag  == IF frac THEN RunEnd(s, int + 1, Digits) ELSE int
  IN CASE i = d /\ int - d = 4 /\ Peek(s, int) = "-" -> LexTimestamp(s, i, int)
       [] ~(i = d /\ int - d = 4 /\ Peek(s, int) = "-") ->
            IF AtDurationUnit(s, mag) THEN LexDuration(s, i, mag)
            ELSE IF frac \/ Peek(s, mag) \in {".", "e"} THEN LexFloat(s, i, mag)
            ELSE Token("int", i, LexPrecision(s, mag))

\* A sign is for "inf" and, when it is a minus, for digits.
LexNumber(s, i) ==
  LET inf == /\ Text(s, i + 1, Min({i + 4, Len(s)})) = <<"i", "n", "f">>
             /\ Peek(s, i + 4) \notin IdentPart
  IN IF Peek(s, i) \in Digits THEN LexUnsigned(s, i, i)
     ELSE IF inf THEN Token("float", i, i + 4)
     ELSE IF Peek(s, i) = "-" /\ Peek(s, i + 1) \in Digits THEN LexUnsigned(s, i, i + 1)
     ELSE Token("illegal", i, i + 1)

\* The token whose first byte stands at offset i.
TokenAt(s, i) ==
  LET c == Peek(s, i)
      d == Peek(s, i + 1)
  IN CASE i = Len(s) -> Token("eof", i, i)
       [] c = "#" \/ (c = "/" /\ d = "/") -> LexLineComment(s, i)
       [] c = "/" /\ d = "*" -> LexBlockComment(s, i)
       [] c = "DQ" /\ d = "DQ" /\ Peek(s, i + 2) = "DQ" -> LexTripleString(s, i)
       [] c = "DQ" /\ ~(d = "DQ" /\ Peek(s, i + 2) = "DQ") -> LexString(s, i)
       [] c = "b" /\ d = "DQ" -> LexBytes(s, i)
       [] c \in DOMAIN OneByteKind -> Token(OneByteKind[c], i, i + 1)
       [] c = "@" -> LexDirective(s, i)
       [] c \in Digits \cup {"+", "-"} -> LexNumber(s, i)
       [] c \in IdentStart /\ ~(c = "b" /\ d = "DQ") ->
            Token("ident", i, RunEnd(s, i, IdentPart))
       [] OTHER -> Token("illegal", i, IF c = "C2" /\ d = "B5" THEN i + 2 ELSE i + 1)

\* Lexer::Next: the token at the first byte that is no space.
Lex(s, from) == TokenAt(s, RunEnd(s, from, Spaces))
=============================================================================
