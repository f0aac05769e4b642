-------------------------------- MODULE PxfText --------------------------------
(***************************************************************************)
(* The parser (PxfParser) as a machine, one action for each of its         *)
(* functions, and what parsing and formatting (PxfFormat) promise          *)
(* together.                                                               *)
(***************************************************************************)
EXTENDS PxfFormat

CONSTANTS Contexts,     \* the documents that are parsed: a prefix, then some of tokens, len at most
          Depths        \* the values of max_nesting_depth

VARIABLES parse,
          steps         \* how many steps it has taken

vars == <<parse, steps>>

\* Each comment has a text of its own.
Numbered(doc) ==
    [i \in DOMAIN doc |-> IF doc[i][1] = "comment" THEN <<"comment", ToString(i)>> ELSE doc[i]]

Init ==
    /\ \E c \in Contexts, tol \in BOOLEAN, max \in Depths :
          \E n \in 0 .. c.len : \E s \in [1 .. n -> c.tokens] :
             parse = Start(Numbered(c.prefix \o s), tol, max)
    /\ steps = 0

Innermost(f) == parse.st = "run" /\ Top(parse).f = f

DoDocument == Innermost("top") /\ parse' = ParseDocument(parse)
DoEntry == Innermost("entry") /\ parse' = ParseEntry(parse)
DoBind == Innermost("bind") /\ parse' = Bind(parse)
DoValue == Innermost("value") /\ parse' = ParseValue(parse)
DoList == Innermost("list") /\ parse' = ParseList(parse)
DoBody == Innermost("body") /\ parse' = ParseBody(parse)
DoDirective == Innermost("directive") /\ parse' = ParseDirective(parse)
DoTable == Innermost("table") /\ parse' = ParseTableDirective(parse)
DoRow == Innermost("row") /\ parse' = ParseTableRow(parse)
DoProto == Innermost("proto") /\ parse' = ParseProtoDirective(parse)

Next ==
    /\ \/ DoDocument \/ DoEntry \/ DoBind \/ DoValue \/ DoList
       \/ DoBody \/ DoDirective \/ DoTable \/ DoRow \/ DoProto
    /\ steps' = steps + 1

Spec == Init /\ [][Next]_vars

--------------------------------------------------------------------------------
(* What a document says, without its comments and the quotes of its map keys. *)

RECURSIVE Bare(_)
Bare(x) ==
    LET all(s) == [i \in DOMAIN s |-> Bare(s[i])]
    IN CASE x.n \in {"lit", "bad"} -> x
         [] x.n = "list" -> [n |-> "list", el |-> all(x.el)]
         [] x.n = "block" -> [n |-> "block", en |-> all(x.en)]
         [] x.n = "blk" -> [n |-> "blk", key |-> x.key, en |-> all(x.en)]
         [] x.n = "assign" -> [n |-> "assign", key |-> x.key, val |-> Bare(x.val)]
         [] x.n = "map" -> [n |-> "map", key |-> MapKey(x.key), val |-> Bare(x.val)]
         [] x.n = "type" -> [n |-> "type", url |-> x.url]

BareAll(s) == [i \in DOMAIN s |-> Bare(s[i])]

BareDirective(d) ==
    CASE d.n = "directive" -> [n |-> "directive", name |-> d.name, prefixes |-> d.prefixes,
                               body |-> d.body]
      [] d.n = "proto" -> [n |-> "proto", name |-> d.name, body |-> d.body]
      [] d.n = "dataset" ->
             [n |-> "dataset", type |-> d.type, columns |-> d.columns,
              rows |-> [i \in DOMAIN d.rows |->
                           [j \in DOMAIN d.rows[i].cells |-> BareAll(d.rows[i].cells[j])]]]

Meaning(doc) ==
    [type |-> doc.type, entries |-> BareAll(doc.entries),
     dirs |-> [i \in DOMAIN doc.dirs |-> BareDirective(doc.dirs[i])]]

\* The tokens of doc that start at pos or after it.
FromOffset(doc, pos) == SubSeq(doc, Max({1, (pos + 1) \div 2}), Len(doc))

CommentsOf(tokens) == SelectSeq(tokens, LAMBDA t : t[1] = "comment")

\* The innermost bracket that is open at the i-th token of p's document, or 0.
Enclosing(p, i) ==
    LET closer(k) == CASE k = "[" -> "]" [] k = "{" -> "}" [] k = "(" -> ")"
        open == {j \in 1 .. i - 1 : /\ Kind(p, j) \in {"[", "{", "("}
                                    /\ Match(p, j, Kind(p, j), closer(Kind(p, j))) \notin 1 .. i - 1}
    IN IF open = {} THEN 0 ELSE Max(open)

\* A list element that could be a key stands before a block element with no comma.
KeyLikeElement(p) ==
    \E i \in DOMAIN p.doc :
        /\ Kind(p, i) \in Keys
        /\ Kind(p, NextAt(p, i)) = "{"
        /\ Enclosing(p, i) # 0
        /\ Kind(p, Enclosing(p, i)) = "["

\* The i-th token is a comment between a named directive and its block.
BeforeDirectiveBlock(doc, i) ==
    \E j \in 1 .. i - 1, k \in i + 1 .. Len(doc) :
        /\ doc[j][1] = "@name"
        /\ doc[k][1] = "{"
        /\ \A m \in j + 1 .. k - 1 : doc[m][1] \in {"ident", "nl", "comment"}

\* A bare directive stands before a @type, and a block is the first entry.
DirectiveMeetsBlock(out) ==
    /\ out.type # <<>> /\ out.dirs # <<>> /\ out.entries # <<>>
    /\ Last(out.dirs).n = "directive" /\ Last(out.dirs).body = <<>>
    /\ out.entries[1].n = "blk" /\ out.entries[1].key[1] = "ident"

\* A @proto source that raw triple quotes do not keep: it ends in a quote, starts with a
\* newline, or has a last line of blanks.
SourceNeedsEscapes(d) ==
    /\ d.n = "proto" /\ d.body[1][1] = "string"
    /\ LET text == d.body[1][2]
           line == SubSeq(text, Max({0} \cup {i \in DOMAIN text : text[i] = "nl"}) + 1, Len(text))
       IN /\ text # <<>>
          /\ \/ Last(text) = "quote"
             \/ text[1] = "nl"
             \/ ToSet(line) \subseteq {" "}

--------------------------------------------------------------------------------
(* Properties *)

Accepted(p) == p.st = "ok" /\ ~p.tol

\* ParseTolerant recovers from every error (parser.cc: the Record after ParseDocument is "Not
\* reachable").  A document Parse accepts has the same AST and no errors in it, and one that
\* Parse refuses has an error there (parser.h, ParseTolerant).
TolerantAgrees ==
    (parse.tol /\ parse.st # "run") =>
        LET strict == Parse(parse.doc, parse.max)
        IN /\ parse.st = "ok"
           /\ ~KeyLikeElement(parse) => ((strict.st = "ok") <=> (parse.errs = <<>>))
           /\ (strict.st = "ok" /\ parse.errs = <<>>) => (strict.out = parse.out)

\* Every comment of an accepted document is filed exactly once, under an entry, a
\* directive, a row or the document, but for those before a directive's block.
CommentsFiled ==
    Accepted(parse) =>
        LET kept(i) == parse.doc[i][1] = "comment" /\ ~BeforeDirectiveBlock(parse.doc, i)
            want == SelectSeq([i \in DOMAIN parse.doc |-> i], kept)
            have == CommentsOf(FormatDocument(parse.out))
        IN /\ ToSet(have) = {parse.doc[want[i]] : i \in DOMAIN want}
           /\ Len(have) = Len(want)

\* What follows body_offset is the body: read on its own it has the same entries
\* and no directive, so a consumer that hashes from there hashes all of it.
BodyOffsetSplits ==
    Accepted(parse) =>
        LET rest == Parse(FromOffset(parse.doc, parse.out.body), parse.max)
        IN /\ rest.st = "ok"
           /\ rest.out.body = 0
           /\ BareAll(rest.out.entries) = BareAll(parse.out.entries)

\* A formatted document parses, says the same, keeps its comments and formats to the
\* same text again.  It need not where a @proto source needs escapes, which FormatProto
\* never writes, nor where a bare directive comes to stand before a block.
FormatRoundTrip ==
    (/\ Accepted(parse)
     /\ ~DirectiveMeetsBlock(parse.out)
     /\ \A i \in DOMAIN parse.out.dirs : ~SourceNeedsEscapes(parse.out.dirs[i])) =>
        LET text == FormatDocument(parse.out)
            again == Parse(text, parse.max)
        IN /\ again.st = "ok"
           /\ Meaning(again.out) = Meaning(parse.out)
           /\ FormatDocument(again.out) = text

\* Both parsers end on every document, after a number of steps linear in its
\* length: no recovery leaves a loop on the token it stands on.
ParseEnds == steps <= 4 * (Len(parse.doc) + 1)
================================================================================
