------------------------------- MODULE PxfFormat -------------------------------
(***************************************************************************)
(* pxf::FormatDocument (src/pxf/format.cc): the tokens of the text that is *)
(* written for a Document, with its line ends and its comments.            *)
(***************************************************************************)
EXTENDS PxfParser

NL == <<"nl", "">>
Tok(k) == <<k, "">>

Lines(comments) == FlattenSeq([i \in DOMAIN comments |-> <<comments[i], NL>>])

\* The identifiers among the texts the model writes; the others need quotes.
IsIdentifierSafe(text) == text \in {"a", "b", "x", "T"}

\* A key that was written in quotes loses them when it is an identifier.
MapKey(key) == IF key[1] = "string" /\ IsIdentifierSafe(key[2]) THEN <<"ident", key[2]>> ELSE key

RECURSIVE Written(_)
Written(x) ==
    LET all(s) == FlattenSeq([i \in DOMAIN s |-> Written(s[i])])
        body == <<Tok("{"), NL>> \o all(x.en) \o Lines(x.tr) \o <<Tok("}")>>
        bound(key, sep, value) == Lines(x.lead) \o <<key, Tok(sep)>> \o value \o x.trail \o <<NL>>
        element(i) == Written(x.el[i]) \o (IF i < Len(x.el) THEN <<Tok(",")>> ELSE <<>>) \o <<NL>>
    IN CASE x.n = "lit" -> <<x.t>>
         [] x.n = "bad" -> <<>>
         [] x.n = "list" -> <<Tok("["), NL>> \o FlattenSeq([i \in DOMAIN x.el |-> element(i)])
                            \o <<Tok("]")>>
         [] x.n = "block" -> body
         [] x.n = "blk" -> Lines(x.lead) \o <<x.key>> \o body \o <<NL>>
         [] x.n = "assign" -> bound(x.key, "=", Written(x.val))
         [] x.n = "map" -> bound(MapKey(x.key), ":", Written(x.val))
         [] x.n = "type" -> bound(Tok("@type"), "=", <<x.url>>)

WriteAll(nodes) == FlattenSeq([i \in DOMAIN nodes |-> Written(nodes[i])])

\* Mutant: no comma before an empty cell.
CommasOfFull(parts) ==
    FlattenSeq([i \in DOMAIN parts |->
                   (IF i = 1 \/ parts[i] = <<>> THEN <<>> ELSE <<Tok(",")>>) \o parts[i]])

Commas(parts) ==
    FlattenSeq([i \in DOMAIN parts |-> (IF i = 1 THEN <<>> ELSE <<Tok(",")>>) \o parts[i]])

FormatNamedDirective(d) ==
    <<d.name>> \o d.prefixes
    \o (IF d.body = <<>> THEN <<>> ELSE <<Tok("{")>> \o d.body[1] \o <<Tok("}")>>) \o <<NL>>

FormatDataset(d) ==
    LET row(r) == Lines(r.lead) \o <<Tok("(")>>
                  \o Commas([i \in DOMAIN r.cells |-> WriteAll(r.cells[i])]) \o <<Tok(")"), NL>>
    IN <<Tok("@dataset")>> \o d.type \o <<Tok("(")>>
       \o Commas([i \in DOMAIN d.columns |-> <<d.columns[i]>>]) \o <<Tok(")"), NL>>
       \o FlattenSeq([i \in DOMAIN d.rows |-> row(d.rows[i])])

\* What the lexer makes of the text between triple quotes: the newline that starts it is
\* dropped, and a last line of blanks with its newline; the other lines lose that indent.
Dedent(raw) ==
    LET text == IF raw # <<>> /\ raw[1] = "nl" THEN Tail(raw) ELSE raw
        lineOf(s, i) == Max({0} \cup {j \in 1 .. i - 1 : s[j] = "nl"})
        start == lineOf(text, Len(text) + 1)
        last == SubSeq(text, start + 1, Len(text))
        blank == ToSet(last) \subseteq {" "}
        indent == IF blank THEN last ELSE <<>>
        kept == IF blank THEN SubSeq(text, 1, start - 1) ELSE text
        indented(i) == /\ i <= lineOf(kept, i) + Len(indent)
                       /\ IsPrefix(indent, SubSeq(kept, lineOf(kept, i) + 1, Len(kept)))
        rest == SelectSeq([i \in DOMAIN kept |-> i], LAMBDA i : ~indented(i))
    IN [i \in DOMAIN rest |-> kept[rest[i]]]

\* The body of a @proto source is a sequence over "x", "quote", "nl" and " ", with no three
\* quotes in a row.  It is written between triple quotes as it is: the string ends at the
\* first three quotes, so quotes that end the body are left over, one as a string its line
\* ends and two as an empty string.
TripleQuoted(text) ==
    LET end == Max({0} \cup {i \in DOMAIN text : text[i] # "quote"})
        over == CASE Len(text) - end = 0 -> <<>>
                  [] Len(text) - end = 1 -> <<<<"badstr", <<>>>>>>
                  [] Len(text) - end = 2 -> <<<<"string", <<>>>>>>
    IN <<<<"string", Dedent(SubSeq(text, 1, end))>>>> \o over

\* A body in braces is raw text, and bytes are written in the base64 of what they decode to.
FormatProto(d) ==
    <<Tok("@proto")>> \o d.name
    \o (IF d.body[1][1] = "string" THEN TripleQuoted(d.body[1][2]) ELSE d.body) \o <<NL>>

FormatDirective(d) ==
    Lines(d.lead) \o (CASE d.n = "directive" -> FormatNamedDirective(d)
                        [] d.n = "dataset" -> FormatDataset(d)
                        [] d.n = "proto" -> FormatProto(d))

FormatDocument(doc) ==
    LET type == IF doc.type = <<>> THEN <<>> ELSE <<Tok("@type")>> \o doc.type \o <<NL>>
    IN IF doc.dirs = <<>>
       THEN type \o (IF type = <<>> THEN <<>> ELSE <<NL>>) \o Lines(doc.lead)
            \o WriteAll(doc.entries) \o Lines(doc.trail)
       ELSE type \o Lines(doc.lead)
            \o FlattenSeq([i \in DOMAIN doc.dirs |-> FormatDirective(doc.dirs[i])])
            \o (IF doc.entries = <<>> THEN <<>> ELSE <<NL>> \o WriteAll(doc.entries))
            \o Lines(doc.trail)
================================================================================
