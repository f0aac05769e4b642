---------------------------- MODULE SbeTemplate ----------------------------
(***************************************************************************)
(* BuildTemplate: a message descriptor becomes the layout of its SBE block *)
(* (sbe/template.cc).  A nested message is laid out by a call of its own,  *)
(* so the calls in progress are a stack; a finished list of field templates *)
(* is kept in blocks, and a field template names the one it owns.          *)
(***************************************************************************)
EXTENDS Integers, Sequences

CONSTANTS Types,      \* message types
          Root,       \* the message a template is built for
          Schemas,    \* descriptors to build from: s[t][n] is field number n of t
          MaxUint16   \* kMaxUint16

ASSUME TemplateAssumption ==
  /\ MaxUint16 \in Nat /\ Root \in Types
  /\ \A s \in Schemas : \A t \in Types : \A n \in DOMAIN s[t] :
       n \in Nat \ {0} /\ s[t][n].size \in Nat /\ s[t][n].type \in Types

VARIABLES desc,    \* the descriptors, one of Schemas
          stack,   \* the calls in progress, outermost first
          blocks,  \* the finished field lists: [type, fields, length]
          groups,  \* tmpl.groups: [num, block]
          st       \* BuildTemplate's outcome

vars == <<desc, stack, blocks, groups, st>>

\* FieldTemplate: sub is the block in composite, 0 for an empty composite.
FieldTemplate == [num : Nat, offset : Nat, size : Nat, sub : Nat]

\* BuildTemplate, BuildGroupTemplate or BuildCompositeFields, after the field
\* numbered at.
Modes == {"root", "group", "composite"}
Frame == [type : Types, mode : Modes, at : Nat, offset : Nat, out : Seq(FieldTemplate)]
Block == [type : Types, fields : Seq(FieldTemplate), length : Nat]

Call(t, m) == [type |-> t, mode |-> m, at |-> 0, offset |-> 0, out |-> <<>>]

Init == /\ desc \in Schemas
        /\ stack = <<Call(Root, "root")>>
        /\ blocks = <<>> /\ groups = <<>> /\ st = "building"

Top  == stack[Len(stack)]
Pop(s) == SubSeq(s, 1, Len(s) - 1)

\* SortedFields: the fields are taken in the order of their numbers.
Left(fr) == {n \in DOMAIN desc[fr.type] : n > fr.at}

IsNext(n) == n \in Left(Top) /\ \A m \in Left(Top) : n <= m

\* The fields a call refuses: a map, a repeated scalar and a list below the
\* root; a oneof, which a group alone takes; a field FieldEncodingSize has no
\* size for.
Refused(f, mode) ==
  \/ f.kind \in {"map", "repeatedScalar", "noEncoding"}
  \/ f.kind = "repeatedMessage" /\ mode # "root"
  \/ f.oneof /\ mode # "group"

EndOfField(offset, size) ==
  [ok |-> offset + size <= MaxUint16, end |-> offset + size]

Refuse == st' = "refused" /\ UNCHANGED <<stack, blocks, groups>>

\* Wrong: the next field goes at the same offset.
PlaceKeepsOffset(rest, fr, n, size, sub) ==
  LET end == EndOfField(fr.offset, size)
      ft  == [num |-> n, offset |-> fr.offset % (MaxUint16 + 1), size |-> size, sub |-> sub]
  IN  IF end.ok
      THEN /\ stack' = Append(rest, [fr EXCEPT !.at = n, !.out = Append(fr.out, ft)])
           /\ UNCHANGED <<groups, st>>
      ELSE st' = "refused" /\ UNCHANGED <<stack, groups>>

\* A field of size bytes, with the composite sub, goes at the call's offset;
\* rest are the calls around it.
Place(rest, fr, n, size, sub) ==
  LET end == EndOfField(fr.offset, size)
      ft  == [num |-> n, offset |-> fr.offset % (MaxUint16 + 1), size |-> size, sub |-> sub]
  IN  IF end.ok
      THEN /\ stack' = Append(rest, [fr EXCEPT !.at = n, !.offset = end.end,
                                               !.out = Append(fr.out, ft)])
           /\ UNCHANGED <<groups, st>>
      ELSE st' = "refused" /\ UNCHANGED <<stack, groups>>

RefuseField(n) == Refused(desc[Top.type][n], Top.mode) /\ Refuse

PlaceScalar(n) ==
  LET f == desc[Top.type][n] IN
  /\ ~Refused(f, Top.mode)
  /\ f.kind = "scalar"
  /\ Place(Pop(stack), Top, n, f.size, 0)
  /\ UNCHANGED blocks

\* A nested message's fields are laid out first.
Enter(n) ==
  LET f == desc[Top.type][n] IN
  /\ ~Refused(f, Top.mode)
  /\ f.kind \in {"message", "repeatedMessage"}
  /\ stack' = Append(stack, Call(f.type, IF f.kind = "message" THEN "composite" ELSE "group"))
  /\ UNCHANGED <<blocks, groups, st>>

NewBlock == Len(blocks) + 1

\* A call has no field left.  Its list goes to the caller: a composite into a
\* field template, a group into tmpl.groups, the root into the template.
Leave ==
  LET fr    == Top
      rest  == Pop(stack)
      up    == Pop(rest)
      over  == rest[Len(rest)]
      n     == CHOOSE k \in Left(over) : \A m \in Left(over) : k <= m
      block == [type |-> fr.type, fields |-> fr.out, length |-> fr.offset % (MaxUint16 + 1)]
  IN
  /\ Left(fr) = {}
  /\ blocks' = Append(blocks, block)
  /\ \/ /\ fr.mode = "composite"
        /\ Place(up, over, n, block.length, IF fr.out = <<>> THEN 0 ELSE NewBlock)
     \/ /\ fr.mode = "group"
        /\ groups' = Append(groups, [num |-> n, block |-> NewBlock])
        /\ stack' = Append(up, [over EXCEPT !.at = n])
        /\ UNCHANGED st
     \/ /\ fr.mode = "root"
        /\ stack' = rest /\ st' = "ok" /\ UNCHANGED groups

Step == /\ st = "building"
        /\ \/ \E n \in Left(Top) : IsNext(n) /\ (RefuseField(n) \/ PlaceScalar(n) \/ Enter(n))
           \/ Leave
        /\ UNCHANGED desc

Spec == Init /\ [][Step]_vars
-----------------------------------------------------------------------------
TypeOK ==
  /\ stack \in Seq(Frame) /\ blocks \in Seq(Block)
  /\ groups \in Seq([num : Nat, block : Nat])
  /\ st \in {"building", "ok", "refused"}

\* The fields of a list lie end to end from 0 to end, which a uint16 holds.
Tiled(fields, end) ==
  /\ end <= MaxUint16
  /\ fields = <<>> => end = 0
  /\ \A i \in DOMAIN fields :
       /\ fields[i].offset + fields[i].size <= end
       /\ i = 1 => fields[i].offset = 0
       /\ i = Len(fields) => fields[i].offset + fields[i].size = end
       /\ i # Len(fields) => fields[i + 1].offset = fields[i].offset + fields[i].size

\* A composite is the list of a block before the k-th, and has its length.
Owns(f, k) == f.sub # 0 => f.sub < k /\ f.size = blocks[f.sub].length

\* No two fields of a block overlap, none is left a gap, and none reaches past
\* the blockLength the header states, at any depth and at any field size:
\* narrowing an offset to 16 bits never changes it.  A composite takes exactly
\* the bytes its own fields take, which were laid out before it.
BlocksTiled ==
  /\ \A k \in DOMAIN blocks : Tiled(blocks[k].fields, blocks[k].length)
  /\ \A k \in DOMAIN stack : Tiled(stack[k].out, stack[k].offset)
  /\ \A k \in DOMAIN blocks : \A i \in DOMAIN blocks[k].fields : Owns(blocks[k].fields[i], k)
-----------------------------------------------------------------------------
(* The inductive invariant behind it.                                      *)

\* The calls in progress: the root's first, each but the last at the field
\* the next was made for.
Nested ==
  /\ st = "building" => stack # <<>>
  /\ \A k \in DOMAIN stack : stack[k].mode = "root" <=> k = 1
  /\ \A k \in DOMAIN stack : k < Len(stack) => \E n \in Left(stack[k]) : \A m \in Left(stack[k]) : n <= m

\* The composites of an unfinished list are finished.
Owned == \A k \in DOMAIN stack : \A i \in DOMAIN stack[k].out : Owns(stack[k].out[i], Len(blocks) + 1)

IInv == TypeOK /\ desc \in Schemas /\ BlocksTiled /\ Nested /\ Owned
=============================================================================
