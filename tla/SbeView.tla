------------------------------ MODULE SbeView ------------------------------
(***************************************************************************)
(* Reading an SBE message without decoding it: Codec::NewView checks the   *)
(* header and every group header once, and View and GroupView then read    *)
(* the buffer with few checks of their own.  Codec::UnmarshalInto walks    *)
(* the same bytes by itself (sbe/codec.cc, view.cc, unmarshal.cc).         *)
(*                                                                         *)
(* The buffer is its size and what its headers say.  A group header is     *)
(* read at the offsets NewView read one from, or anywhere else, where it   *)
(* says anything.                                                          *)
(***************************************************************************)
EXTENDS Integers, Sequences

CONSTANTS Layouts,       \* templates, as SbeTemplate lays them out
          HeaderSize,    \* kHeaderSize, 8
          GroupHeader,   \* bytes of a group header, 4
          Uint16,        \* the values of a header's fields
          Buffers,       \* sizes of the buffers handed to the codec
          MaxMessage,    \* max_message_size_
          MaxRepeated    \* max_repeated_

\* A layout is [blocks, root, groups]: the field lists, the root block's and
\* each group's.  Every field lies inside its block, and a composite takes
\* the bytes of its own list: SbeTemplate's BlocksTiled and CompositesFit.
ASSUME LayoutAssumption ==
  \A t \in Layouts :
    /\ DOMAIN t.blocks \subseteq Nat \ {0} /\ t.root \in DOMAIN t.blocks
    /\ t.groups \in Seq(DOMAIN t.blocks)
    /\ \A b \in DOMAIN t.blocks :
         /\ t.blocks[b].length \in Nat
         /\ t.blocks[b].fields \in Seq([offset : Nat, size : Nat, sub : Nat])
         /\ \A i \in DOMAIN t.blocks[b].fields :
              LET f == t.blocks[b].fields[i] IN
              /\ f.offset + f.size <= t.blocks[b].length
              /\ f.sub # 0 => f.sub \in DOMAIN t.blocks /\ t.blocks[f.sub].length = f.size

ASSUME ViewAssumption ==
  /\ HeaderSize \in Nat /\ GroupHeader \in Nat \ {0}
  /\ Uint16 \subseteq Nat /\ Buffers \subseteq Nat
  /\ MaxMessage \in Nat /\ MaxRepeated \in Nat

VARIABLES tmpl,   \* the template the header names
          size,   \* data.size()
          block,  \* the wire blockLength
          heads,  \* the group headers read by ValidateGroups: [at, block, count]
          pc,     \* "new", "groups", "view", "walk", "refused"
          pos,    \* ValidateGroups's pos, then Group's
          want,   \* the group Group looks for
          seen,   \* the groups Group has passed
          view,   \* the View at hand: [base, len, blk, root]; blk = 0 has no fields
          gview,  \* the GroupView at hand: [base, len, block, count, blk]
          read,   \* the bytes the last accessor touched or handed out: [lo, hi]
          upos,   \* UnmarshalInto's pos
          spans   \* the groups UnmarshalInto has decoded: [base, block, count]

bufvars == <<tmpl, size, block, heads>>
vars    == <<bufvars, pc, pos, want, seen, view, gview, read, upos, spans>>

NoView  == [base |-> 0, len |-> 0, blk |-> 0, root |-> FALSE]
NoGroup == [base |-> 0, len |-> 0, block |-> 0, count |-> 0, blk |-> 0]
Nothing == [lo |-> 0, hi |-> 0]

Init ==
  /\ tmpl \in Layouts /\ size \in Buffers /\ block \in Uint16
  /\ heads = <<>> /\ pc = "new" /\ pos = 0 /\ want = 0 /\ seen = 0
  /\ view = NoView /\ gview = NoGroup /\ read = Nothing /\ upos = 0 /\ spans = <<>>

Length(b) == tmpl.blocks[b].length
-----------------------------------------------------------------------------
(* NewView and UnmarshalInto begin alike: the header, the root block, then *)
(* ValidateGroups.                                                         *)

\* The header's ids name no template, or its sizes do not fit.
HeaderRefused ==
  \/ size > MaxMessage
  \/ size < HeaderSize
  \/ block < Length(tmpl.root)
  \/ size < HeaderSize + block

NewView ==
  /\ pc = "new"
  /\ \E known \in BOOLEAN :
       IF ~known \/ HeaderRefused
       THEN pc' = "refused" /\ pos' = pos
       ELSE pc' = "groups" /\ pos' = HeaderSize + block
  /\ UNCHANGED <<bufvars, want, seen, view, gview, read, upos, spans>>

\* Wrong: leaves out the check that count entries fit.
GroupRefusedLoose(b, eb, count, p) ==
  \/ eb < Length(b)
  \/ count > 0 /\ eb = 0
  \/ count > MaxRepeated

\* What ValidateGroups checks of a header [eb, count] that ends at p.
GroupRefused(b, eb, count, p) ==
  \/ eb < Length(b)
  \/ count > 0 /\ eb = 0
  \/ eb > 0 /\ count > (size - p) \div eb
  \/ count > MaxRepeated

\* One turn of ValidateGroups's loop.
ValidateGroup ==
  /\ pc = "groups"
  /\ Len(heads) < Len(tmpl.groups)
  /\ IF size < pos + GroupHeader
     THEN pc' = "refused" /\ UNCHANGED <<heads, pos>>
     ELSE \E eb, count \in Uint16 :
            IF GroupRefused(tmpl.groups[Len(heads) + 1], eb, count, pos + GroupHeader)
            THEN pc' = "refused" /\ UNCHANGED <<heads, pos>>
            ELSE /\ heads' = Append(heads, [at |-> pos, block |-> eb, count |-> count])
                 /\ pos' = pos + GroupHeader + eb * count
                 /\ pc' = pc
  /\ UNCHANGED <<tmpl, size, block, want, seen, view, gview, read, upos, spans>>

\* The buffer is accepted: NewView returns the view of the root block, and
\* UnmarshalInto decodes that block and goes on behind it.
Accept ==
  /\ pc = "groups"
  /\ Len(heads) = Len(tmpl.groups)
  /\ pc' = "view"
  /\ view' = [base |-> HeaderSize, len |-> block, blk |-> tmpl.root, root |-> TRUE]
  /\ upos' = HeaderSize + block
  /\ read' = [lo |-> HeaderSize, hi |-> HeaderSize + block]
  /\ UNCHANGED <<bufvars, pos, want, seen, gview, spans>>
-----------------------------------------------------------------------------
(* View and GroupView.                                                     *)

\* What a group header read at p says.
HeaderAt(p) ==
  IF \E k \in DOMAIN heads : heads[k].at = p
  THEN {[block |-> heads[k].block, count |-> heads[k].count] :
          k \in {j \in DOMAIN heads : heads[j].at = p}}
  ELSE [block : Uint16, count : Uint16]

Fields == IF view.blk = 0 THEN <<>> ELSE tmpl.blocks[view.blk].fields

\* Bool, Int, Uint, Float, String and Bytes: each reads no more than the
\* field's bytes.
ReadField(i) ==
  /\ pc = "view" /\ i \in DOMAIN Fields
  /\ read' = [lo |-> view.base + Fields[i].offset,
              hi |-> view.base + Fields[i].offset + Fields[i].size]
  /\ UNCHANGED <<bufvars, pc, pos, want, seen, view, gview, upos, spans>>

Composite(i) ==
  /\ pc = "view" /\ i \in DOMAIN Fields
  /\ view' = IF Fields[i].sub = 0 THEN NoView
             ELSE [base |-> view.base + Fields[i].offset, len |-> Fields[i].size,
                   blk |-> Fields[i].sub, root |-> FALSE]
  /\ UNCHANGED <<bufvars, pc, pos, want, seen, gview, read, upos, spans>>

RootEnd == view.len

\* Group of a name begins at the end of the root block.  Only the root view
\* has groups.
Group(g) ==
  /\ pc = "view" /\ view.root /\ g \in DOMAIN tmpl.groups
  /\ pc' = "walk" /\ want' = g /\ seen' = 0 /\ pos' = RootEnd
  /\ UNCHANGED <<bufvars, view, gview, read, upos, spans>>

\* Wrong: goes past the entries and not past their header.
PastGroupShort(p, h) == p + h.block * h.count

PastGroup(p, h) == p + GroupHeader + h.block * h.count

\* Wrong: asks for room past the header.
NoHeaderLeftEarly == size < HeaderSize + pos + GroupHeader + 1

\* data_.size() < pos + 4, with pos short of the message header.
NoHeaderLeft == size < pos + GroupHeader

\* One turn of Group's loop; pos counts from the end of the message header.
WalkGroup ==
  /\ pc = "walk"
  /\ IF NoHeaderLeft
     THEN pc' = "view" /\ gview' = NoGroup /\ UNCHANGED <<pos, seen, read>>
     ELSE \E h \in HeaderAt(HeaderSize + pos) :
            IF seen + 1 = want
            THEN /\ gview' = [base |-> HeaderSize + pos + GroupHeader, len |-> h.block * h.count,
                              block |-> h.block, count |-> h.count, blk |-> tmpl.groups[want]]
                 /\ read' = [lo |-> HeaderSize + pos,
                             hi |-> HeaderSize + pos + GroupHeader + h.block * h.count]
                 /\ pc' = "view"
                 /\ UNCHANGED <<pos, seen>>
            ELSE /\ read' = [lo |-> HeaderSize + pos, hi |-> HeaderSize + pos + GroupHeader]
                 /\ pos' = PastGroup(pos, h)
                 /\ seen' = seen + 1
                 /\ UNCHANGED <<pc, gview>>
  /\ UNCHANGED <<bufvars, want, view, upos, spans>>

EntryOutOfRange(i) == i >= gview.count \/ gview.len < (i + 1) * gview.block

Entry(i) ==
  /\ pc = "view" /\ gview.blk # 0
  /\ view' = IF EntryOutOfRange(i) THEN NoView
             ELSE [base |-> gview.base + i * gview.block, len |-> gview.block,
                   blk |-> gview.blk, root |-> FALSE]
  /\ UNCHANGED <<bufvars, pc, pos, want, seen, gview, read, upos, spans>>

\* The caller goes back to the view NewView returned.
BackToRoot ==
  /\ pc = "view" /\ ~view.root
  /\ view' = [base |-> HeaderSize, len |-> block, blk |-> tmpl.root, root |-> TRUE]
  /\ UNCHANGED <<bufvars, pc, pos, want, seen, gview, read, upos, spans>>
-----------------------------------------------------------------------------
\* UnmarshalInto decodes a group: each entry takes the wire's block.
UnmarshalGroup ==
  /\ pc = "view"
  /\ Len(spans) < Len(tmpl.groups)
  /\ \E h \in HeaderAt(upos) :
       /\ spans' = Append(spans, [base |-> upos + GroupHeader, block |-> h.block,
                                  count |-> h.count])
       /\ read' = [lo |-> upos, hi |-> upos + GroupHeader + h.block * h.count]
       /\ upos' = upos + GroupHeader + h.block * h.count
  /\ UNCHANGED <<bufvars, pc, pos, want, seen, view, gview>>

Fieldwise == \E i \in DOMAIN Fields : ReadField(i) \/ Composite(i)
Next == \/ NewView \/ ValidateGroup \/ Accept
        \/ Fieldwise
        \/ \E g \in DOMAIN tmpl.groups : Group(g)
        \/ WalkGroup
        \/ \E i \in Uint16 : Entry(i)
        \/ BackToRoot \/ UnmarshalGroup

Spec == Init /\ [][Next]_vars
-----------------------------------------------------------------------------
GroupHead == [at : Nat, block : Nat, count : Nat]
ViewType  == [base : Nat, len : Nat, blk : Nat, root : BOOLEAN]
GroupType == [base : Nat, len : Nat, block : Nat, count : Nat, blk : Nat]
Span      == [base : Nat, block : Nat, count : Nat]

TypeOK ==
  /\ size \in Nat /\ block \in Nat
  /\ heads \in Seq(GroupHead)
  /\ pc \in {"new", "groups", "view", "walk", "refused"}
  /\ pos \in Nat /\ want \in Nat /\ seen \in Nat
  /\ view \in ViewType
  /\ gview \in GroupType
  /\ read \in [lo : Nat, hi : Nat] /\ upos \in Nat
  /\ spans \in Seq(Span)

\* "the accessors never read past the buffer" (sbe.h, Codec::NewView): none
\* of View, GroupView and UnmarshalInto reads, or hands out, a byte the buffer
\* does not have, whatever its headers say and in whatever order a caller
\* goes through groups, entries and composites.
ReadsInBounds ==
  /\ read.hi <= size
  /\ view.base + view.len <= size
  /\ gview.base + gview.len <= size

\* A view holds the fields it offers: every field of its template lies within
\* its own bytes, so none is read from the entry or the group after it.
FieldsInView == view.blk # 0 => Length(view.blk) <= view.len

\* A group read through a View is the group UnmarshalInto decodes: the two
\* walks, one from the root block and one from the buffer, meet the same
\* headers.
GroupsAgree ==
  pc = "view" /\ gview.blk # 0 /\ want \in DOMAIN spans =>
    /\ gview.base = spans[want].base
    /\ gview.block = spans[want].block /\ gview.count = spans[want].count

\* Every entry of a group is there: Entry's own guard refuses no index below
\* Len, and Len is within MaxRepeatedCount.
EntriesThere ==
  gview.blk # 0 =>
    /\ gview.count <= MaxRepeated
    /\ \A i \in 0 .. gview.count - 1 : ~EntryOutOfRange(i)

\* A group the template has is found: Group's guard, which leaves the message
\* header out of account, never ends the walk early.
GroupsFound == [][pc = "walk" /\ pc' = "view" => gview'.blk # 0]_vars
-----------------------------------------------------------------------------
(* The inductive invariant behind them.                                    *)

\* The first byte after a group.
After(h) == h.at + GroupHeader + h.block * h.count

\* Where the header of group k of a validated buffer is.
HeadPos(k) == IF k = 1 THEN HeaderSize + block ELSE After(heads[k - 1])

\* The headers ValidateGroups accepted lie one behind the other, with their
\* entries, inside the buffer.
Chain ==
  /\ Len(heads) <= Len(tmpl.groups)
  /\ \A k \in DOMAIN heads :
       /\ heads[k].at = HeadPos(k)
       /\ After(heads[k]) <= size
       /\ Length(tmpl.groups[k]) <= heads[k].block
       /\ heads[k].count <= MaxRepeated
       /\ \A j \in 1 .. k - 1 : heads[j].at < heads[k].at

\* How far the codec has come: nothing is read before the buffer is accepted,
\* and each walk stands at the header of the group it comes to next.
Progress ==
  /\ pc \in {"groups", "view", "walk"} =>
       Length(tmpl.root) <= block /\ HeaderSize + block <= size
  /\ pc = "groups" => pos = HeadPos(Len(heads) + 1)
  /\ pc \in {"view", "walk"} => Len(heads) = Len(tmpl.groups)
  /\ pc \in {"new", "groups", "refused"} =>
       view = NoView /\ gview = NoGroup /\ read = Nothing /\ spans = <<>>
  /\ pc = "new" => heads = <<>>
  /\ pc = "walk" => /\ want \in DOMAIN heads /\ seen < want
                    /\ HeaderSize + pos = heads[seen + 1].at

\* The views at hand are views of this buffer.
Views ==
  /\ view.blk # 0 => view.blk \in DOMAIN tmpl.blocks
  /\ view.root => view.base = HeaderSize /\ view.len = block
  /\ gview.len = gview.block * gview.count
  /\ gview.count <= MaxRepeated
  /\ gview.blk # 0 => gview.blk \in DOMAIN tmpl.blocks /\ Length(gview.blk) <= gview.block
  /\ pc = "view" /\ gview.blk # 0 =>
       /\ want \in DOMAIN heads
       /\ gview.base = heads[want].at + GroupHeader
       /\ gview.block = heads[want].block /\ gview.count = heads[want].count

\* UnmarshalInto has decoded the first of the groups and stands at the next.
Decoded ==
  /\ Len(spans) <= Len(heads)
  /\ \A k \in DOMAIN spans :
       spans[k] = [base |-> heads[k].at + GroupHeader, block |-> heads[k].block,
                   count |-> heads[k].count]
  /\ pc \in {"view", "walk"} => upos = HeadPos(Len(spans) + 1)

IInv == TypeOK /\ tmpl \in Layouts /\ Chain /\ Progress /\ ReadsInBounds /\ FieldsInView
          /\ Views /\ Decoded
=============================================================================
