------------------------- MODULE SbeTemplateProofs -------------------------
(***************************************************************************)
(* BuildTemplate tiles every block, for every schema, every depth of       *)
(* nesting and every size of field: what SbeView assumes of its layouts.   *)
(***************************************************************************)
EXTENDS SbeTemplate, SequenceTheorems, TLAPS

\* Narrowing to 16 bits keeps what 16 bits hold.
LEMMA Narrow == ASSUME NEW x \in Nat, x <= MaxUint16
                PROVE  x % (MaxUint16 + 1) = x
BY TemplateAssumption

\* Pop drops the last of a sequence and keeps the others.
LEMMA PopFacts ==
  ASSUME NEW S, NEW s \in Seq(S), s # <<>>
  PROVE  /\ Len(s) \in Nat \ {0} /\ DOMAIN s = 1 .. Len(s)
         /\ Pop(s) \in Seq(S) /\ Len(Pop(s)) = Len(s) - 1
         /\ DOMAIN Pop(s) = 1 .. Len(s) - 1
         /\ \A i \in 1 .. Len(s) - 1 : Pop(s)[i] = s[i]
<1>1. Len(s) \in Nat \ {0} /\ DOMAIN s = 1 .. Len(s)
  BY EmptySeq, LenProperties
<1>2. \A i \in 1 .. Len(s) - 1 : s[i] \in S
  BY <1>1, ElementOfSeq
<1>3. 1 \in Int /\ Len(s) - 1 \in Int
  BY <1>1
<1>4. /\ SubSeq(s, 1, Len(s) - 1) \in Seq(S)
      /\ Len(SubSeq(s, 1, Len(s) - 1)) = IF 1 <= Len(s) - 1 THEN (Len(s) - 1) - 1 + 1 ELSE 0
      /\ \A i \in 1 .. (Len(s) - 1) - 1 + 1 : SubSeq(s, 1, Len(s) - 1)[i] = s[1 + i - 1]
  BY <1>2, <1>3, SubSeqProperties
<1>5. DOMAIN SubSeq(s, 1, Len(s) - 1) = 1 .. Len(SubSeq(s, 1, Len(s) - 1))
  BY <1>4, LenProperties
<1>6. /\ (Len(s) - 1) - 1 + 1 = Len(s) - 1
      /\ Len(SubSeq(s, 1, Len(s) - 1)) = Len(s) - 1
      /\ \A i \in 1 .. Len(s) - 1 : 1 + i - 1 = i
  BY <1>1, <1>4
<1>7. \A i \in 1 .. Len(s) - 1 : SubSeq(s, 1, Len(s) - 1)[i] = s[i]
  BY <1>4, <1>6
<1> QED BY <1>1, <1>4, <1>5, <1>6, <1>7 DEF Pop

\* What Append does to the elements of a sequence.
LEMMA AppendFacts ==
  ASSUME NEW S, NEW s \in Seq(S), NEW e \in S
  PROVE  /\ Append(s, e) \in Seq(S) /\ Len(Append(s, e)) = Len(s) + 1
         /\ Len(s) \in Nat /\ DOMAIN s = 1 .. Len(s)
         /\ DOMAIN Append(s, e) = 1 .. Len(s) + 1
         /\ \A i \in 1 .. Len(s) : Append(s, e)[i] = s[i]
         /\ Append(s, e)[Len(s) + 1] = e
OBVIOUS

\* A field placed at the end of a tiled list leaves it tiled.
LEMMA AppendTiled ==
  ASSUME NEW fields \in Seq(FieldTemplate), NEW end \in Nat, Tiled(fields, end),
         NEW ft \in FieldTemplate, ft.offset = end, end + ft.size <= MaxUint16
  PROVE  Tiled(Append(fields, ft), end + ft.size)
<1> DEFINE new == Append(fields, ft)
<1>1. /\ Len(new) = Len(fields) + 1 /\ Len(fields) \in Nat
      /\ DOMAIN new = 1 .. Len(fields) + 1 /\ DOMAIN fields = 1 .. Len(fields)
      /\ \A i \in 1 .. Len(fields) : new[i] = fields[i]
      /\ new[Len(fields) + 1] = ft
  BY AppendFacts
<1>2. ft.offset \in Nat /\ ft.size \in Nat
  BY DEF FieldTemplate
<1>3. \A i \in 1 .. Len(fields) : fields[i].offset \in Nat /\ fields[i].size \in Nat
  <2>1. \A i \in 1 .. Len(fields) : fields[i] \in FieldTemplate
    BY ElementOfSeq
  <2> QED BY <2>1 DEF FieldTemplate
<1> HIDE DEF new
<1>4. ASSUME NEW i \in DOMAIN new
      PROVE  /\ new[i].offset + new[i].size <= end + ft.size
             /\ i = 1 => new[i].offset = 0
             /\ i = Len(new) => new[i].offset + new[i].size = end + ft.size
             /\ i # Len(new) => new[i + 1].offset = new[i].offset + new[i].size
  <2>1. CASE i = Len(fields) + 1
    <3>1. i = 1 => fields = <<>>
      BY <2>1, <1>1
    <3> QED BY <2>1, <3>1, <1>1, <1>2 DEF Tiled
  <2>2. CASE i \in 1 .. Len(fields)
    <3>1. /\ fields[i].offset + fields[i].size <= end
          /\ i = 1 => fields[i].offset = 0
          /\ i = Len(fields) => fields[i].offset + fields[i].size = end
          /\ i # Len(fields) => fields[i + 1].offset = fields[i].offset + fields[i].size
      BY <2>2, <1>1 DEF Tiled
    <3>2. CASE i = Len(fields)
      BY <2>2, <3>1, <3>2, <1>1, <1>2, <1>3
    <3>3. CASE i # Len(fields)
      <4>1. i + 1 \in 1 .. Len(fields)
        BY <2>2, <3>3, <1>1
      <4>2. new[i] = fields[i] /\ new[i + 1] = fields[i + 1] /\ i # Len(new)
        BY <2>2, <4>1, <1>1
      <4>3. fields[i].offset \in Nat /\ fields[i].size \in Nat
        BY <2>2, <1>3
      <4>4. fields[i].offset + fields[i].size <= end + ft.size
        BY <3>1, <4>3, <1>2
      <4> QED BY <3>1, <3>3, <4>2, <4>4, Zenon
    <3> QED BY <3>2, <3>3
  <2> QED BY <1>1, <2>1, <2>2
<1>5. new # <<>>
  BY <1>1
<1> QED BY <1>1, <1>2, <1>4, <1>5 DEF Tiled, new

\* An index of a list that is not the last.
LEMMA Below ==
  ASSUME NEW l \in Nat, NEW k \in 1 .. l, k # l
  PROVE  k < l
OBVIOUS

\* A list of one call has none around it.
LEMMA OnlyOne ==
  ASSUME NEW l, l = 1
  PROVE  1 .. l - 1 = {}
OBVIOUS

\* The calls in progress, and the one that runs.
LEMMA StackFacts ==
  ASSUME IInv, st = "building"
  PROVE  /\ Len(stack) \in Nat \ {0} /\ DOMAIN stack = 1 .. Len(stack)
         /\ Pop(stack) \in Seq(Frame) /\ Len(Pop(stack)) = Len(stack) - 1
         /\ DOMAIN Pop(stack) = 1 .. Len(stack) - 1
         /\ \A k \in 1 .. Len(stack) - 1 : Pop(stack)[k] = stack[k]
         /\ \A k \in 1 .. Len(stack) : stack[k] \in Frame
         /\ Len(blocks) \in Nat /\ DOMAIN blocks = 1 .. Len(blocks)
         /\ \A k \in 1 .. Len(blocks) : blocks[k] \in Block
<1>1. stack \in Seq(Frame) /\ stack # <<>> /\ blocks \in Seq(Block)
  BY DEF IInv, TypeOK, Nested
<1>2. /\ Len(stack) \in Nat \ {0} /\ DOMAIN stack = 1 .. Len(stack)
      /\ Pop(stack) \in Seq(Frame) /\ Len(Pop(stack)) = Len(stack) - 1
      /\ DOMAIN Pop(stack) = 1 .. Len(stack) - 1
      /\ \A k \in 1 .. Len(stack) - 1 : Pop(stack)[k] = stack[k]
  BY <1>1, PopFacts
<1>3. \A k \in 1 .. Len(stack) : stack[k] \in Frame
  BY <1>1, ElementOfSeq
<1>4. Len(blocks) \in Nat /\ DOMAIN blocks = 1 .. Len(blocks)
  BY <1>1, LenProperties
<1>5. \A k \in 1 .. Len(blocks) : blocks[k] \in Block
  BY <1>1, ElementOfSeq
<1> QED BY <1>2, <1>3, <1>4, <1>5

\* The call fr after a field of size bytes was placed in it.
Placed(fr, n, size, sub) ==
  [fr EXCEPT !.at = n, !.offset = fr.offset + size,
             !.out = Append(fr.out, [num |-> n, offset |-> fr.offset % (MaxUint16 + 1), size |-> size, sub |-> sub])]

\* Place adds a field to a call and leaves its list tiled, or refuses.
LEMMA PlaceTiles ==
  ASSUME NEW rest, NEW fr \in Frame, NEW n \in Nat, NEW size \in Nat, NEW sub \in Nat,
         Tiled(fr.out, fr.offset), Place(rest, fr, n, size, sub)
  PROVE  \/ /\ stack' = Append(rest, Placed(fr, n, size, sub)) /\ groups' = groups /\ st' = st
            /\ Placed(fr, n, size, sub) \in Frame
            /\ Tiled(Placed(fr, n, size, sub).out, Placed(fr, n, size, sub).offset)
            /\ Placed(fr, n, size, sub).mode = fr.mode /\ Placed(fr, n, size, sub).type = fr.type
            /\ DOMAIN Placed(fr, n, size, sub).out = 1 .. Len(fr.out) + 1
            /\ DOMAIN fr.out = 1 .. Len(fr.out) /\ Len(fr.out) \in Nat
            /\ \A i \in 1 .. Len(fr.out) : Placed(fr, n, size, sub).out[i] = fr.out[i]
            /\ Placed(fr, n, size, sub).out[Len(fr.out) + 1].sub = sub
            /\ Placed(fr, n, size, sub).out[Len(fr.out) + 1].size = size
         \/ st' = "refused" /\ stack' = stack /\ groups' = groups
<1> DEFINE ft == [num |-> n, offset |-> fr.offset % (MaxUint16 + 1), size |-> size, sub |-> sub]
<1>1. /\ fr.type \in Types /\ fr.mode \in Modes /\ fr.at \in Nat /\ fr.offset \in Nat
      /\ fr.out \in Seq(FieldTemplate)
  BY DEF Frame
<1>2. CASE ~(fr.offset + size <= MaxUint16)
  BY <1>2 DEF Place, EndOfField
<1>3. CASE fr.offset + size <= MaxUint16
  <2>1. stack' = Append(rest, Placed(fr, n, size, sub)) /\ groups' = groups /\ st' = st
    BY <1>3 DEF Place, EndOfField, Placed
  <2>2. fr.offset % (MaxUint16 + 1) = fr.offset
    <3>1. fr.offset \in Nat
      BY <1>1
    <3>2. fr.offset <= MaxUint16
      BY <1>3, <3>1, TemplateAssumption
    <3> QED BY <3>1, <3>2, Narrow, Zenon
  <2>3. ft \in FieldTemplate /\ ft.offset = fr.offset /\ ft.size = size /\ ft.sub = sub
    BY <1>1, <2>2 DEF FieldTemplate
  <2> HIDE DEF ft
  <2>4. Tiled(Append(fr.out, ft), fr.offset + size)
    BY <1>1, <1>3, <2>3, AppendTiled
  <2>5. /\ Append(fr.out, ft) \in Seq(FieldTemplate)
        /\ Len(fr.out) \in Nat /\ DOMAIN fr.out = 1 .. Len(fr.out)
        /\ DOMAIN Append(fr.out, ft) = 1 .. Len(fr.out) + 1
        /\ \A i \in 1 .. Len(fr.out) : Append(fr.out, ft)[i] = fr.out[i]
        /\ Append(fr.out, ft)[Len(fr.out) + 1] = ft
    BY <1>1, <2>3, AppendFacts
  <2>6. /\ Placed(fr, n, size, sub).out = Append(fr.out, ft)
        /\ Placed(fr, n, size, sub).offset = fr.offset + size
        /\ Placed(fr, n, size, sub).mode = fr.mode /\ Placed(fr, n, size, sub).type = fr.type
        /\ Placed(fr, n, size, sub).at = n
    BY DEF Placed, Frame, ft
  <2>7. Placed(fr, n, size, sub) \in Frame
    <3>1. Placed(fr, n, size, sub) = [fr EXCEPT !.at = n, !.offset = fr.offset + size, !.out = Append(fr.out, ft)]
      BY DEF Placed, ft
    <3>2. fr.offset + size \in Nat
      BY <1>1
    <3> QED BY <1>1, <2>5, <3>1, <3>2 DEF Frame
  <2> QED BY <2>1, <2>3, <2>4, <2>5, <2>6, <2>7
<1> QED BY <1>2, <1>3

\* Owns, of a list of blocks.
OwnsIn(bs, f, k) == f.sub # 0 => f.sub < k /\ f.size = bs[f.sub].length

\* A finished block stays what it is.
LEMMA OwnsGrows ==
  ASSUME NEW bs \in Seq(Block), NEW b \in Block, NEW f \in FieldTemplate,
         NEW k \in Nat, k <= Len(bs) + 1, OwnsIn(bs, f, k)
  PROVE  OwnsIn(Append(bs, b), f, k) /\ OwnsIn(Append(bs, b), f, Len(bs) + 2)
<1>1. Len(bs) \in Nat /\ \A i \in 1 .. Len(bs) : Append(bs, b)[i] = bs[i]
  BY AppendFacts
<1>2. f.sub \in Nat
  BY DEF FieldTemplate
<1>3. f.sub # 0 => f.sub \in 1 .. Len(bs) /\ f.sub < Len(bs) + 2
  BY <1>1, <1>2 DEF OwnsIn
<1> QED BY <1>1, <1>3 DEF OwnsIn

\* What a call that ends does to the blocks, and to what the calls in progress own.
LEMMA BlockStep ==
  ASSUME IInv, st = "building", NEW b \in Block, blocks' = Append(blocks, b),
         Tiled(b.fields, b.length),
         \A i \in DOMAIN b.fields : OwnsIn(blocks, b.fields[i], Len(blocks) + 1)
  PROVE  /\ blocks' \in Seq(Block) /\ Len(blocks') = Len(blocks) + 1
         /\ blocks'[Len(blocks) + 1] = b
         /\ (\A k \in DOMAIN blocks : Tiled(blocks[k].fields, blocks[k].length))'
         /\ (\A k \in DOMAIN blocks : \A i \in DOMAIN blocks[k].fields : Owns(blocks[k].fields[i], k))'
         /\ \A k \in DOMAIN stack : \A i \in DOMAIN stack[k].out :
              OwnsIn(blocks', stack[k].out[i], Len(blocks') + 1)
<1>1. blocks \in Seq(Block)
  BY DEF IInv, TypeOK
<1>2. /\ blocks' \in Seq(Block) /\ Len(blocks') = Len(blocks) + 1 /\ Len(blocks) \in Nat
      /\ DOMAIN blocks = 1 .. Len(blocks) /\ DOMAIN blocks' = 1 .. Len(blocks) + 1
      /\ \A k \in 1 .. Len(blocks) : blocks'[k] = blocks[k]
      /\ blocks'[Len(blocks) + 1] = b
  BY <1>1, AppendFacts
<1>3. \A k \in 1 .. Len(blocks) + 1 : k \in 1 .. Len(blocks) \/ k = Len(blocks) + 1
  BY <1>2
<1>4. ASSUME NEW k \in DOMAIN blocks'
      PROVE  Tiled(blocks'[k].fields, blocks'[k].length)
  <2>1. CASE k \in 1 .. Len(blocks)
    BY <2>1, <1>2 DEF IInv, BlocksTiled
  <2>2. CASE k = Len(blocks) + 1
    BY <2>2, <1>2
  <2> QED BY <1>2, <1>3, <2>1, <2>2
<1>5. ASSUME NEW k \in DOMAIN blocks', NEW i \in DOMAIN blocks'[k].fields
      PROVE  OwnsIn(blocks', blocks'[k].fields[i], k)
  <2>1. CASE k \in 1 .. Len(blocks)
    <3>1. blocks'[k] = blocks[k] /\ blocks[k] \in Block /\ k \in Nat /\ k <= Len(blocks) + 1
      BY <2>1, <1>1, <1>2, ElementOfSeq
    <3>2. blocks[k].fields \in Seq(FieldTemplate)
      BY <3>1 DEF Block
    <3>3. blocks[k].fields[i] \in FieldTemplate
      BY <3>1, <3>2, ElementOfSeq, LenProperties
    <3>4. OwnsIn(blocks, blocks[k].fields[i], k)
      BY <2>1, <3>1, <1>2 DEF IInv, BlocksTiled, Owns, OwnsIn
    <3> QED BY <1>1, <3>1, <3>3, <3>4, OwnsGrows
  <2>2. CASE k = Len(blocks) + 1
    <3>1. b.fields \in Seq(FieldTemplate) /\ i \in DOMAIN b.fields
      BY <2>2, <1>2 DEF Block
    <3>2. b.fields[i] \in FieldTemplate
      BY <3>1, ElementOfSeq, LenProperties
    <3>3. k \in Nat /\ k <= Len(blocks) + 1 /\ OwnsIn(blocks, b.fields[i], k)
      BY <2>2, <1>2, <3>1
    <3> QED BY <1>1, <1>2, <2>2, <3>2, <3>3, OwnsGrows
  <2> QED BY <1>2, <1>3, <2>1, <2>2
<1>6. ASSUME NEW k \in DOMAIN stack, NEW i \in DOMAIN stack[k].out
      PROVE  OwnsIn(blocks', stack[k].out[i], Len(blocks') + 1)
  <2>1. stack[k] \in Frame
    BY StackFacts
  <2>2. stack[k].out \in Seq(FieldTemplate)
    BY <2>1 DEF Frame
  <2>3. stack[k].out[i] \in FieldTemplate
    BY <2>2, ElementOfSeq, LenProperties
  <2>4. OwnsIn(blocks, stack[k].out[i], Len(blocks) + 1)
    BY DEF IInv, Owned, Owns, OwnsIn
  <2>5. /\ Len(blocks) + 1 \in Nat /\ Len(blocks) + 1 <= Len(blocks) + 1
        /\ Len(blocks') + 1 = Len(blocks) + 2
    BY <1>2
  <2> QED BY <1>1, <2>3, <2>4, <2>5, OwnsGrows
<1>7. (\A k \in DOMAIN blocks : \A i \in DOMAIN blocks[k].fields : Owns(blocks[k].fields[i], k))'
  BY <1>5 DEF Owns, OwnsIn
<1> QED BY <1>2, <1>4, <1>6, <1>7

\* A call has a field to go on with.
HasNext(fr) == \E n \in Left(fr) : \A m \in Left(fr) : n <= m

\* The last of the calls in progress becomes fr, over s, a prefix of them.
LEMMA StackStep ==
  ASSUME IInv, st = "building", desc' = desc,
         NEW s \in Seq(Frame), NEW fr \in Frame, stack' = Append(s, fr),
         Len(s) <= Len(stack), \A k \in 1 .. Len(s) : s[k] = stack[k] /\ HasNext(s[k]),
         fr.mode = "root" <=> Len(s) = 0, Tiled(fr.out, fr.offset),
         \A k \in DOMAIN stack : \A i \in DOMAIN stack[k].out :
           OwnsIn(blocks', stack[k].out[i], Len(blocks') + 1),
         \A i \in DOMAIN fr.out : OwnsIn(blocks', fr.out[i], Len(blocks') + 1)
  PROVE  /\ stack' \in Seq(Frame)
         /\ (\A k \in DOMAIN stack : Tiled(stack[k].out, stack[k].offset))'
         /\ Nested' /\ Owned'
<1>1. /\ stack' \in Seq(Frame) /\ Len(stack') = Len(s) + 1 /\ Len(s) \in Nat
      /\ DOMAIN stack' = 1 .. Len(s) + 1
      /\ \A k \in 1 .. Len(s) : stack'[k] = s[k]
      /\ stack'[Len(s) + 1] = fr
  BY AppendFacts
<1>2. DOMAIN stack = 1 .. Len(stack) /\ Len(stack) \in Nat
  BY StackFacts
<1>3. \A k \in 1 .. Len(s) : stack'[k] = stack[k] /\ k \in DOMAIN stack
  BY <1>1, <1>2
<1>4. \A k \in 1 .. Len(s) + 1 : k \in 1 .. Len(s) \/ k = Len(s) + 1
  BY <1>1
<1>5. ASSUME NEW k \in DOMAIN stack'
      PROVE  Tiled(stack'[k].out, stack'[k].offset)
  <2>1. CASE k \in 1 .. Len(s)
    BY <2>1, <1>3 DEF IInv, BlocksTiled
  <2>2. CASE k = Len(s) + 1
    BY <2>2, <1>1
  <2> QED BY <1>1, <1>4, <2>1, <2>2
<1>6. Nested'
  <2>1. stack' # <<>>
    BY <1>1
  <2>2. ASSUME NEW k \in DOMAIN stack'
        PROVE  stack'[k].mode = "root" <=> k = 1
    <3>1. CASE k \in 1 .. Len(s)
      BY <3>1, <1>3 DEF IInv, Nested
    <3>2. CASE k = Len(s) + 1
      BY <3>2, <1>1
    <3> QED BY <1>1, <1>4, <3>1, <3>2
  <2>3. ASSUME NEW k \in DOMAIN stack', k < Len(stack')
        PROVE  (\E n \in Left(stack[k]) : \A m \in Left(stack[k]) : n <= m)'
    <3>1. k \in 1 .. Len(s)
      BY <2>3, <1>1
    <3>2. stack'[k] = s[k]
      BY <3>1, <1>1
    <3>3. Left(stack[k])' = Left(s[k])
      BY <3>2 DEF Left
    <3>4. HasNext(s[k])
      BY <3>1
    <3> QED BY <3>3, <3>4 DEF HasNext
  <2> QED BY <2>1, <2>2, <2>3 DEF Nested
<1>7. ASSUME NEW k \in DOMAIN stack', NEW i \in DOMAIN stack'[k].out
      PROVE  OwnsIn(blocks', stack'[k].out[i], Len(blocks') + 1)
  <2>1. CASE k \in 1 .. Len(s)
    BY <2>1, <1>3
  <2>2. CASE k = Len(s) + 1
    BY <2>2, <1>1
  <2> QED BY <1>1, <1>4, <2>1, <2>2
<1>8. Owned'
  BY <1>7 DEF Owned, Owns, OwnsIn
<1> QED BY <1>1, <1>5, <1>6, <1>8

\* BuildTemplate begins with one call and no field placed.
LEMMA InitInv == Init => IInv
<1> SUFFICES ASSUME Init PROVE IInv
  OBVIOUS
<1>1. Call(Root, "root") \in Frame
  BY TemplateAssumption DEF Call, Frame, Modes
<1>2. /\ stack \in Seq(Frame) /\ Len(stack) = 1 /\ DOMAIN stack = {1}
      /\ stack[1] = Call(Root, "root")
  BY <1>1 DEF Init
<1>3. TypeOK
  BY <1>2 DEF Init, TypeOK
<1>4. Tiled(<<>>, 0)
  BY TemplateAssumption DEF Tiled
<1>5. stack[1].out = <<>> /\ stack[1].offset = 0 /\ stack[1].mode = "root"
  BY <1>2 DEF Call
<1>6. blocks = <<>> /\ DOMAIN blocks = {} /\ DOMAIN stack[1].out = {}
  BY <1>5 DEF Init
<1>7. BlocksTiled
  BY <1>2, <1>4, <1>5, <1>6 DEF BlocksTiled
<1>8. Nested
  BY <1>2, <1>5 DEF Nested
<1>9. Owned
  BY <1>2, <1>6 DEF Owned
<1> QED BY <1>3, <1>7, <1>8, <1>9 DEF IInv, Init

\* The calls stay as they are and BuildTemplate refuses.
LEMMA RefuseKeeps ==
  ASSUME IInv, desc' = desc, stack' = stack, st' = "refused",
         \A k \in DOMAIN stack : \A i \in DOMAIN stack[k].out :
           OwnsIn(blocks', stack[k].out[i], Len(blocks') + 1)
  PROVE  /\ stack' \in Seq(Frame)
         /\ (\A k \in DOMAIN stack : Tiled(stack[k].out, stack[k].offset))'
         /\ Nested' /\ Owned'
<1>1. stack' \in Seq(Frame)
  BY DEF IInv, TypeOK
<1>2. (\A k \in DOMAIN stack : Tiled(stack[k].out, stack[k].offset))'
  BY DEF IInv, BlocksTiled
<1>3. \A k \in DOMAIN stack : Left(stack[k])' = Left(stack[k])
  BY DEF Left
<1>4. Nested'
  BY <1>3 DEF IInv, Nested
<1>5. Owned'
  BY DEF Owned, Owns, OwnsIn
<1> QED BY <1>1, <1>2, <1>4, <1>5

\* Place, in the j-th call, of a field whose composite is finished.
LEMMA PlaceKeeps ==
  ASSUME IInv, st = "building", desc' = desc,
         NEW j \in 1 .. Len(stack), NEW s \in Seq(Frame), Len(s) = j - 1,
         \A k \in 1 .. j - 1 : s[k] = stack[k],
         NEW n \in Nat, NEW size \in Nat, NEW sub \in Nat,
         Place(s, stack[j], n, size, sub),
         sub # 0 => sub < Len(blocks') + 1 /\ size = blocks'[sub].length,
         \A k \in DOMAIN stack : \A i \in DOMAIN stack[k].out :
           OwnsIn(blocks', stack[k].out[i], Len(blocks') + 1)
  PROVE  /\ stack' \in Seq(Frame)
         /\ (\A k \in DOMAIN stack : Tiled(stack[k].out, stack[k].offset))'
         /\ Nested' /\ Owned'
         /\ groups' = groups /\ st' \in {"building", "refused"}
<1> DEFINE new == Placed(stack[j], n, size, sub)
<1>1. stack[j] \in Frame /\ j \in DOMAIN stack /\ Len(stack) \in Nat /\ DOMAIN stack = 1 .. Len(stack)
  BY StackFacts
<1>2. Tiled(stack[j].out, stack[j].offset)
  BY <1>1 DEF IInv, BlocksTiled
<1>3. CASE st' = "refused" /\ stack' = stack /\ groups' = groups
  BY <1>3, RefuseKeeps
<1>4. CASE ~(st' = "refused" /\ stack' = stack /\ groups' = groups)
  <2>1. /\ stack' = Append(s, new) /\ groups' = groups /\ st' = st
        /\ new \in Frame /\ Tiled(new.out, new.offset) /\ new.mode = stack[j].mode
        /\ DOMAIN new.out = 1 .. Len(stack[j].out) + 1
        /\ DOMAIN stack[j].out = 1 .. Len(stack[j].out) /\ Len(stack[j].out) \in Nat
        /\ \A i \in 1 .. Len(stack[j].out) : new.out[i] = stack[j].out[i]
        /\ new.out[Len(stack[j].out) + 1].sub = sub
        /\ new.out[Len(stack[j].out) + 1].size = size
    BY <1>1, <1>2, <1>4, PlaceTiles
  <2> HIDE DEF new
  <2>2. new.mode = "root" <=> Len(s) = 0
    <3>1. stack[j].mode = "root" <=> j = 1
      BY <1>1 DEF IInv, Nested
    <3> QED BY <2>1, <3>1
  <2>3. ASSUME NEW k \in 1 .. Len(s)
        PROVE  s[k] = stack[k] /\ HasNext(s[k])
    <3>1. s[k] = stack[k] /\ k \in DOMAIN stack /\ k < Len(stack)
      BY <1>1
    <3> QED BY <3>1 DEF IInv, Nested, HasNext
  <2>4. ASSUME NEW i \in DOMAIN new.out
        PROVE  OwnsIn(blocks', new.out[i], Len(blocks') + 1)
    <3>1. CASE i \in 1 .. Len(stack[j].out)
      BY <3>1, <1>1, <2>1
    <3>2. CASE i = Len(stack[j].out) + 1
      BY <3>2, <2>1 DEF OwnsIn
    <3>3. i \in 1 .. Len(stack[j].out) \/ i = Len(stack[j].out) + 1
      BY <2>1
    <3> QED BY <3>1, <3>2, <3>3
  <2>5. Len(s) <= Len(stack)
    BY <1>1
  <2> QED BY <2>1, <2>2, <2>3, <2>4, <2>5, StackStep
<1> QED BY <1>3, <1>4

\* What a step that leaves the blocks alone keeps of them.
LEMMA SameBlocks ==
  ASSUME IInv, blocks' = blocks
  PROVE  /\ blocks' \in Seq(Block)
         /\ (\A k \in DOMAIN blocks : Tiled(blocks[k].fields, blocks[k].length))'
         /\ (\A k \in DOMAIN blocks : \A i \in DOMAIN blocks[k].fields : Owns(blocks[k].fields[i], k))'
         /\ \A k \in DOMAIN stack : \A i \in DOMAIN stack[k].out :
              OwnsIn(blocks', stack[k].out[i], Len(blocks') + 1)
<1>1. blocks' \in Seq(Block)
  BY DEF IInv, TypeOK
<1>2. (\A k \in DOMAIN blocks : Tiled(blocks[k].fields, blocks[k].length))'
  BY DEF IInv, BlocksTiled
<1>3. (\A k \in DOMAIN blocks : \A i \in DOMAIN blocks[k].fields : Owns(blocks[k].fields[i], k))'
  BY DEF IInv, BlocksTiled, Owns
<1>4. \A k \in DOMAIN stack : \A i \in DOMAIN stack[k].out :
        OwnsIn(blocks', stack[k].out[i], Len(blocks') + 1)
  BY DEF IInv, Owned, Owns, OwnsIn
<1> QED BY <1>1, <1>2, <1>3, <1>4

\* A field of a call's message type, as TemplateAssumption has it.
LEMMA FieldFacts ==
  ASSUME IInv, NEW fr \in Frame, NEW n \in Left(fr)
  PROVE  n \in Nat /\ desc[fr.type][n].size \in Nat /\ desc[fr.type][n].type \in Types
<1>1. fr.type \in Types
  BY DEF Frame
<1> QED BY <1>1, TemplateAssumption DEF IInv, Left

\* A step for a field that stays in its call, or that begins one.
LEMMA FieldStep ==
  ASSUME IInv, st = "building", desc' = desc, NEW n \in Left(Top), IsNext(n),
         RefuseField(n) \/ PlaceScalar(n) \/ Enter(n)
  PROVE  IInv'
<1> DEFINE f == desc[Top.type][n]
<1>1. /\ Len(stack) \in Nat \ {0} /\ Len(stack) \in 1 .. Len(stack)
      /\ DOMAIN stack = 1 .. Len(stack) /\ \A k \in 1 .. Len(stack) : stack[k] \in Frame
      /\ stack \in Seq(Frame)
  BY StackFacts DEF IInv, TypeOK
<1>2. Top \in Frame
  BY <1>1 DEF Top
<1>3. n \in Nat /\ f.size \in Nat /\ f.type \in Types
  BY <1>2, FieldFacts
<1> HIDE DEF f
<1>4. blocks' = blocks
  BY DEF RefuseField, Refuse, PlaceScalar, Enter
<1>5. /\ blocks' \in Seq(Block)
      /\ (\A k \in DOMAIN blocks : Tiled(blocks[k].fields, blocks[k].length))'
      /\ (\A k \in DOMAIN blocks : \A i \in DOMAIN blocks[k].fields : Owns(blocks[k].fields[i], k))'
      /\ \A k \in DOMAIN stack : \A i \in DOMAIN stack[k].out :
           OwnsIn(blocks', stack[k].out[i], Len(blocks') + 1)
  BY <1>4, SameBlocks
<1>6. groups \in Seq([num : Nat, block : Nat]) /\ desc' \in Schemas
  BY DEF IInv, TypeOK
<1>7. SUFFICES /\ stack' \in Seq(Frame)
               /\ (\A k \in DOMAIN stack : Tiled(stack[k].out, stack[k].offset))'
               /\ Nested' /\ Owned'
               /\ groups' = groups /\ st' \in {"building", "refused"}
  BY <1>5, <1>6 DEF IInv, TypeOK, BlocksTiled
<1>8. CASE RefuseField(n)
  <2>1. st' = "refused" /\ stack' = stack /\ groups' = groups
    BY <1>8 DEF RefuseField, Refuse
  <2> QED BY <1>5, <2>1, RefuseKeeps
<1>9. CASE PlaceScalar(n)
  <2>1. Place(Pop(stack), stack[Len(stack)], n, f.size, 0)
    BY <1>9 DEF PlaceScalar, Top, f
  <2>2. /\ Pop(stack) \in Seq(Frame) /\ Len(Pop(stack)) = Len(stack) - 1
        /\ \A k \in 1 .. Len(stack) - 1 : Pop(stack)[k] = stack[k]
    BY StackFacts
  <2>3. 0 \in Nat
    OBVIOUS
  <2> QED BY <1>1, <1>3, <1>5, <2>1, <2>2, <2>3, PlaceKeeps
<1>10. CASE Enter(n)
  <2> DEFINE new == Call(f.type, IF f.kind = "message" THEN "composite" ELSE "group")
  <2>1. stack' = Append(stack, new) /\ groups' = groups /\ st' = st
    BY <1>10 DEF Enter, f
  <2>2. /\ new \in Frame /\ new.mode # "root" /\ new.out = <<>> /\ new.offset = 0
    BY <1>3 DEF Call, Frame, Modes
  <2> HIDE DEF new
  <2>3. Tiled(new.out, new.offset) /\ DOMAIN new.out = {}
    BY <2>2, TemplateAssumption DEF Tiled
  <2>4. ASSUME NEW k \in 1 .. Len(stack)
        PROVE  HasNext(stack[k])
    <3>1. CASE k = Len(stack)
      BY <3>1 DEF IsNext, HasNext, Top
    <3>2. CASE k # Len(stack)
      <4>1. Len(stack) \in Nat /\ DOMAIN stack = 1 .. Len(stack)
        BY <1>1
      <4>2. k \in DOMAIN stack
        BY <4>1
      <4>3. k < Len(stack)
        BY <2>4, <3>2, <4>1, Below
      <4> QED BY <4>2, <4>3 DEF IInv, Nested, HasNext
    <3> QED BY <3>1, <3>2
  <2>5. Len(stack) # 0 /\ Len(stack) <= Len(stack)
    BY <1>1
  <2>6. \A i \in DOMAIN new.out : OwnsIn(blocks', new.out[i], Len(blocks') + 1)
    BY <2>3
  <2>7. new.mode = "root" <=> Len(stack) = 0
    BY <2>2, <2>5
  <2> QED BY <1>1, <1>5, <2>1, <2>2, <2>3, <2>4, <2>5, <2>6, <2>7, StackStep
<1> QED BY <1>8, <1>9, <1>10

\* A step for a call that has no field left.
LEMMA LeaveStep ==
  ASSUME IInv, st = "building", desc' = desc, Leave
  PROVE  IInv'
<1> DEFINE fr   == Top
           rest == Pop(stack)
           up   == Pop(rest)
           j    == Len(stack) - 1
           over == stack[j]
           n    == CHOOSE k \in Left(over) : \A m \in Left(over) : k <= m
           b    == [type |-> fr.type, fields |-> fr.out, length |-> fr.offset % (MaxUint16 + 1)]
<1>1. /\ Len(stack) \in Nat \ {0} /\ Len(stack) \in DOMAIN stack
      /\ DOMAIN stack = 1 .. Len(stack) /\ \A k \in 1 .. Len(stack) : stack[k] \in Frame
      /\ rest \in Seq(Frame) /\ Len(rest) = Len(stack) - 1 /\ Len(blocks) \in Nat
      /\ \A k \in 1 .. Len(stack) - 1 : rest[k] = stack[k]
      /\ DOMAIN rest = 1 .. Len(stack) - 1
  <2>1. Len(stack) \in Nat \ {0} /\ DOMAIN stack = 1 .. Len(stack)
    BY StackFacts
  <2>2. Len(stack) \in DOMAIN stack
    BY <2>1
  <2> QED BY <2>1, <2>2, StackFacts
<1>2. fr \in Frame /\ Tiled(fr.out, fr.offset)
  BY <1>1 DEF Top, IInv, BlocksTiled
<1>3. fr.type \in Types /\ fr.out \in Seq(FieldTemplate) /\ fr.offset \in Nat
  BY <1>2 DEF Frame
<1>4. fr.offset % (MaxUint16 + 1) = fr.offset
  BY <1>2, <1>3, Narrow, TemplateAssumption DEF Tiled
<1>5. b \in Block /\ b.fields = fr.out /\ b.length = fr.offset
  BY <1>3, <1>4 DEF Block
<1>6. blocks' = Append(blocks, b)
  BY DEF Leave
<1>7. \A i \in DOMAIN b.fields : OwnsIn(blocks, b.fields[i], Len(blocks) + 1)
  BY <1>1, <1>5 DEF IInv, Owned, Owns, OwnsIn, Top
<1>8. /\ blocks' \in Seq(Block) /\ Len(blocks') = Len(blocks) + 1
      /\ blocks'[Len(blocks) + 1] = b
      /\ (\A k \in DOMAIN blocks : Tiled(blocks[k].fields, blocks[k].length))'
      /\ (\A k \in DOMAIN blocks : \A i \in DOMAIN blocks[k].fields : Owns(blocks[k].fields[i], k))'
      /\ \A k \in DOMAIN stack : \A i \in DOMAIN stack[k].out :
           OwnsIn(blocks', stack[k].out[i], Len(blocks') + 1)
  <2>1. Tiled(b.fields, b.length)
    BY <1>2, <1>5
  <2> HIDE DEF b
  <2> QED BY <1>5, <1>6, <1>7, <2>1, BlockStep
<1>9. groups \in Seq([num : Nat, block : Nat]) /\ desc' \in Schemas
  BY DEF IInv, TypeOK
<1>10. SUFFICES /\ stack' \in Seq(Frame)
                /\ (\A k \in DOMAIN stack : Tiled(stack[k].out, stack[k].offset))'
                /\ Nested' /\ Owned'
                /\ groups' \in Seq([num : Nat, block : Nat]) /\ st' \in {"building", "ok", "refused"}
  BY <1>8, <1>9 DEF IInv, TypeOK, BlocksTiled
<1>11. fr.mode = "root" <=> Len(stack) = 1
  BY <1>1 DEF IInv, Nested, Top
<1>12. CASE fr.mode = "root"
  <2>1. stack' = rest /\ st' = "ok" /\ groups' = groups
    BY <1>12 DEF Leave
  <2>2. DOMAIN stack' = {} /\ stack' \in Seq(Frame)
    <3>1. 1 .. Len(stack) - 1 = {}
      BY <1>11, <1>12, OnlyOne
    <3> HIDE DEF rest
    <3> QED BY <1>1, <2>1, <3>1
  <2>3. Nested' /\ Owned'
    BY <2>1, <2>2 DEF Nested, Owned
  <2> QED BY <1>9, <2>1, <2>2, <2>3
<1>13. CASE fr.mode # "root"
  <2>1. /\ j \in 1 .. Len(stack) /\ j \in Nat \ {0} /\ j < Len(stack) /\ Len(rest) = j
        /\ j \in DOMAIN stack
    BY <1>1, <1>11, <1>13
  <2>2. rest[Len(rest)] = over
    BY <1>1, <2>1
  <2>3. up \in Seq(Frame) /\ Len(up) = j - 1 /\ \A k \in 1 .. j - 1 : up[k] = stack[k]
    <3>1. rest # <<>>
      BY <1>1, <2>1
    <3>2. /\ up \in Seq(Frame) /\ Len(up) = Len(rest) - 1
          /\ \A k \in 1 .. Len(rest) - 1 : up[k] = rest[k]
      BY <1>1, <3>1, PopFacts
    <3>3. \A k \in 1 .. j - 1 : k \in 1 .. Len(stack) - 1
      BY <2>1
    <3> QED BY <1>1, <2>1, <3>2, <3>3
  <2>4. over \in Frame /\ HasNext(over)
    BY <1>1, <2>1 DEF IInv, Nested, HasNext
  <2>5. n \in Left(over)
    BY <2>4 DEF HasNext
  <2>6. n \in Nat
    BY <2>4, <2>5, FieldFacts
  <2>7. CASE fr.mode = "composite"
    <3> DEFINE sub == IF fr.out = <<>> THEN 0 ELSE Len(blocks) + 1
    <3>1. Place(up, over, n, b.length, sub)
      BY <1>13, <2>2, <2>7 DEF Leave, NewBlock
    <3>2. sub \in Nat /\ b.length \in Nat
      BY <1>1, <1>3, <1>5
    <3>3. sub # 0 => sub < Len(blocks') + 1 /\ b.length = blocks'[sub].length
      BY <1>1, <1>8
    <3> HIDE DEF sub, b, n, up
    <3> QED BY <1>8, <1>9, <2>1, <2>3, <2>6, <3>1, <3>2, <3>3, PlaceKeeps
  <2>8. CASE fr.mode = "group"
    <3> DEFINE new == [over EXCEPT !.at = n]
    <3>1. /\ stack' = Append(up, new) /\ st' = st
          /\ groups' = Append(groups, [num |-> n, block |-> Len(blocks) + 1])
      BY <1>13, <2>2, <2>8 DEF Leave, NewBlock
    <3>2. /\ new \in Frame /\ new.mode = over.mode /\ new.out = over.out /\ new.offset = over.offset
      BY <2>4, <2>6 DEF Frame
    <3>3. groups' \in Seq([num : Nat, block : Nat])
      BY <1>1, <1>9, <2>6, <3>1
    <3> HIDE DEF new, n, up, b
    <3>4. new.mode = "root" <=> Len(up) = 0
      BY <2>1, <2>3, <3>2 DEF IInv, Nested
    <3>5. Tiled(new.out, new.offset)
      BY <2>1, <3>2 DEF IInv, BlocksTiled
    <3>6. \A i \in DOMAIN new.out : OwnsIn(blocks', new.out[i], Len(blocks') + 1)
      BY <1>8, <2>1, <3>2
    <3>7. ASSUME NEW k \in 1 .. Len(up)
          PROVE  up[k] = stack[k] /\ HasNext(up[k])
      <4>1. up[k] = stack[k] /\ k \in DOMAIN stack /\ k < Len(stack)
        BY <1>1, <2>1, <2>3
      <4> QED BY <4>1 DEF IInv, Nested, HasNext
    <3>8. Len(up) <= Len(stack)
      BY <1>1, <2>1, <2>3
    <3> QED BY <1>8, <2>3, <3>1, <3>2, <3>3, <3>4, <3>5, <3>6, <3>7, <3>8, StackStep
  <2> QED BY <1>13, <2>7, <2>8 DEF Leave
<1> QED BY <1>12, <1>13

\* Every step of BuildTemplate keeps the inductive invariant.
LEMMA StepInv == IInv /\ [Step]_vars => IInv'
<1> SUFFICES ASSUME IInv, [Step]_vars PROVE IInv'
  OBVIOUS
<1>1. CASE Step
  BY <1>1, FieldStep, LeaveStep DEF Step
<1>2. CASE UNCHANGED vars
  <2>1. TypeOK' /\ desc' \in Schemas
    BY <1>2 DEF vars, IInv, TypeOK
  <2>2. BlocksTiled'
    BY <1>2 DEF vars, IInv, BlocksTiled, Owns
  <2>3. \A k \in DOMAIN stack : Left(stack[k])' = Left(stack[k])
    BY <1>2 DEF vars, Left
  <2>4. Nested'
    BY <1>2, <2>3 DEF vars, IInv, Nested
  <2>5. Owned'
    BY <1>2 DEF vars, IInv, Owned, Owns
  <2> QED BY <2>1, <2>2, <2>4, <2>5 DEF IInv
<1> QED BY <1>1, <1>2

\* However the descriptors nest and whatever sizes their fields have, the
\* fields of every block BuildTemplate makes tile it, no offset is changed by
\* its narrowing to 16 bits, and a composite takes what its own fields take.
THEOREM LayoutsTile == Spec => []BlocksTiled
<1>1. IInv => BlocksTiled
  BY DEF IInv
<1> QED BY <1>1, InitInv, StepInv, PTL DEF Spec
=============================================================================
