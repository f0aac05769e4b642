--------------------------- MODULE SbeViewProofs ---------------------------
(***************************************************************************)
(* What NewView's checks buy its accessors, for every template whose       *)
(* fields lie in their blocks, every buffer and every header in it.        *)
(***************************************************************************)
EXTENDS SbeView, TLAPS

\* Facts about products and quotients of the sizes in headers.
LEMMA Products ==
  /\ \A a, b \in Nat : a * b \in Nat
  /\ \A r, b, c \in Nat : b > 0 /\ c <= r \div b => b * c <= r
  /\ \A i, b, c \in Nat : i < c => i * b + b <= b * c /\ (i + 1) * b <= b * c
<1>1. \A a, b \in Nat : a * b \in Nat
  OBVIOUS
<1>2. ASSUME NEW r \in Nat, NEW b \in Nat, NEW c \in Nat, b > 0, c <= r \div b
      PROVE  b * c <= r
  <2>1. r = b * (r \div b) + (r % b) /\ r % b >= 0 /\ r \div b \in Nat
    BY <1>2
  <2>2. b * c <= b * (r \div b)
    BY <1>2, <2>1
  <2> QED BY <1>2, <2>1, <2>2
<1>3. ASSUME NEW i \in Nat, NEW b \in Nat, NEW c \in Nat, i < c
      PROVE  i * b + b <= b * c /\ (i + 1) * b <= b * c
  <2>1. (i + 1) * b = i * b + b
    OBVIOUS
  <2>2. b * (i + 1) <= b * c
    BY <1>3
  <2> QED BY <2>1, <2>2
<1> QED BY <1>1, <1>2, <1>3

\* What a layout of Layouts gives a step that uses it.
LEMMA LayoutFacts ==
  ASSUME tmpl \in Layouts
  PROVE  /\ tmpl.root \in DOMAIN tmpl.blocks
         /\ tmpl.groups \in Seq(DOMAIN tmpl.blocks)
         /\ Len(tmpl.groups) \in Nat
         /\ \A k \in 1 .. Len(tmpl.groups) : tmpl.groups[k] \in DOMAIN tmpl.blocks
         /\ \A b \in DOMAIN tmpl.blocks : b \in Nat /\ b # 0 /\ Length(b) \in Nat
<1>1. /\ tmpl.root \in DOMAIN tmpl.blocks
      /\ tmpl.groups \in Seq(DOMAIN tmpl.blocks)
      /\ \A b \in DOMAIN tmpl.blocks : b \in Nat \ {0} /\ tmpl.blocks[b].length \in Nat
  BY LayoutAssumption, Zenon
<1>2. /\ Len(tmpl.groups) \in Nat
      /\ \A k \in 1 .. Len(tmpl.groups) : tmpl.groups[k] \in DOMAIN tmpl.blocks
  BY <1>1
<1>3. \A b \in DOMAIN tmpl.blocks : b \in Nat /\ b # 0 /\ Length(b) \in Nat
  BY <1>1 DEF Length
<1> QED BY <1>1, <1>2, <1>3

\* The headers read are natural numbers, and lie where Chain says.
LEMMA HeadFacts ==
  ASSUME IInv
  PROVE  /\ Len(heads) \in Nat /\ DOMAIN heads = 1 .. Len(heads)
         /\ HeaderSize \in Nat /\ GroupHeader \in Nat /\ GroupHeader > 0
         /\ \A k \in DOMAIN heads :
              /\ heads[k].at \in Nat /\ heads[k].block \in Nat /\ heads[k].count \in Nat
              /\ heads[k].block * heads[k].count \in Nat
              /\ After(heads[k]) \in Nat
         /\ \A k \in 1 .. Len(heads) + 1 : HeadPos(k) \in Nat
<1>1. heads \in Seq(GroupHead) /\ HeaderSize \in Nat /\ block \in Nat /\ GroupHeader \in Nat /\ GroupHeader > 0
  BY ViewAssumption DEF IInv, TypeOK
<1>2. Len(heads) \in Nat /\ DOMAIN heads = 1 .. Len(heads) /\ \A k \in DOMAIN heads : heads[k] \in GroupHead
  BY <1>1
<1>3. ASSUME NEW k \in DOMAIN heads
      PROVE  /\ heads[k].at \in Nat /\ heads[k].block \in Nat /\ heads[k].count \in Nat
             /\ heads[k].block * heads[k].count \in Nat
             /\ After(heads[k]) \in Nat
  <2>1. heads[k].at \in Nat /\ heads[k].block \in Nat /\ heads[k].count \in Nat
    BY <1>2 DEF GroupHead
  <2>2. heads[k].block * heads[k].count \in Nat
    BY <2>1, Products
  <2>3. After(heads[k]) \in Nat
    <3> DEFINE m == heads[k].block * heads[k].count
    <3>1. After(heads[k]) = heads[k].at + GroupHeader + m /\ m \in Nat
      BY <2>2 DEF After
    <3> HIDE DEF m
    <3> QED BY <1>1, <2>1, <3>1
  <2> QED BY <2>1, <2>2, <2>3
<1>4. ASSUME NEW k \in 1 .. Len(heads) + 1
      PROVE  HeadPos(k) \in Nat
  <2>1. k # 1 => k - 1 \in DOMAIN heads
    BY <1>2
  <2> QED BY <1>1, <1>3, <2>1 DEF HeadPos
<1> QED BY <1>1, <1>2, <1>3, <1>4

\* A group header read where group k's is says what ValidateGroups saw there.
LEMMA HeaderThere ==
  ASSUME IInv, NEW k \in DOMAIN heads, NEW h \in HeaderAt(heads[k].at)
  PROVE  h.block = heads[k].block /\ h.count = heads[k].count
<1>1. ASSUME NEW j \in DOMAIN heads, heads[j].at = heads[k].at
      PROVE  j = k
  <2>1. j \in Nat /\ k \in Nat /\ j >= 1 /\ k >= 1 /\ heads[j].at \in Nat /\ heads[k].at \in Nat
    BY HeadFacts
  <2>2. /\ \A i \in 1 .. k - 1 : heads[i].at < heads[k].at
        /\ \A i \in 1 .. j - 1 : heads[i].at < heads[j].at
    BY Zenon DEF IInv, Chain
  <2>3. (j < k => j \in 1 .. k - 1) /\ (k < j => k \in 1 .. j - 1)
    BY <2>1
  <2> QED BY <1>1, <2>1, <2>2, <2>3
<1>2. h = [block |-> heads[k].block, count |-> heads[k].count]
  BY <1>1 DEF HeaderAt
<1> QED BY <1>2

\* A step that leaves the buffer and its headers alone keeps the chain.
LEMMA BufferKept ==
  ASSUME IInv, UNCHANGED bufvars
  PROVE  /\ Chain' /\ tmpl' \in Layouts
         /\ tmpl' = tmpl /\ size' = size /\ block' = block /\ heads' = heads
         /\ \A k : HeadPos(k)' = HeadPos(k)
         /\ \A b : Length(b)' = Length(b)
  BY DEF IInv, Chain, HeadPos, After, Length, bufvars
-----------------------------------------------------------------------------
LEMMA InitInv == Init => IInv
<1> SUFFICES ASSUME Init PROVE IInv
  OBVIOUS
<1>1. TypeOK
  <2>1. size \in Nat /\ block \in Nat /\ <<>> \in Seq(GroupHead) /\ <<>> \in Seq(Span) /\ 0 \in Nat
    BY ViewAssumption DEF Init
  <2>2. NoView \in ViewType /\ NoGroup \in GroupType /\ Nothing \in [lo : Nat, hi : Nat]
    BY DEF NoView, NoGroup, Nothing, ViewType, GroupType
  <2> QED BY <2>1, <2>2, Zenon DEF Init, TypeOK
<1>2. Len(tmpl.groups) \in Nat /\ MaxRepeated \in Nat /\ size \in Nat
  BY LayoutFacts, ViewAssumption DEF Init
<1>3. Chain /\ Progress /\ Decoded
  BY <1>2 DEF Init, Chain, Progress, Decoded
<1>4. ReadsInBounds /\ FieldsInView /\ Views
  BY <1>2 DEF Init, ReadsInBounds, FieldsInView, Views, NoView, NoGroup, Nothing
<1> QED BY <1>1, <1>3, <1>4 DEF IInv, Init

\* The header checks: what NewView keeps is a root block that fits.
LEMMA NewViewInv == IInv /\ NewView => IInv'
<1> SUFFICES ASSUME IInv, NewView PROVE IInv'
  OBVIOUS
<1>0. /\ pc = "new" /\ heads = <<>> /\ UNCHANGED <<bufvars, want, seen, view, gview, read, upos, spans>>
      /\ view = NoView /\ gview = NoGroup /\ read = Nothing /\ spans = <<>>
  BY DEF NewView, IInv, Progress
<1>1. \/ pc' = "refused" /\ pos' = pos
      \/ ~HeaderRefused /\ pc' = "groups" /\ pos' = HeaderSize + block
  BY DEF NewView
<1>2. Chain' /\ tmpl' \in Layouts /\ tmpl' = tmpl /\ size' = size /\ block' = block /\ heads' = heads
      /\ \A b : Length(b)' = Length(b)
  BY <1>0, BufferKept
<1>3. Length(tmpl.root) \in Nat /\ HeaderSize \in Nat /\ block \in Nat /\ size \in Nat /\ pos \in Nat
  BY LayoutFacts, ViewAssumption DEF IInv, TypeOK
<1>4. TypeOK'
  <2>1. pos' \in Nat /\ pc' \in {"groups", "refused"}
    BY <1>1, <1>3
  <2> QED BY <1>0, <1>2, <2>1 DEF IInv, TypeOK
<1>5. Progress'
  <2>1. Len(heads) = 0
    BY <1>0
  <2>2. pc' = "groups" => Length(tmpl.root) <= block /\ HeaderSize + block <= size
    BY <1>1, <1>3 DEF HeaderRefused
  <2>3. pc' = "groups" => pos' = HeadPos(Len(heads) + 1)'
    BY <1>1, <1>2, <2>1 DEF HeadPos
  <2> QED BY <1>0, <1>1, <1>2, <2>2, <2>3 DEF Progress, NoView, NoGroup, Nothing, Length
<1>6. ReadsInBounds' /\ FieldsInView' /\ Views' /\ Decoded'
  <2>1. pc' # "view" /\ pc' # "walk"
    BY <1>1
  <2> QED BY <1>0, <1>2, <2>1 DEF IInv, ReadsInBounds, FieldsInView, Views, Decoded, Length
<1> QED BY <1>2, <1>4, <1>5, <1>6 DEF IInv

\* A header ValidateGroups accepts extends the chain: count entries of the
\* wire's block fit into what remains, though only a quotient was compared.
LEMMA ValidateGroupInv == IInv /\ ValidateGroup => IInv'
<1> SUFFICES ASSUME IInv, ValidateGroup PROVE IInv'
  OBVIOUS
<1>0. /\ pc = "groups" /\ Len(heads) < Len(tmpl.groups)
      /\ UNCHANGED <<tmpl, size, block, want, seen, view, gview, read, upos, spans>>
      /\ view = NoView /\ gview = NoGroup /\ read = Nothing /\ spans = <<>>
      /\ tmpl \in Layouts /\ pos = HeadPos(Len(heads) + 1)
      /\ Length(tmpl.root) <= block /\ HeaderSize + block <= size
      /\ pos \in Nat /\ size \in Nat
  BY DEF ValidateGroup, IInv, Progress, TypeOK
<1>1. \A b : Length(b)' = Length(b)
  BY <1>0 DEF Length
<1>2. CASE pc' = "refused" /\ UNCHANGED <<heads, pos>>
  <2>1. UNCHANGED bufvars
    BY <1>0, <1>2 DEF bufvars
  <2>2. Chain' /\ tmpl' \in Layouts
    BY <2>1, BufferKept
  <2>3. TypeOK'
    BY <1>0, <1>2 DEF IInv, TypeOK
  <2>4. Progress' /\ Decoded'
    BY <1>0, <1>2 DEF IInv, Progress, Decoded, NoView, NoGroup, Nothing
  <2>5. ReadsInBounds' /\ FieldsInView' /\ Views'
    BY <1>0, <1>1, <1>2 DEF IInv, ReadsInBounds, FieldsInView, Views
  <2> QED BY <2>2, <2>3, <2>4, <2>5 DEF IInv
<1>3. CASE ~ (pc' = "refused" /\ UNCHANGED <<heads, pos>>)
  <2> DEFINE n == Len(heads) + 1
             g == tmpl.groups[n]
  <2>1. size >= pos + GroupHeader
    BY <1>3, <1>0, ViewAssumption DEF ValidateGroup
  <2>2. PICK eb, count \in Uint16 :
          /\ ~GroupRefused(g, eb, count, pos + GroupHeader)
          /\ heads' = Append(heads, [at |-> pos, block |-> eb, count |-> count])
          /\ pos' = pos + GroupHeader + eb * count
          /\ pc' = pc
    BY <1>3, Zenon DEF ValidateGroup
  <2> DEFINE h == [at |-> pos, block |-> eb, count |-> count]
  <2>3. eb \in Nat /\ count \in Nat /\ h \in GroupHead /\ eb * count \in Nat
    BY <1>0, ViewAssumption, Products DEF GroupHead
  <2>4. /\ heads' \in Seq(GroupHead) /\ Len(heads') = n /\ n \in Nat /\ n >= 1
        /\ DOMAIN heads' = 1 .. n /\ heads'[n] = h
        /\ DOMAIN heads = 1 .. Len(heads)
        /\ \A k \in 1 .. Len(heads) : heads'[k] = heads[k]
    <3>1. heads \in Seq(GroupHead) /\ heads' = Append(heads, h)
      BY <2>2 DEF IInv, TypeOK
    <3> HIDE DEF h
    <3> QED BY <2>3, <3>1
  <2>5. g \in DOMAIN tmpl.blocks /\ Length(g) \in Nat
    <3>1. n \in 1 .. Len(tmpl.groups)
      BY <1>0, <2>4, LayoutFacts
    <3> QED BY <1>0, <3>1, LayoutFacts, Zenon
  <2>6. /\ Length(g) <= eb
        /\ count <= MaxRepeated
        /\ eb * count <= size - (pos + GroupHeader)
    <3>1. ~ (eb < Length(g)) /\ ~ (count > 0 /\ eb = 0) /\ ~ (count > MaxRepeated)
          /\ ~ (eb > 0 /\ count > (size - (pos + GroupHeader)) \div eb)
      BY <2>2 DEF GroupRefused
    <3>2. size - (pos + GroupHeader) \in Nat
      BY <1>0, <2>1, ViewAssumption
    <3>3. CASE eb = 0
      BY <2>3, <3>1, <3>2, <3>3, <2>5, ViewAssumption
    <3>4. CASE eb > 0
      <4> DEFINE q == (size - (pos + GroupHeader)) \div eb
      <4>1. q \in Int
        BY <3>2, <3>4, <2>3
      <4>2. count <= q
        <5> HIDE DEF q
        <5>1. ~ (count > q)
          BY <3>1, <3>4 DEF q
        <5> QED BY <5>1, <4>1, <2>3
      <4>3. eb * count <= size - (pos + GroupHeader)
        BY <2>3, <3>2, <3>4, <4>2, Products
      <4> QED BY <2>3, <2>5, <3>1, <4>3, ViewAssumption
    <3> QED BY <2>3, <3>3, <3>4
  <2>7. After(h) \in Nat /\ After(h) <= size /\ After(h) = pos'
    <3> DEFINE m == eb * count
    <3>1. After(h) = pos + GroupHeader + m /\ pos' = pos + GroupHeader + m
      BY <2>2 DEF After
    <3>2. m \in Nat /\ m <= size - (pos + GroupHeader)
      BY <2>3, <2>6
    <3>3. pos \in Nat /\ GroupHeader \in Nat /\ size \in Nat
      BY <1>0, ViewAssumption
    <3> HIDE DEF m, h
    <3> QED BY <3>1, <3>2, <3>3
  <2>8. \A k \in 1 .. n : HeadPos(k)' = HeadPos(k)
    <3> SUFFICES ASSUME NEW k \in 1 .. n PROVE HeadPos(k)' = HeadPos(k)
      OBVIOUS
    <3>1. k # 1 => k - 1 \in 1 .. Len(heads)
      BY <2>4
    <3> QED BY <1>0, <2>4, <3>1 DEF HeadPos, After
  <2>9. Chain'
    <3>1. ASSUME NEW k \in 1 .. n
          PROVE  /\ heads'[k].at = HeadPos(k)'
                 /\ After(heads'[k]) <= size
                 /\ Length(tmpl.groups[k]) <= heads'[k].block
                 /\ heads'[k].count <= MaxRepeated
                 /\ \A j \in 1 .. k - 1 : heads'[j].at < heads'[k].at
      <4>1. CASE k # n
        <5>1. k \in 1 .. Len(heads) /\ \A j \in 1 .. k - 1 : j \in 1 .. Len(heads)
          BY <2>4, <4>1
        <5> QED BY <2>4, <2>8, <5>1, Zenon DEF IInv, Chain
      <4>2. CASE k = n
        <5>1. \A j \in 1 .. Len(heads) : heads[j].at < pos
          <6> SUFFICES ASSUME NEW j \in 1 .. Len(heads) PROVE heads[j].at < pos
            OBVIOUS
          <6> DEFINE l == heads[Len(heads)]
          <6>1. Len(heads) \in DOMAIN heads /\ j \in DOMAIN heads /\ n # 1 /\ n - 1 = Len(heads)
            BY <2>4
          <6>2. pos = After(l)
            BY <1>0, <6>1 DEF HeadPos
          <6>3. /\ l.at \in Nat /\ l.block * l.count \in Nat /\ heads[j].at \in Nat
                /\ GroupHeader \in Nat /\ GroupHeader > 0
            BY <6>1, HeadFacts, Zenon
          <6>4. l.at < pos
            BY <6>2, <6>3 DEF After
          <6>5. j # Len(heads) => heads[j].at < l.at
            <7>1. j # Len(heads) => j \in 1 .. Len(heads) - 1
              BY <6>1, <2>4
            <7> QED BY <6>1, <7>1 DEF IInv, Chain
          <6> QED BY <1>0, <6>3, <6>4, <6>5
        <5>2. \A j \in 1 .. k - 1 : j \in 1 .. Len(heads)
          BY <2>4, <4>2
        <5>3. heads'[k] = h /\ heads'[k].at = pos /\ heads'[k].block = eb /\ heads'[k].count = count
          BY <2>4, <4>2
        <5>4. heads'[k].at = HeadPos(k)'
          BY <1>0, <2>8, <4>2, <5>3
        <5> QED BY <2>4, <2>6, <2>7, <4>2, <5>1, <5>2, <5>3, <5>4
      <4> QED BY <4>1, <4>2
    <3>2. \A k \in 1 .. n : Length(tmpl.groups[k])' = Length(tmpl.groups[k]) /\ After(heads[k])' = After(heads'[k])
      BY <1>0 DEF Length, After
    <3> QED BY <1>0, <2>4, <3>1, <3>2 DEF Chain
  <2>10. TypeOK'
    <3>1. pos' \in Nat /\ pc' = "groups"
      BY <1>0, <2>2, <2>7
    <3> QED BY <1>0, <2>4, <3>1 DEF IInv, TypeOK
  <2>11. Progress'
    <3>1. pos' = HeadPos(Len(heads) + 1)'
      <4>1. Len(heads') + 1 # 1 /\ (Len(heads') + 1) - 1 = n
        BY <2>4
      <4>2. After(heads'[n]) = pos'
        BY <2>4, <2>7
      <4> QED BY <4>1, <4>2 DEF HeadPos, After
    <3> QED BY <1>0, <1>1, <2>2, <2>4, <3>1 DEF Progress, NoView, NoGroup, Nothing
  <2>12. Decoded'
    BY <1>0, <2>2, <2>4 DEF Decoded
  <2>13. ReadsInBounds' /\ FieldsInView' /\ Views'
    BY <1>0, <1>1, <2>2 DEF IInv, ReadsInBounds, FieldsInView, Views
  <2> QED BY <1>0, <2>9, <2>10, <2>11, <2>12, <2>13 DEF IInv
<1> QED BY <1>2, <1>3

\* The accepted buffer's root view holds the root block.
LEMMA AcceptInv == IInv /\ Accept => IInv'
<1> SUFFICES ASSUME IInv, Accept PROVE IInv'
  OBVIOUS
<1> DEFINE v == [base |-> HeaderSize, len |-> block, blk |-> tmpl.root, root |-> TRUE]
<1>0. /\ pc = "groups" /\ pc' = "view" /\ Len(heads) = Len(tmpl.groups)
      /\ view' = v
      /\ upos' = HeaderSize + block /\ read' = [lo |-> HeaderSize, hi |-> HeaderSize + block]
      /\ UNCHANGED <<bufvars, pos, want, seen, gview, spans>>
      /\ gview = NoGroup /\ spans = <<>> /\ tmpl \in Layouts
      /\ Length(tmpl.root) <= block /\ HeaderSize + block <= size
  BY DEF Accept, IInv, Progress
<1>1. /\ Chain' /\ tmpl' \in Layouts /\ tmpl' = tmpl /\ size' = size /\ block' = block
      /\ heads' = heads /\ \A k : HeadPos(k)' = HeadPos(k)
      /\ \A b : Length(b)' = Length(b)
  BY <1>0, BufferKept
<1>2. /\ tmpl.root \in DOMAIN tmpl.blocks /\ tmpl.root \in Nat
      /\ HeaderSize \in Nat /\ block \in Nat /\ MaxRepeated \in Nat
  BY <1>0, LayoutFacts, ViewAssumption DEF IInv, TypeOK
<1>3. TypeOK'
  <2>1. v \in ViewType /\ HeaderSize + block \in Nat
    BY <1>2 DEF ViewType
  <2>2. [lo |-> HeaderSize, hi |-> HeaderSize + block] \in [lo : Nat, hi : Nat]
    BY <1>2
  <2> QED BY <1>0, <1>1, <2>1, <2>2, Zenon DEF IInv, TypeOK
<1>4. Progress' /\ Decoded'
  BY <1>0, <1>1 DEF Progress, Decoded, HeadPos, IInv
<1>5. ReadsInBounds' /\ FieldsInView'
  BY <1>0, <1>1 DEF ReadsInBounds, FieldsInView, IInv
<1>6. Views'
  BY <1>0, <1>1, <1>2 DEF Views, NoGroup
<1> QED BY <1>1, <1>3, <1>4, <1>5, <1>6 DEF IInv

\* Where a field of the view at hand lies.
LEMMA FieldFacts ==
  ASSUME IInv, NEW i \in DOMAIN Fields
  PROVE  LET f == Fields[i] IN
         /\ view.blk \in DOMAIN tmpl.blocks
         /\ view.base \in Nat /\ view.len \in Nat
         /\ f.offset \in Nat /\ f.size \in Nat /\ f.sub \in Nat
         /\ f.offset + f.size <= view.len
         /\ f.sub # 0 => f.sub \in DOMAIN tmpl.blocks /\ Length(f.sub) = f.size
<1>1. view.blk # 0
  BY DEF Fields
<1>2. view.blk \in DOMAIN tmpl.blocks /\ tmpl \in Layouts /\ Length(view.blk) <= view.len
  BY <1>1 DEF IInv, Views, FieldsInView
<1>3. view.base \in Nat /\ view.len \in Nat
  BY DEF IInv, TypeOK, ViewType
<1> DEFINE b == tmpl.blocks[view.blk]
           FT == [offset : Nat, size : Nat, sub : Nat]
<1>4. Fields = b.fields /\ i \in DOMAIN b.fields
  BY <1>1 DEF Fields
<1>5. /\ b.length \in Nat /\ b.fields \in Seq(FT)
      /\ LET f == b.fields[i] IN
         /\ f.offset + f.size <= b.length
         /\ f.sub # 0 => f.sub \in DOMAIN tmpl.blocks /\ tmpl.blocks[f.sub].length = f.size
  BY <1>2, <1>4, LayoutAssumption, Zenon
<1>6. b.fields[i] \in FT
  <2> HIDE DEF FT, b
  <2> QED BY <1>4, <1>5
<1> DEFINE f == b.fields[i]
<1>7. /\ f.offset \in Nat /\ f.size \in Nat /\ f.sub \in Nat
      /\ f.offset + f.size <= b.length /\ b.length \in Nat
      /\ f.sub # 0 => f.sub \in DOMAIN tmpl.blocks /\ Length(f.sub) = f.size
  BY <1>5, <1>6, Zenon DEF Length
<1>8. b.length <= view.len /\ Fields[i] = f
  BY <1>2, <1>4 DEF Length
<1> HIDE DEF f, b
<1>9. f.offset + f.size <= view.len
  BY <1>3, <1>7, <1>8
<1> QED BY <1>2, <1>3, <1>7, <1>8, <1>9

\* A scalar accessor stays in the view.
LEMMA ReadFieldInv ==
  ASSUME IInv, NEW i \in DOMAIN Fields, ReadField(i)
  PROVE  IInv'
<1> DEFINE f == Fields[i]
<1>0. /\ pc = "view" /\ UNCHANGED <<bufvars, pc, pos, want, seen, view, gview, upos, spans>>
      /\ read' = [lo |-> view.base + f.offset, hi |-> view.base + f.offset + f.size]
  BY DEF ReadField
<1>1. /\ Chain' /\ tmpl' \in Layouts /\ tmpl' = tmpl /\ size' = size /\ block' = block
      /\ heads' = heads /\ \A k : HeadPos(k)' = HeadPos(k)
      /\ \A b : Length(b)' = Length(b)
  BY <1>0, BufferKept
<1>2. /\ view.base \in Nat /\ view.len \in Nat /\ f.offset \in Nat /\ f.size \in Nat
      /\ f.offset + f.size <= view.len
  BY FieldFacts
<1>3. TypeOK'
  <2>1. read' \in [lo : Nat, hi : Nat]
    BY <1>0, <1>2
  <2> QED BY <1>0, <1>1, <2>1 DEF IInv, TypeOK
<1>4. read'.hi <= size
  <2>1. view.base + view.len <= size /\ size \in Nat
    BY DEF IInv, ReadsInBounds, TypeOK
  <2>2. read'.hi = view.base + f.offset + f.size
    BY <1>0
  <2> QED BY <1>2, <2>1, <2>2
<1>5. ReadsInBounds' /\ FieldsInView' /\ Views'
  BY <1>0, <1>1, <1>4 DEF IInv, ReadsInBounds, FieldsInView, Views
<1>6. Progress' /\ Decoded'
  BY <1>0, <1>1 DEF IInv, Progress, Decoded
<1> QED BY <1>1, <1>3, <1>5, <1>6 DEF IInv

\* A step that changes only the view at hand, to none or to one of the
\* buffer's, keeps the invariant.
LEMMA ViewInv ==
  ASSUME IInv, pc = "view",
         UNCHANGED <<bufvars, pc, pos, want, seen, gview, read, upos, spans>>,
         view' \in ViewType,
         view'.base + view'.len <= size,
         view'.blk # 0 => view'.blk \in DOMAIN tmpl.blocks /\ Length(view'.blk) <= view'.len,
         view'.root => view'.base = HeaderSize /\ view'.len = block
  PROVE  IInv'
<1>1. /\ Chain' /\ tmpl' \in Layouts /\ tmpl' = tmpl /\ size' = size /\ block' = block
      /\ heads' = heads /\ \A k : HeadPos(k)' = HeadPos(k)
      /\ \A b : Length(b)' = Length(b)
  BY BufferKept
<1>2. TypeOK'
  BY <1>1 DEF IInv, TypeOK
<1>3. ReadsInBounds' /\ FieldsInView' /\ Views'
  BY <1>1 DEF IInv, ReadsInBounds, FieldsInView, Views, Length
<1>4. Progress' /\ Decoded'
  BY <1>1 DEF IInv, Progress, Decoded
<1> QED BY <1>1, <1>2, <1>3, <1>4 DEF IInv

\* The empty view fits any buffer.
LEMMA NoViewFits ==
  ASSUME IInv
  PROVE  NoView \in ViewType /\ NoView.base + NoView.len <= size /\ NoView.blk = 0 /\ ~NoView.root
<1>1. size \in Nat
  BY DEF IInv, TypeOK
<1> QED BY <1>1 DEF NoView, ViewType

\* A composite's view is the bytes of its own field list.
LEMMA CompositeInv ==
  ASSUME IInv, NEW i \in DOMAIN Fields, Composite(i)
  PROVE  IInv'
<1> DEFINE f == Fields[i]
           v == [base |-> view.base + f.offset, len |-> f.size, blk |-> f.sub, root |-> FALSE]
<1>0. /\ pc = "view" /\ UNCHANGED <<bufvars, pc, pos, want, seen, gview, read, upos, spans>>
      /\ view' = IF f.sub = 0 THEN NoView ELSE v
  BY DEF Composite
<1>1. CASE f.sub = 0
  BY <1>0, <1>1, NoViewFits, ViewInv
<1>2. CASE f.sub # 0
  <2>1. /\ view.base \in Nat /\ view.len \in Nat /\ f.offset \in Nat /\ f.size \in Nat /\ f.sub \in Nat
        /\ f.offset + f.size <= view.len
        /\ f.sub \in DOMAIN tmpl.blocks /\ Length(f.sub) = f.size
    BY <1>2, FieldFacts
  <2>2. view.base + view.len <= size /\ size \in Nat
    BY DEF IInv, ReadsInBounds, TypeOK
  <2>3. v \in ViewType
    BY <2>1 DEF ViewType
  <2>4. v.base + v.len <= size
    BY <2>1, <2>2
  <2>5. Length(v.blk) <= v.len
    BY <2>1
  <2> QED BY <1>0, <1>2, <2>1, <2>3, <2>4, <2>5, ViewInv
<1> QED BY <1>1, <1>2

\* The root view is the one NewView returned.
LEMMA BackToRootInv == IInv /\ BackToRoot => IInv'
<1> SUFFICES ASSUME IInv, BackToRoot PROVE IInv'
  OBVIOUS
<1> DEFINE v == [base |-> HeaderSize, len |-> block, blk |-> tmpl.root, root |-> TRUE]
<1>1. pc = "view" /\ UNCHANGED <<bufvars, pc, pos, want, seen, gview, read, upos, spans>>
      /\ view' = v
  BY DEF BackToRoot
<1>2. Length(tmpl.root) <= block /\ HeaderSize + block <= size /\ tmpl \in Layouts
  BY <1>1 DEF IInv, Progress
<1>3. tmpl.root \in DOMAIN tmpl.blocks /\ tmpl.root \in Nat /\ HeaderSize \in Nat /\ block \in Nat
  BY <1>2, LayoutFacts, ViewAssumption DEF IInv, TypeOK
<1>4. v \in ViewType
  BY <1>3 DEF ViewType
<1> QED BY <1>1, <1>2, <1>3, <1>4, ViewInv

\* An entry lies among its group's bytes, and holds the group's fields.
LEMMA EntryInv ==
  ASSUME IInv, NEW i \in Uint16, Entry(i)
  PROVE  IInv'
<1> DEFINE v == [base |-> gview.base + i * gview.block, len |-> gview.block,
                 blk |-> gview.blk, root |-> FALSE]
<1>0. /\ pc = "view" /\ UNCHANGED <<bufvars, pc, pos, want, seen, gview, read, upos, spans>>
      /\ gview.blk # 0
      /\ view' = IF EntryOutOfRange(i) THEN NoView ELSE v
  BY DEF Entry
<1>1. CASE EntryOutOfRange(i)
  BY <1>0, <1>1, NoViewFits, ViewInv
<1>2. CASE ~EntryOutOfRange(i)
  <2>1. /\ i \in Nat /\ gview.base \in Nat /\ gview.block \in Nat /\ gview.count \in Nat
        /\ gview.blk \in Nat /\ size \in Nat
    BY ViewAssumption DEF IInv, TypeOK, GroupType
  <2>2. i < gview.count
    BY <1>2, <2>1 DEF EntryOutOfRange
  <2>3. /\ i * gview.block \in Nat
        /\ i * gview.block + gview.block <= gview.block * gview.count
    BY <2>1, <2>2, Products
  <2>4. gview.base + gview.block * gview.count <= size
    BY DEF IInv, ReadsInBounds, Views
  <2>5. v \in ViewType
    BY <2>1, <2>3 DEF ViewType
  <2>6. v.base + v.len <= size
    <3> DEFINE a == i * gview.block
               c == gview.block * gview.count
    <3>1. a \in Nat /\ c \in Nat /\ a + gview.block <= c /\ gview.base + c <= size
      BY <2>1, <2>3, <2>4, Products
    <3>2. v.base = gview.base + a /\ v.len = gview.block
      OBVIOUS
    <3> HIDE DEF a, c, v
    <3> QED BY <2>1, <3>1, <3>2
  <2>7. v.blk \in DOMAIN tmpl.blocks /\ Length(v.blk) <= v.len
    BY <1>0 DEF IInv, Views
  <2> QED BY <1>0, <1>2, <2>5, <2>6, <2>7, ViewInv
<1> QED BY <1>1, <1>2

\* Group starts at the first group's header.
LEMMA GroupInv ==
  ASSUME IInv, NEW g \in DOMAIN tmpl.groups, Group(g)
  PROVE  IInv'
<1>0. /\ pc = "view" /\ view.root /\ pc' = "walk" /\ want' = g /\ seen' = 0 /\ pos' = view.len
      /\ UNCHANGED <<bufvars, view, gview, read, upos, spans>>
  BY DEF Group, RootEnd
<1>1. /\ Chain' /\ tmpl' \in Layouts /\ tmpl' = tmpl /\ size' = size /\ block' = block
      /\ heads' = heads /\ \A k : HeadPos(k)' = HeadPos(k)
      /\ \A b : Length(b)' = Length(b)
  BY <1>0, BufferKept
<1>2. /\ Len(heads) = Len(tmpl.groups) /\ view.len = block /\ block \in Nat /\ tmpl \in Layouts
      /\ DOMAIN heads = 1 .. Len(heads) /\ Len(heads) \in Nat
  BY <1>0 DEF IInv, Progress, Views, TypeOK
<1>3. g \in DOMAIN heads /\ g \in Nat /\ 0 < g
  <2>1. tmpl.groups \in Seq(DOMAIN tmpl.blocks)
    BY <1>2, LayoutFacts
  <2> QED BY <1>2, <2>1
<1>4. HeaderSize + block = heads[1].at /\ 1 \in DOMAIN heads
  <2>1. 1 \in DOMAIN heads
    BY <1>2, <1>3
  <2> QED BY <2>1 DEF IInv, Chain, HeadPos
<1>5. TypeOK'
  <2>1. want' \in Nat /\ pos' \in Nat /\ seen' \in Nat
    BY <1>0, <1>2, <1>3
  <2> QED BY <1>0, <1>1, <2>1 DEF IInv, TypeOK
<1>6. Progress'
  BY <1>0, <1>1, <1>2, <1>3, <1>4 DEF IInv, Progress
<1>7. ReadsInBounds' /\ FieldsInView' /\ Views' /\ Decoded'
  BY <1>0, <1>1 DEF IInv, ReadsInBounds, FieldsInView, Views, Decoded
<1> QED BY <1>1, <1>5, <1>6, <1>7 DEF IInv

\* A walk stands at a header the validation has seen, so it ends only at the
\* group it looks for.
LEMMA WalkFacts ==
  ASSUME IInv, pc = "walk"
  PROVE  /\ seen + 1 \in DOMAIN heads /\ want \in DOMAIN heads /\ ~NoHeaderLeft
         /\ HeaderSize + pos = heads[seen + 1].at
         /\ seen + 1 <= want
         /\ \A h \in HeaderAt(HeaderSize + pos) :
              h.block = heads[seen + 1].block /\ h.count = heads[seen + 1].count
<1>1. /\ want \in DOMAIN heads /\ seen < want /\ HeaderSize + pos = heads[seen + 1].at
      /\ seen \in Nat /\ pos \in Nat /\ HeaderSize \in Nat /\ GroupHeader \in Nat /\ size \in Nat
  BY ViewAssumption DEF IInv, Progress, TypeOK
<1>2. want \in Nat /\ want <= Len(heads) /\ DOMAIN heads = 1 .. Len(heads) /\ Len(heads) \in Nat
  BY <1>1 DEF IInv, TypeOK
<1>3. seen + 1 \in DOMAIN heads /\ seen + 1 <= want
  BY <1>1, <1>2
<1> DEFINE h == heads[seen + 1]
           m == h.block * h.count
<1>4. h.at \in Nat /\ h.block \in Nat /\ h.count \in Nat
  BY <1>3, HeadFacts
<1>5. m \in Nat /\ h.at + GroupHeader + m <= size
  BY <1>3, <1>4, Products DEF IInv, Chain, After
<1>6. ~NoHeaderLeft
  <2>1. HeaderSize + pos + GroupHeader + m <= size
    BY <1>1, <1>5
  <2> HIDE DEF m
  <2> QED BY <1>1, <1>5, <2>1 DEF NoHeaderLeft
<1>7. \A g \in HeaderAt(HeaderSize + pos) : g.block = h.block /\ g.count = h.count
  BY <1>1, <1>3, HeaderThere
<1> QED BY <1>1, <1>3, <1>6, <1>7

\* A walk that goes past a group comes to the next group's header.
LEMMA WalkOnInv ==
  ASSUME IInv, WalkGroup, seen + 1 # want
  PROVE  IInv'
<1>0. pc = "walk" /\ UNCHANGED <<bufvars, want, view, upos, spans>>
  BY DEF WalkGroup
<1>1. /\ Chain' /\ tmpl' \in Layouts /\ tmpl' = tmpl /\ size' = size /\ block' = block
      /\ heads' = heads /\ \A k : HeadPos(k)' = HeadPos(k)
      /\ \A b : Length(b)' = Length(b)
  BY <1>0, BufferKept
<1>2. /\ seen + 1 \in DOMAIN heads /\ want \in DOMAIN heads /\ ~NoHeaderLeft
      /\ HeaderSize + pos = heads[seen + 1].at /\ seen + 1 <= want
  BY <1>0, WalkFacts
<1> DEFINE h == heads[seen + 1]
           m == h.block * h.count
<1>3. /\ read' = [lo |-> HeaderSize + pos, hi |-> HeaderSize + pos + GroupHeader]
      /\ pos' = pos + GroupHeader + m /\ seen' = seen + 1 /\ pc' = pc /\ gview' = gview
  <2>1. PICK g \in HeaderAt(HeaderSize + pos) :
           /\ read' = [lo |-> HeaderSize + pos, hi |-> HeaderSize + pos + GroupHeader]
           /\ pos' = PastGroup(pos, g) /\ seen' = seen + 1 /\ UNCHANGED <<pc, gview>>
    BY <1>2 DEF WalkGroup
  <2>2. g.block = h.block /\ g.count = h.count
    BY <1>0, WalkFacts
  <2> QED BY <2>1, <2>2 DEF PastGroup
<1>4. /\ h.at \in Nat /\ h.block \in Nat /\ h.count \in Nat /\ m \in Nat
      /\ h.at + GroupHeader + m <= size
  BY <1>2, HeadFacts, Products DEF IInv, Chain, After
<1>5. /\ seen \in Nat /\ pos \in Nat /\ HeaderSize \in Nat /\ GroupHeader \in Nat /\ size \in Nat
      /\ want \in Nat /\ DOMAIN heads = 1 .. Len(heads) /\ Len(heads) \in Nat
  BY ViewAssumption DEF IInv, TypeOK
<1>6. After(heads[seen + 1]) = h.at + GroupHeader + m
  BY DEF After
<1>7. seen + 2 \in DOMAIN heads /\ seen + 1 < want
  BY <1>2, <1>5
<1>8. heads[seen + 2].at = h.at + GroupHeader + m
  BY <1>5, <1>6, <1>7 DEF IInv, Chain, HeadPos
<1> HIDE DEF m, h
<1>9. HeaderSize + pos' = heads[seen' + 1].at /\ seen' < want
  BY <1>2, <1>3, <1>4, <1>5, <1>7, <1>8 DEF h
<1>10. TypeOK'
  <2>1. pos' \in Nat /\ seen' \in Nat /\ read' \in [lo : Nat, hi : Nat]
    BY <1>3, <1>4, <1>5
  <2> QED BY <1>0, <1>1, <1>3, <2>1 DEF IInv, TypeOK
<1>11. Progress'
  BY <1>0, <1>1, <1>2, <1>3, <1>9 DEF IInv, Progress
<1>12. ReadsInBounds'
  <2>1. read'.hi = HeaderSize + pos + GroupHeader
    BY <1>3
  <2>2. read'.hi <= size
    BY <2>1, <1>2, <1>4, <1>5 DEF h
  <2> QED BY <1>0, <1>1, <1>3, <2>2 DEF IInv, ReadsInBounds
<1>13. FieldsInView' /\ Views' /\ Decoded'
  BY <1>0, <1>1, <1>3 DEF IInv, FieldsInView, Views, Decoded
<1> QED BY <1>1, <1>10, <1>11, <1>12, <1>13 DEF IInv

\* A walk that comes to the group it looks for hands out that group.
LEMMA WalkEndInv ==
  ASSUME IInv, WalkGroup, seen + 1 = want
  PROVE  IInv' /\ gview'.blk # 0
<1>0. pc = "walk" /\ UNCHANGED <<bufvars, want, view, upos, spans>>
  BY DEF WalkGroup
<1>1. /\ Chain' /\ tmpl' \in Layouts /\ tmpl' = tmpl /\ size' = size /\ block' = block
      /\ heads' = heads /\ \A k : HeadPos(k)' = HeadPos(k)
      /\ \A b : Length(b)' = Length(b)
  BY <1>0, BufferKept
<1>2. want \in DOMAIN heads /\ ~NoHeaderLeft /\ HeaderSize + pos = heads[want].at
  BY <1>0, WalkFacts
<1> DEFINE h == heads[want]
           m == h.block * h.count
           gv == [base |-> h.at + GroupHeader, len |-> m, block |-> h.block,
                  count |-> h.count, blk |-> tmpl.groups[want]]
<1>3. /\ read' = [lo |-> h.at, hi |-> h.at + GroupHeader + m]
      /\ gview' = gv /\ pc' = "view" /\ UNCHANGED <<pos, seen>>
  <2>1. PICK g \in HeaderAt(HeaderSize + pos) :
          /\ gview' = [base |-> HeaderSize + pos + GroupHeader, len |-> g.block * g.count,
                       block |-> g.block, count |-> g.count, blk |-> tmpl.groups[want]]
          /\ read' = [lo |-> HeaderSize + pos,
                      hi |-> HeaderSize + pos + GroupHeader + g.block * g.count]
          /\ pc' = "view" /\ UNCHANGED <<pos, seen>>
    BY <1>2 DEF WalkGroup
  <2>2. g.block = h.block /\ g.count = h.count
    BY <1>0, WalkFacts
  <2> QED BY <1>2, <2>1, <2>2
<1>4. /\ h.at \in Nat /\ h.block \in Nat /\ h.count \in Nat /\ m \in Nat
      /\ h.at + GroupHeader + m <= size /\ h.count <= MaxRepeated
      /\ Length(tmpl.groups[want]) <= h.block
  BY <1>2, HeadFacts, Products DEF IInv, Chain, After
<1>5. GroupHeader \in Nat /\ size \in Nat /\ tmpl \in Layouts
  BY ViewAssumption DEF IInv, TypeOK
<1>6. tmpl.groups[want] \in DOMAIN tmpl.blocks /\ tmpl.groups[want] \in Nat \ {0}
  <2>1. want \in 1 .. Len(heads) /\ Len(heads) \in Nat /\ Len(heads) <= Len(tmpl.groups)
    BY <1>2, HeadFacts DEF IInv, Chain
  <2>2. Len(tmpl.groups) \in Nat
    BY <1>5, LayoutFacts
  <2>3. want \in 1 .. Len(tmpl.groups)
    BY <2>1, <2>2
  <2> QED BY <1>5, <2>3, LayoutFacts
<1>7. TypeOK'
  <2>1. gv \in GroupType
    <3>1. h.at + GroupHeader \in Nat /\ tmpl.groups[want] \in Nat
      BY <1>4, <1>5, <1>6
    <3> HIDE DEF m, h
    <3> QED BY <1>4, <3>1 DEF GroupType
  <2>2. read' \in [lo : Nat, hi : Nat]
    BY <1>3, <1>4, <1>5
  <2> QED BY <1>0, <1>1, <1>3, <2>1, <2>2, Zenon DEF IInv, TypeOK
<1>8. Progress'
  BY <1>0, <1>1, <1>3 DEF IInv, Progress
<1>9. ReadsInBounds'
  <2>1. read'.hi = h.at + GroupHeader + m /\ gview'.base + gview'.len = h.at + GroupHeader + m
    BY <1>3
  <2> HIDE DEF m, h, gv
  <2>2. read'.hi <= size /\ gview'.base + gview'.len <= size
    BY <1>4, <2>1
  <2> QED BY <1>0, <1>1, <2>2 DEF IInv, ReadsInBounds
<1>10. Views'
  <2>1. /\ gview'.base = h.at + GroupHeader /\ gview'.block = h.block /\ gview'.count = h.count
        /\ gview'.len = gview'.block * gview'.count /\ gview'.blk = tmpl.groups[want]
    BY <1>3
  <2> HIDE DEF gv
  <2> QED BY <1>0, <1>1, <1>2, <1>4, <1>6, <2>1 DEF IInv, Views
<1>11. FieldsInView' /\ Decoded'
  BY <1>0, <1>1, <1>3 DEF IInv, FieldsInView, Decoded
<1> QED BY <1>1, <1>3, <1>6, <1>7, <1>8, <1>9, <1>10, <1>11 DEF IInv

\* UnmarshalInto's walk, which has its own pos, meets the header the validation
\* saw there.
LEMMA UnmarshalGroupInv == IInv /\ UnmarshalGroup => IInv'
<1> SUFFICES ASSUME IInv, UnmarshalGroup PROVE IInv'
  OBVIOUS
<1> DEFINE k == Len(spans) + 1
<1>0. /\ pc = "view" /\ Len(spans) < Len(tmpl.groups)
      /\ UNCHANGED <<bufvars, pc, pos, want, seen, view, gview>>
  BY DEF UnmarshalGroup
<1>1. /\ Chain' /\ tmpl' \in Layouts /\ tmpl' = tmpl /\ size' = size /\ block' = block
      /\ heads' = heads /\ \A j : HeadPos(j)' = HeadPos(j)
      /\ \A b : Length(b)' = Length(b)
  BY <1>0, BufferKept
<1>2. /\ spans \in Seq(Span) /\ Len(spans) \in Nat /\ DOMAIN spans = 1 .. Len(spans)
      /\ Len(heads) = Len(tmpl.groups) /\ upos = HeadPos(k)
  BY <1>0 DEF IInv, TypeOK, Progress, Decoded
<1>3. k \in DOMAIN heads /\ Len(heads) \in Nat /\ DOMAIN heads = 1 .. Len(heads)
  BY <1>0, <1>2, HeadFacts
<1>4. upos = heads[k].at
  BY <1>2, <1>3 DEF IInv, Chain
<1> DEFINE h == heads[k]
           m == h.block * h.count
           sp == [base |-> h.at + GroupHeader, block |-> h.block, count |-> h.count]
<1>5. /\ spans' = Append(spans, sp)
      /\ read' = [lo |-> h.at, hi |-> h.at + GroupHeader + m]
      /\ upos' = h.at + GroupHeader + m
  <2>1. PICK g \in HeaderAt(upos) :
          /\ spans' = Append(spans, [base |-> upos + GroupHeader, block |-> g.block,
                                     count |-> g.count])
          /\ read' = [lo |-> upos, hi |-> upos + GroupHeader + g.block * g.count]
          /\ upos' = upos + GroupHeader + g.block * g.count
    BY Zenon DEF UnmarshalGroup
  <2>2. g.block = h.block /\ g.count = h.count
    BY <1>3, <1>4, HeaderThere
  <2> QED BY <1>4, <2>1, <2>2
<1>6. /\ h.at \in Nat /\ h.block \in Nat /\ h.count \in Nat /\ m \in Nat
      /\ h.at + GroupHeader + m <= size /\ After(h) = h.at + GroupHeader + m
      /\ GroupHeader \in Nat /\ size \in Nat
  BY <1>3, HeadFacts, Products DEF IInv, Chain, After, TypeOK
<1>7. sp \in Span
  <2>1. h.at + GroupHeader \in Nat
    <3> HIDE DEF m, h
    <3> QED BY <1>6
  <2> QED BY <1>6, <2>1, Zenon DEF Span
<1>8. /\ spans' \in Seq(Span) /\ Len(spans') = k /\ DOMAIN spans' = 1 .. k /\ spans'[k] = sp
      /\ \A j \in 1 .. Len(spans) : spans'[j] = spans[j]
  <2>1. spans' = Append(spans, sp) /\ sp \in Span /\ spans \in Seq(Span)
    BY <1>2, <1>5, <1>7
  <2> HIDE DEF sp, h, m
  <2>2. spans' \in Seq(Span)
    BY <2>1
  <2>3. Len(spans') = k /\ DOMAIN spans' = 1 .. k /\ spans'[k] = sp
    BY <2>1
  <2>4. \A j \in 1 .. Len(spans) : spans'[j] = spans[j]
    BY <2>1
  <2> QED BY <2>2, <2>3, <2>4
<1>9. HeadPos(k + 1) = h.at + GroupHeader + m
  BY <1>2, <1>6 DEF HeadPos
<1>10. TypeOK'
  <2>1. read' \in [lo : Nat, hi : Nat] /\ upos' \in Nat
    <3> HIDE DEF m, sp
    <3> QED BY <1>5, <1>6
  <2> QED BY <1>0, <1>1, <1>8, <2>1 DEF IInv, TypeOK
<1>11. Decoded'
  <2>1. Len(spans') <= Len(heads)
    BY <1>2, <1>3, <1>8
  <2>2. ASSUME NEW j \in DOMAIN spans'
        PROVE  spans'[j] = [base |-> heads[j].at + GroupHeader, block |-> heads[j].block,
                            count |-> heads[j].count]
    <3>1. CASE j = k
      BY <1>8, <3>1
    <3>2. CASE j # k
      <4>1. j \in DOMAIN spans /\ spans'[j] = spans[j]
        BY <1>2, <1>8, <3>2
      <4> QED BY <4>1 DEF IInv, Decoded
    <3> QED BY <3>1, <3>2
  <2>3. upos' = HeadPos(Len(spans') + 1)
    BY <1>5, <1>8, <1>9
  <2>4. HeadPos(Len(spans) + 1)' = HeadPos(Len(spans') + 1)
    BY <1>1 DEF HeadPos
  <2> QED BY <1>0, <1>1, <2>1, <2>2, <2>3, <2>4 DEF Decoded
<1>12. ReadsInBounds'
  <2>1. read'.hi = h.at + GroupHeader + m
    BY <1>5
  <2>2. read'.hi <= size
    BY <1>6, <2>1
  <2> QED BY <1>0, <1>1, <2>2 DEF IInv, ReadsInBounds
<1>13. Progress' /\ FieldsInView' /\ Views'
  BY <1>0, <1>1 DEF IInv, Progress, FieldsInView, Views
<1> QED BY <1>1, <1>10, <1>11, <1>12, <1>13 DEF IInv
-----------------------------------------------------------------------------
\* Every step keeps the invariant.
LEMMA NextInv == IInv /\ [Next]_vars => IInv'
<1> SUFFICES ASSUME IInv, [Next]_vars PROVE IInv'
  OBVIOUS
<1>1. CASE NewView
  BY <1>1, NewViewInv
<1>2. CASE ValidateGroup
  BY <1>2, ValidateGroupInv
<1>3. CASE Accept
  BY <1>3, AcceptInv
<1>4. CASE Fieldwise
  BY <1>4, ReadFieldInv, CompositeInv DEF Fieldwise
<1>5. CASE \E g \in DOMAIN tmpl.groups : Group(g)
  BY <1>5, GroupInv
<1>6. CASE WalkGroup
  BY <1>6, WalkOnInv, WalkEndInv
<1>7. CASE \E i \in Uint16 : Entry(i)
  BY <1>7, EntryInv
<1>8. CASE BackToRoot
  BY <1>8, BackToRootInv
<1>9. CASE UnmarshalGroup
  BY <1>9, UnmarshalGroupInv
<1>10. CASE UNCHANGED vars
  <2>1. UNCHANGED <<bufvars, pc, pos, want, seen, view, gview, read, upos, spans>>
    BY <1>10, Zenon DEF vars, bufvars
  <2>2. /\ Chain' /\ tmpl' = tmpl /\ size' = size /\ block' = block /\ heads' = heads
        /\ \A k : HeadPos(k)' = HeadPos(k)
        /\ \A b : Length(b)' = Length(b)
    BY <2>1, BufferKept, Zenon
  <2>3. TypeOK' /\ Progress'
    BY <2>1, <2>2, Zenon DEF IInv, TypeOK, Progress
  <2>4. ReadsInBounds' /\ FieldsInView'
    BY <2>1, <2>2, Zenon DEF IInv, ReadsInBounds, FieldsInView
  <2>5. Views' /\ Decoded'
    BY <2>1, <2>2, Zenon DEF IInv, Views, Decoded
  <2> QED BY <2>2, <2>3, <2>4, <2>5, Zenon DEF IInv
<1> QED BY <1>1, <1>2, <1>3, <1>4, <1>5, <1>6, <1>7, <1>8, <1>9, <1>10 DEF Next

\* The invariant holds throughout.
LEMMA Invariance == Spec => []IInv
  BY InitInv, NextInv, PTL DEF Spec

\* Offsets, lengths and counts are natural numbers throughout.
THEOREM TypeCorrect == Spec => []TypeOK
<1>1. IInv => TypeOK
  BY DEF IInv
<1> QED BY <1>1, Invariance, PTL

\* "the accessors never read past the buffer" (sbe.h): for every template,
\* buffer and header, and any order of accessors, what View, GroupView and
\* UnmarshalInto read or hand out lies in the buffer.
THEOREM AccessorsStayInBuffer == Spec => []ReadsInBounds
<1>1. IInv => ReadsInBounds
  BY DEF IInv
<1> QED BY <1>1, Invariance, PTL

\* Every view, of the root block, of a composite or of an entry, is as long as
\* the field list it offers.
THEOREM ViewsHoldTheirFields == Spec => []FieldsInView
<1>1. IInv => FieldsInView
  BY DEF IInv
<1> QED BY <1>1, Invariance, PTL

\* The fields of the record UnmarshalInto keeps of a decoded group.
LEMMA SpanParts == ASSUME NEW s, NEW base, NEW blk, NEW count,
                          s = [base |-> base, block |-> blk, count |-> count]
                   PROVE  s.base = base /\ s.block = blk /\ s.count = count
  BY SMT

\* View::Group and UnmarshalInto find each group at the same bytes.
THEOREM ViewAgreesWithUnmarshal == Spec => []GroupsAgree
<1>1. IInv => GroupsAgree
  <2> SUFFICES ASSUME IInv, pc = "view", gview.blk # 0, want \in DOMAIN spans
               PROVE  /\ gview.base = spans[want].base
                      /\ gview.block = spans[want].block /\ gview.count = spans[want].count
    BY DEF GroupsAgree
  <2>1. gview.base = heads[want].at + GroupHeader /\ gview.block = heads[want].block
        /\ gview.count = heads[want].count
    BY DEF IInv, Views
  <2>2. spans[want] = [base |-> heads[want].at + GroupHeader, block |-> heads[want].block,
                       count |-> heads[want].count]
    BY Zenon DEF IInv, Decoded
  <2>3. /\ spans[want].base = heads[want].at + GroupHeader
        /\ spans[want].block = heads[want].block /\ spans[want].count = heads[want].count
    BY <2>2, SpanParts
  <2> QED BY <2>1, <2>3, Zenon
<1> QED BY <1>1, Invariance, PTL

\* GroupView::Entry refuses no index below Len.
THEOREM EveryEntryThere == Spec => []EntriesThere
<1>1. IInv => EntriesThere
  <2> SUFFICES ASSUME IInv, gview.blk # 0
               PROVE  /\ gview.count <= MaxRepeated
                      /\ \A i \in 0 .. gview.count - 1 : ~EntryOutOfRange(i)
    BY DEF EntriesThere
  <2>1. gview.count <= MaxRepeated /\ gview.len = gview.block * gview.count
    BY DEF IInv, Views
  <2>2. gview.count \in Nat /\ gview.block \in Nat
    BY DEF IInv, TypeOK, GroupType
  <2>3. ASSUME NEW i \in 0 .. gview.count - 1
        PROVE  ~EntryOutOfRange(i)
    <3>1. i \in Nat /\ i < gview.count
      BY <2>2
    <3>2. (i + 1) * gview.block <= gview.block * gview.count
      BY <2>2, <3>1, Products
    <3> DEFINE a == (i + 1) * gview.block
               c == gview.block * gview.count
    <3>3. a \in Nat /\ c \in Nat /\ a <= c /\ gview.len = c
      BY <2>1, <2>2, <3>1, <3>2, Products
    <3>4. EntryOutOfRange(i) <=> i >= gview.count \/ gview.len < a
      BY DEF EntryOutOfRange
    <3> HIDE DEF a, c
    <3> QED BY <2>2, <3>1, <3>3, <3>4
  <2> QED BY <2>1, <2>3
<1> QED BY <1>1, Invariance, PTL

\* View::Group finds every group the template has.
THEOREM EveryGroupFound == Spec => GroupsFound
<1>1. IInv /\ [Next]_vars => [pc = "walk" /\ pc' = "view" => gview'.blk # 0]_vars
  <2> SUFFICES ASSUME IInv, Next, pc = "walk", pc' = "view" PROVE gview'.blk # 0
    OBVIOUS
  <2>1. WalkGroup
    BY Zenon DEF Next, NewView, ValidateGroup, Accept, Fieldwise, ReadField, Composite, Group, Entry,
       BackToRoot, UnmarshalGroup
  <2>2. seen + 1 = want
    BY <2>1, WalkFacts, Zenon DEF WalkGroup
  <2> QED BY <2>1, <2>2, WalkEndInv
<1> QED BY <1>1, Invariance, PTL DEF Spec, GroupsFound
=============================================================================
