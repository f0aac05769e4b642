--------------------------- MODULE PbStreamProofs ---------------------------
(***************************************************************************)
(* What holds of the pb stream for every set of body lengths, every limit, *)
(* every varint base and every number of frames.                           *)
(***************************************************************************)
EXTENDS PbStream, FiniteSetTheorems, SequenceTheorems, TLAPS

\* A length prefix has at least one byte (AppendVarint).
LEMMA VarintLenType == \A n \in Nat : VarintLen(n) \in Nat /\ VarintLen(n) >= 1
<1> SUFFICES ASSUME NEW n \in Nat
             PROVE  VarintLen(n) \in Nat /\ VarintLen(n) >= 1
  OBVIOUS
<1> DEFINE I == 1 .. MaxVarintBytes - 1
           S == {k \in I : n >= Base ^ k}
<1>1. IsFiniteSet(I)
  BY FS_Interval, VarintAssumption
<1>2. IsFiniteSet(S) /\ Cardinality(S) \in Nat
  BY <1>1, FS_Subset, FS_CardinalityType, Zenon
<1> QED
  BY <1>2 DEF VarintLen

\* A frame takes at least the byte of its length.
LEMMA FrameSizes ==
  ASSUME NEW f \in Frame
  PROVE  /\ VarintLen(f.len) \in Nat /\ VarintLen(f.len) >= 1
         /\ f.start \in Nat /\ f.len \in Nat /\ f.len \in Lens
         /\ EndOf(f) \in Nat
         /\ EndOf(f) = f.start + VarintLen(f.len) + f.len
         /\ EndOf(f) > f.start
<1>1. f.start \in Nat /\ f.len \in Nat /\ f.len \in Lens
  BY LensAssumption, Zenon DEF Frame
<1> QED
  BY <1>1, VarintLenType DEF EndOf, Size

\* The first unread byte of a decoder between calls is the start of the next
\* frame, and of no other.
LEMMA NextFrame ==
  ASSUME TypeOK, Contiguous, InOrder, garbles = 0,
         Len(delivered) < Len(frames)
  PROVE  /\ frames[Len(delivered) + 1] \in Frame
         /\ frames[Len(delivered) + 1].start = DeliveredEnd
         /\ FramesAt(DeliveredEnd) = {Len(delivered) + 1}
<1> DEFINE m == Len(delivered) + 1
           f == frames[m]
<1>1. /\ m \in DOMAIN frames /\ m \in Nat /\ f \in Frame
      /\ \A k \in DOMAIN frames : k \in Nat /\ k >= 1 /\ k <= Len(frames) /\ frames[k] \in Frame
  BY DEF TypeOK
<1>2. f.start = DeliveredEnd
  <2>1. CASE delivered = <<>>
    BY <1>1, <2>1 DEF Contiguous, DeliveredEnd
  <2>2. CASE delivered # <<>>
    <3>1. /\ Len(delivered) \in DOMAIN delivered /\ Len(delivered) \in DOMAIN frames
          /\ m # 1 /\ m - 1 = Len(delivered)
      BY <2>2, <1>1 DEF TypeOK
    <3>2. delivered[Len(delivered)] = BodyOf(frames[Len(delivered)])
      BY <3>1 DEF InOrder
    <3>3. f.start = EndOf(frames[Len(delivered)])
      BY <3>1, <1>1 DEF Contiguous
    <3> QED
      BY <2>2, <3>1, <3>2, <3>3, <1>1, FrameSizes DEF DeliveredEnd, BodyOf
  <2> QED BY <2>1, <2>2
<1>3. ASSUME NEW k \in DOMAIN frames, k # m
      PROVE  frames[k].start # f.start
  <2>1. CASE k < m
    <3>1. EndOf(frames[k]) <= f.start
      BY <1>1, <2>1 DEF Contiguous
    <3> QED BY <3>1, <1>1, FrameSizes
  <2>2. CASE k > m
    <3>1. EndOf(f) <= frames[k].start
      BY <1>1, <2>2 DEF Contiguous
    <3> QED BY <3>1, <1>1, FrameSizes
  <2> QED BY <1>1, <1>3, <2>1, <2>2
<1> QED
  BY <1>1, <1>2, <1>3 DEF FramesAt

\* A decoder with bytes left to read has a frame to read them from.
LEMMA SomethingLeft ==
  ASSUME TypeOK, Written, InOrder, garbles = 0, rpos = DeliveredEnd, rpos < vis
  PROVE  Len(delivered) < Len(frames)
<1> SUFFICES ASSUME Len(delivered) >= Len(frames)
             PROVE  FALSE
  BY DEF TypeOK
<1>1. frames \in Seq(Frame) /\ delivered \in Seq([from : Nat, len : Nat])
  BY DEF TypeOK
<1>2. CASE delivered = <<>>
  <2>1. Len(frames) = 0 /\ frames = <<>>
    BY <1>1, <1>2
  <2> QED BY <2>1, <1>2 DEF Written, TypeOK, DeliveredEnd, WholeEnd, Whole
<1>3. CASE delivered # <<>>
  <2> DEFINE d == Len(delivered)
  <2>1. d \in DOMAIN delivered /\ d \in Nat /\ d >= 1
    BY <1>1, <1>3
  <2>2. d <= Whole /\ delivered[d] = BodyOf(frames[d])
    BY <2>1 DEF InOrder
  <2>3. d = Len(frames) /\ ~wfail /\ Whole = d
    BY <1>1, <2>1, <2>2 DEF Whole, TypeOK
  <2>4. frames[d] \in Frame
    BY <1>1, <2>1, <2>3
  <2>5. DeliveredEnd = EndOf(frames[d])
    BY <1>3, <2>2, <2>4, FrameSizes DEF DeliveredEnd, BodyOf
  <2>6. wlen = EndOf(frames[d])
    BY <2>1, <2>3 DEF Written, WholeEnd
  <2> QED BY <2>5, <2>6 DEF Written, TypeOK
<1> QED BY <1>2, <1>3
-----------------------------------------------------------------------------
\* A stream nothing has been written to satisfies the invariant.
LEMMA InitInv == Init => IInv
<1> SUFFICES ASSUME Init PROVE IInv
  OBVIOUS
<1>0. /\ <<>> \in Seq(Frame) /\ <<>> \in Seq([from : Nat, len : Nat])
      /\ 0 \in Nat /\ DefaultMax \in Int
  BY SizesAssumption
<1>1. TypeOK
  BY <1>0, Zenon DEF Init, TypeOK, Errors
<1>2. Contiguous /\ InOrder
  BY DEF Init, Contiguous, InOrder
<1>3. Written /\ Boundary /\ InNextFrame
  BY DEF Init, Written, WholeEnd, Whole, Boundary, InNextFrame, DeliveredEnd
<1> QED
  BY <1>1, <1>2, <1>3 DEF IInv

\* A frame added at the writer's position keeps the frames end to end and
\* leaves what was delivered where it was.
LEMMA AppendFrame ==
  ASSUME IInv, ~wfail, NEW f \in Frame, f.start = wlen,
         frames' = Append(frames, f), UNCHANGED <<garbles, dvars>>,
         wfail' \in BOOLEAN
  PROVE  /\ frames' \in Seq(Frame)
         /\ Len(frames') = Len(frames) + 1
         /\ frames'[Len(frames) + 1] = f
         /\ \A k \in DOMAIN frames : frames'[k] = frames[k]
         /\ Contiguous' /\ InOrder' /\ Boundary' /\ InNextFrame'
<1> USE DEF IInv
<1>1. /\ frames' \in Seq(Frame)
      /\ Len(frames') = Len(frames) + 1
      /\ frames'[Len(frames) + 1] = f
      /\ \A k \in DOMAIN frames : frames'[k] = frames[k]
      /\ DOMAIN frames = 1 .. Len(frames)
      /\ DOMAIN frames' = 1 .. Len(frames) + 1
      /\ Len(frames) \in Nat
      /\ \A k \in DOMAIN frames : frames[k] \in Frame
  BY DEF TypeOK
<1>2. Whole = Len(frames) /\ Whole' >= Len(frames)
  BY <1>1 DEF Whole
<1>3. wlen = IF Len(frames) = 0 THEN 0 ELSE EndOf(frames[Len(frames)])
  BY <1>2 DEF Written, WholeEnd
<1>4. \A k \in DOMAIN frames : EndOf(frames[k]) <= wlen
  <2> SUFFICES ASSUME NEW k \in DOMAIN frames
               PROVE  EndOf(frames[k]) <= wlen
    OBVIOUS
  <2>1. CASE k = Len(frames)
    BY <1>1, <1>3, <2>1, FrameSizes
  <2>2. CASE k < Len(frames)
    <3>1. EndOf(frames[k]) <= frames[Len(frames)].start
      BY <1>1, <2>2 DEF Contiguous
    <3>2. Len(frames) # 0 /\ frames[k] \in Frame /\ frames[Len(frames)] \in Frame
      BY <1>1, <2>2
    <3>3. /\ EndOf(frames[k]) \in Nat /\ EndOf(frames[Len(frames)]) \in Nat
          /\ frames[Len(frames)].start \in Nat
          /\ frames[Len(frames)].start < EndOf(frames[Len(frames)])
      BY <3>2, FrameSizes
    <3>4. wlen = EndOf(frames[Len(frames)])
      BY <1>3, <3>2
    <3> QED BY <3>1, <3>3, <3>4
  <2> QED BY <1>1, <2>1, <2>2
<1>5. Contiguous'
  <2>1. ASSUME NEW k \in DOMAIN frames'
        PROVE  frames'[k].start = IF k = 1 THEN 0 ELSE EndOf(frames'[k - 1])
    <3>1. CASE k = Len(frames) + 1
      <4>1. Len(frames) # 0 => k # 1 /\ frames'[k - 1] = frames[Len(frames)]
        <5>1. k - 1 = Len(frames) /\ (Len(frames) # 0 => k # 1)
          BY <3>1, <1>1
        <5>2. Len(frames) # 0 => Len(frames) \in DOMAIN frames
          BY <1>1
        <5> QED BY <5>1, <5>2, <1>1
      <4>2. frames'[k].start = wlen
        BY <3>1, <1>1
      <4>3. CASE Len(frames) = 0
        BY <1>3, <3>1, <4>2, <4>3
      <4>4. CASE Len(frames) # 0
        BY <1>3, <4>1, <4>2, <4>4
      <4> QED BY <4>3, <4>4
    <3>2. CASE k \in DOMAIN frames
      <4>1. k # 1 => k - 1 \in DOMAIN frames
        BY <3>2, <1>1
      <4> QED BY <1>1, <3>2, <4>1 DEF Contiguous
    <3> QED BY <1>1, <2>1, <3>1, <3>2
  <2>2. ASSUME NEW k \in DOMAIN frames', NEW j \in 1 .. k - 1
        PROVE  EndOf(frames'[j]) <= frames'[k].start
    <3>1. j \in DOMAIN frames
      BY <1>1, <2>2
    <3>2. CASE k = Len(frames) + 1
      BY <1>1, <1>4, <3>1, <3>2
    <3>3. CASE k \in DOMAIN frames
      BY <1>1, <3>1, <3>3 DEF Contiguous
    <3> QED BY <1>1, <2>2, <3>2, <3>3
  <2> QED
    BY <2>1, <2>2 DEF Contiguous, EndOf, Size
<1>6. InOrder'
  <2> SUFFICES ASSUME garbles = 0, NEW k \in DOMAIN delivered
               PROVE  k <= Whole' /\ delivered[k] = BodyOf(frames'[k])
    BY Zenon DEF InOrder, dvars, BodyOf
  <2>1. k <= Whole /\ delivered[k] = BodyOf(frames[k]) /\ k \in 1 .. Len(delivered)
    BY DEF InOrder, TypeOK
  <2>2. k \in DOMAIN frames /\ k <= Whole'
    BY <1>1, <1>2, <2>1 DEF Whole
  <2> QED BY <1>1, <2>1, <2>2
<1>7. Boundary'
  BY DEF Boundary, DeliveredEnd, dvars
<1>8. InNextFrame'
  <2> SUFFICES ASSUME garbles = 0, err = "ok", pc # "idle"
               PROVE  /\ Len(delivered) < Len(frames')
                      /\ frames'[Len(delivered) + 1] = frames[Len(delivered) + 1]
                      /\ InNextFrame
    BY DEF InNextFrame, DeliveredEnd, dvars
  <2>1. Len(delivered) < Len(frames) /\ Len(delivered) \in Nat
    BY DEF InNextFrame, TypeOK
  <2> QED BY <1>1, <2>1
<1> QED
  BY <1>1, <1>5, <1>6, <1>7, <1>8

\* Writing a frame, whole or in part, keeps the invariant.
LEMMA WriteInv ==
  ASSUME IInv, Write
  PROVE  IInv'
<1> PICK n \in Lens : Encode(n) \/ \E k \in 0 .. VarintLen(n) + n : EncodeFails(n, k)
  BY DEF Write
<1> DEFINE f == [start |-> wlen, len |-> n]
<1>1. f \in Frame /\ wlen \in Nat
  BY DEF Frame, IInv, TypeOK
<1>2. CASE Encode(n)
  <2>1. /\ ~wfail /\ wfail' = wfail /\ frames' = Append(frames, f) /\ wlen' = EndOf(f)
        /\ UNCHANGED <<vis, rbad, garbles, dvars>>
    BY <1>2 DEF Encode
  <2>2. /\ frames' \in Seq(Frame) /\ Len(frames') = Len(frames) + 1
        /\ frames'[Len(frames) + 1] = f
        /\ Contiguous' /\ InOrder' /\ Boundary' /\ InNextFrame'
    BY <1>1, <2>1, AppendFrame DEF IInv, TypeOK
  <2>3. TypeOK'
    BY <1>1, <2>1, <2>2, FrameSizes DEF IInv, TypeOK, dvars
  <2>4. Written'
    <3>1. Whole' = Len(frames) + 1 /\ Len(frames) \in Nat
      BY <2>1, <2>2 DEF Whole, IInv, TypeOK
    <3>2. WholeEnd' = EndOf(f)
      BY <2>1, <2>2, <3>1 DEF WholeEnd, EndOf, Size
    <3>3. wlen < EndOf(f) /\ EndOf(f) \in Nat
      BY <1>1, FrameSizes
    <3>4. vis <= wlen /\ rpos <= vis /\ vis \in Nat /\ rpos \in Nat
      BY DEF IInv, Written, TypeOK
    <3> QED BY <1>1, <2>1, <3>2, <3>3, <3>4 DEF Written, dvars
  <2> QED BY <2>2, <2>3, <2>4 DEF IInv
<1>3. CASE \E k \in 0 .. VarintLen(n) + n : EncodeFails(n, k)
  <2> PICK k \in 0 .. VarintLen(n) + n : EncodeFails(n, k)
    BY <1>3
  <2>1. /\ ~wfail /\ wfail' = TRUE /\ frames' = Append(frames, f) /\ wlen' = wlen + k
        /\ k < Size(f) /\ UNCHANGED <<vis, rbad, garbles, dvars>>
    BY DEF EncodeFails
  <2>2. /\ frames' \in Seq(Frame) /\ Len(frames') = Len(frames) + 1
        /\ frames'[Len(frames) + 1] = f
        /\ \A j \in DOMAIN frames : frames'[j] = frames[j]
        /\ Contiguous' /\ InOrder' /\ Boundary' /\ InNextFrame'
    BY <1>1, <2>1, AppendFrame DEF IInv, TypeOK
  <2>3. k \in Nat /\ Size(f) \in Nat
    BY <1>1, FrameSizes, VarintLenType, LensAssumption DEF Size
  <2>4. TypeOK'
    BY <1>1, <2>1, <2>2, <2>3 DEF IInv, TypeOK, dvars
  <2>5. Written'
    <3>1. Len(frames') = Len(frames) + 1 /\ Whole' = Len(frames) /\ Len(frames) \in Nat /\ Whole = Len(frames)
      BY <2>1, <2>2 DEF Whole, IInv, TypeOK
    <3>2. WholeEnd' = WholeEnd /\ WholeEnd = wlen
      BY <2>1, <2>2, <3>1 DEF WholeEnd, EndOf, Size, IInv, Written, TypeOK
    <3>3. EndOf(f) = wlen + Size(f) /\ wlen + k < EndOf(f)
      BY <1>1, <2>1, <2>3 DEF EndOf
    <3>4. frames' # <<>> /\ EndOf(frames'[Len(frames')]) = EndOf(f)
      BY <2>2, <3>1
    <3>5. vis <= wlen /\ rpos <= vis /\ vis \in Nat /\ rpos \in Nat
      BY DEF IInv, Written, TypeOK
    <3> QED BY <1>1, <2>1, <2>3, <3>2, <3>3, <3>4, <3>5 DEF Written, dvars, EndOf, Size
  <2> QED BY <2>2, <2>4, <2>5 DEF IInv
<1> QED BY <1>2, <1>3
-----------------------------------------------------------------------------
\* The stream's own steps and SetMaxFrameSize move nothing the decoder relies
\* on.
LEMMA StreamInv ==
  ASSUME IInv, Transmit \/ SourceFails \/ Garble \/ Resize
  PROVE  IInv'
<1> USE DEF IInv
<1>1. CASE Transmit
  <2>1. vis' \in Nat /\ vis < vis' /\ vis' <= wlen /\ UNCHANGED <<wvars, rbad, garbles, dvars>>
    BY <1>1 DEF Transmit, TypeOK
  <2>2. TypeOK'
    BY <2>1 DEF TypeOK, wvars, dvars
  <2>3. Contiguous' /\ InOrder' /\ Boundary' /\ InNextFrame'
    BY <2>1 DEF Contiguous, InOrder, Boundary, InNextFrame, DeliveredEnd, Whole, EndOf, Size,
                BodyOf, wvars, dvars
  <2>4. Written'
    <3>1. WholeEnd' = WholeEnd /\ rpos' = rpos /\ wlen' = wlen /\ frames' = frames /\ wfail' = wfail
      BY <2>1 DEF WholeEnd, Whole, EndOf, Size, wvars, dvars
    <3> QED BY <2>1, <3>1 DEF Written, EndOf, Size, TypeOK
  <2> QED BY <2>2, <2>3, <2>4
<1>2. CASE SourceFails
  <2>1. rbad' = TRUE /\ UNCHANGED <<wvars, vis, garbles, dvars>>
    BY <1>2 DEF SourceFails
  <2> QED
    BY <2>1 DEF TypeOK, Contiguous, Written, WholeEnd, InOrder, Boundary, InNextFrame,
                DeliveredEnd, Whole, EndOf, Size, BodyOf, wvars, dvars
<1>3. CASE Garble
  <2>1. garbles' = garbles + 1 /\ garbles' \in Nat /\ garbles' # 0
        /\ UNCHANGED <<wvars, vis, rbad, dvars>>
    BY <1>3 DEF Garble, TypeOK
  <2>2. TypeOK' /\ InOrder' /\ InNextFrame'
    BY <2>1 DEF TypeOK, InOrder, InNextFrame, wvars, dvars
  <2>3. Contiguous' /\ Written' /\ Boundary'
    BY <2>1 DEF Contiguous, Written, WholeEnd, Boundary, DeliveredEnd, Whole, EndOf, Size,
                wvars, dvars
  <2> QED BY <2>2, <2>3
<1>4. CASE Resize
  <2> PICK n \in Sizes : SetMaxFrameSize(n)
    BY <1>4 DEF Resize
  <2>1. max' = n /\ n \in Int
        /\ UNCHANGED <<wvars, vis, rbad, garbles, rpos, pc, nread, need, err, last, delivered>>
    BY SizesAssumption DEF SetMaxFrameSize
  <2>2. TypeOK'
    BY <2>1 DEF TypeOK, wvars
  <2>3. Contiguous' /\ Written'
    BY <2>1 DEF Contiguous, Written, WholeEnd, Whole, EndOf, Size, wvars
  <2>4. InOrder' /\ Boundary' /\ InNextFrame'
    BY <2>1 DEF InOrder, Boundary, InNextFrame, DeliveredEnd, Whole, EndOf, Size, BodyOf, wvars
  <2> QED BY <2>2, <2>3, <2>4
<1> QED BY <1>1, <1>2, <1>3, <1>4

\* A decoder step leaves the writer and the stream as they are.
LEMMA WriterKept ==
  ASSUME IInv, UNCHANGED <<wvars, vis, rbad, garbles>>, rpos' \in Nat, rpos' <= vis
  PROVE  Contiguous' /\ Written' /\ frames' = frames /\ Whole' = Whole
<1>1. Contiguous' /\ frames' = frames /\ Whole' = Whole
  BY DEF IInv, Contiguous, EndOf, Size, Whole, wvars
<1>2. Written'
  BY DEF IInv, Written, WholeEnd, Whole, EndOf, Size, wvars
<1> QED BY <1>1, <1>2

\* A decoder that keeps an error or meets a clean end keeps the invariant: it
\* gives up what it read, and delivers nothing.
LEMMA ReturnInv ==
  ASSUME IInv, UNCHANGED <<wvars, vis, rbad, garbles, max, delivered>>,
         rpos' \in Nat, rpos' <= vis, NEW st, Return(st),
         st \in {"eof"} \cup Errors,
         \/ err' \in Errors
         \/ err' = "ok" /\ err = "ok" /\ rpos' = DeliveredEnd
  PROVE  IInv'
<1>1. TypeOK'
  <2>1. 0 \in Nat
    OBVIOUS
  <2>2. /\ pc' = "idle" /\ last' = st /\ nread' = 0 /\ need' = 0
        /\ frames' = frames /\ wlen' = wlen /\ wfail' = wfail
    BY DEF Return, wvars
  <2> QED BY <2>1, <2>2, Zenon DEF IInv, TypeOK
<1>2. Contiguous' /\ Written'
  BY WriterKept
<1>3. InOrder'
  BY DEF IInv, InOrder, Whole, BodyOf, wvars
<1>4. Boundary'
  <2>1. DeliveredEnd' = DeliveredEnd /\ pc' = "idle" /\ nread' = 0
    BY DEF DeliveredEnd, Return
  <2> QED BY <2>1 DEF Boundary, Errors, IInv, TypeOK
<1>5. InNextFrame'
  BY DEF InNextFrame, Return
<1> QED BY <1>1, <1>2, <1>3, <1>4, <1>5 DEF IInv

\* A call on a failed decoder keeps the invariant.
LEMMA DecodeAfterErrorInv ==
  ASSUME IInv, DecodeAfterError
  PROVE  IInv'
<1>1. err \in Errors /\ rpos' = rpos /\ rpos \in Nat /\ rpos <= vis /\ err' = err
      /\ UNCHANGED <<wvars, vis, rbad, garbles, max, delivered>> /\ Return(err)
  BY DEF DecodeAfterError, IInv, TypeOK, Written
<1> QED BY <1>1, ReturnInv

\* The end of the last body taken is an offset.
LEMMA DeliveredEndType == TypeOK => DeliveredEnd \in Nat
<1> SUFFICES ASSUME TypeOK PROVE DeliveredEnd \in Nat
  OBVIOUS
<1> DEFINE Body == [from : Nat, len : Nat]
<1>1. delivered \in Seq(Body)
  BY DEF TypeOK
<1>2. delivered # <<>> => delivered[Len(delivered)] \in Body
  <2> HIDE DEF Body
  <2> QED BY <1>1
<1> QED BY <1>2 DEF DeliveredEnd

\* What the decoder knows when it reads a byte of a length: the frame it is
\* in, and so what the byte says.
LEMMA LengthRead ==
  ASSUME IInv, garbles = 0, err = "ok", pc \in {"idle", "len"}, rpos < vis,
         NEW b \in LenByte
  PROVE  LET f == frames[Len(delivered) + 1] IN
         /\ Len(delivered) < Len(frames)
         /\ f \in Frame
         /\ FramesAt(rpos - nread) # {}
         /\ b.end \in BOOLEAN
         /\ b.end => b.n = f.len /\ nread + 1 = VarintLen(f.len)
         /\ ~b.end => nread + 1 < VarintLen(f.len)
<1> DEFINE f == frames[Len(delivered) + 1]
           m == Len(delivered) + 1
<1>1. rpos = DeliveredEnd + nread /\ nread \in Nat /\ rpos \in Nat /\ (pc = "idle" => nread = 0)
  BY DEF IInv, Boundary, TypeOK
<1>2. DeliveredEnd \in Nat
  BY DeliveredEndType DEF IInv
<1>3. Len(delivered) < Len(frames)
  <2>1. CASE pc = "len"
    BY <2>1 DEF IInv, InNextFrame
  <2>2. CASE pc = "idle"
    <3>1. rpos = DeliveredEnd
      BY <1>1, <1>2, <2>2
    <3> QED BY <3>1, SomethingLeft DEF IInv
  <2> QED BY <2>1, <2>2
<1>4. f \in Frame /\ FramesAt(DeliveredEnd) = {m}
  BY <1>3, NextFrame DEF IInv
<1>5. VarintLen(f.len) \in Nat /\ VarintLen(f.len) >= 1
  BY <1>4, FrameSizes
<1>6. rpos - nread = DeliveredEnd
  BY <1>1, <1>2
<1>7. nread < VarintLen(f.len)
  BY <1>1, <1>3, <1>5 DEF IInv, InNextFrame
<1>8. b = IF nread + 1 < VarintLen(f.len)
          THEN [end |-> FALSE, n |-> 0]
          ELSE [end |-> TRUE, n |-> f.len]
  BY <1>4, <1>6, Zenon DEF LenByte
<1>9. FramesAt(rpos - nread) # {}
  BY <1>4, <1>6
<1>10. /\ b.end \in BOOLEAN
       /\ b.end => b.n = f.len /\ nread + 1 = VarintLen(f.len)
       /\ ~b.end => nread + 1 < VarintLen(f.len)
  BY <1>1, <1>5, <1>7, <1>8
<1> QED
  BY <1>3, <1>4, <1>9, <1>10

\* The outcomes of a byte of a length are booleans and lengths.
LEMMA LenByteType ==
  ASSUME TypeOK, NEW b \in LenByte
  PROVE  b.end \in BOOLEAN /\ b.n \in Nat
<1>1. CASE FramesAt(rpos - nread) # {}
  <2>1. ASSUME NEW k \in FramesAt(rpos - nread)
        PROVE  frames[k].len \in Nat
    <3>1. k \in DOMAIN frames
      BY DEF FramesAt
    <3>2. frames[k] \in Frame
      BY <3>1 DEF TypeOK
    <3> QED BY <3>2, FrameSizes
  <2>2. PICK k \in FramesAt(rpos - nread) :
          b = IF nread + 1 < VarintLen(frames[k].len)
              THEN [end |-> FALSE, n |-> 0]
              ELSE [end |-> TRUE, n |-> frames[k].len]
    BY <1>1 DEF LenByte
  <2> QED BY <2>1, <2>2
<1>2. CASE FramesAt(rpos - nread) = {}
  <2>1. b \in [end : {FALSE}, n : {0}] \/ b \in [end : {TRUE}, n : Lens]
    BY <1>2, Zenon DEF LenByte
  <2>2. b.end \in BOOLEAN
    BY <2>1, Zenon
  <2>3. b.n = 0 \/ b.n \in Lens
    BY <2>1, Zenon
  <2>4. b.n \in Nat
    <3>1. 0 \in Nat
      OBVIOUS
    <3> QED BY <2>3, <3>1, LensAssumption, Zenon
  <2> QED BY <2>2, <2>4, Zenon
<1> QED BY <1>1, <1>2

\* A turn of ReadUvarint's loop keeps the invariant.
LEMMA ReadLenByteInv ==
  ASSUME IInv, ReadLenByte
  PROVE  IInv'
<1>0. /\ err = "ok" /\ pc \in {"idle", "len"}
      /\ UNCHANGED <<wvars, vis, rbad, garbles>>
      /\ rpos \in Nat /\ vis \in Nat /\ nread \in Nat /\ rpos <= vis
      /\ rpos = DeliveredEnd + nread
  BY DEF ReadLenByte, IInv, TypeOK, Written, Boundary
<1>1. ASSUME NEW e \in Errors, Fail(e), rpos' = rpos \/ (rpos' = rpos + 1 /\ rpos < vis)
      PROVE  IInv'
  <2>1. rpos' \in Nat /\ rpos' <= vis
    BY <1>0, <1>1
  <2> QED BY <1>0, <1>1, <2>1, ReturnInv DEF Fail
<1>2. CASE ReadFull(1) = "kError"
  <2>1. Fail("corrupt") /\ rpos' = rpos
    BY <1>2 DEF ReadLenByte
  <2>2. "corrupt" \in Errors
    BY DEF Errors
  <2> QED BY <2>1, <2>2, <1>1
<1>3. CASE ReadFull(1) = "kEOF" /\ nread > 0
  <2>1. Fail("unexpectedEOF") /\ rpos' = rpos
    BY <1>3 DEF ReadLenByte
  <2>2. "unexpectedEOF" \in Errors
    BY DEF Errors
  <2> QED BY <2>1, <2>2, <1>1
<1>4. CASE ReadFull(1) = "kEOF" /\ nread = 0
  <2>1. CleanEOF
    BY <1>4 DEF ReadLenByte
  <2>2. DeliveredEnd = rpos
    BY <1>0, <1>4, DeliveredEndType DEF IInv
  <2> QED BY <1>0, <2>1, <2>2, ReturnInv DEF CleanEOF
<1>5. CASE ReadFull(1) = "kFull"
  <2>1. rpos' = rpos + 1 /\ rpos < vis
    BY <1>0, <1>5 DEF ReadLenByte, ReadFull
  <2>2. PICK b \in LenByte :
          \/ /\ ~b.end
             /\ pc' = "len" /\ nread' = nread + 1
             /\ UNCHANGED <<need, err, last, max, delivered>>
          \/ Fail("corrupt")
          \/ /\ b.end
             /\ pc' = "body" /\ need' = b.n /\ nread' = 0
             /\ UNCHANGED <<err, last, max, delivered>>
    BY <1>5 DEF ReadLenByte
  <2>3. CASE Fail("corrupt")
    BY <2>1, <2>3, <1>1 DEF Errors
  <2>4. ASSUME ~Fail("corrupt")
        PROVE  IInv'
    <3>1. UNCHANGED <<err, last, max, delivered>>
      BY <2>2, <2>4
    <3>2. b.end \in BOOLEAN /\ b.n \in Nat
      BY LenByteType DEF IInv
    <3>3. pc' \in {"len", "body"} /\ nread' \in Nat /\ need' \in Nat /\ rpos' \in Nat /\ rpos' <= vis
      BY <1>0, <2>1, <2>2, <2>4, <3>2 DEF IInv, TypeOK
    <3>4. TypeOK'
      BY <1>0, <3>1, <3>3 DEF IInv, TypeOK, wvars
    <3>5. Contiguous' /\ Written'
      BY <1>0, <3>3, WriterKept
    <3>6. InOrder'
      BY <1>0, <3>1 DEF IInv, InOrder, Whole, BodyOf, wvars
    <3>7. Boundary' /\ InNextFrame'
      <4>1. DeliveredEnd' = DeliveredEnd /\ DeliveredEnd \in Nat
        BY <3>1, DeliveredEndType DEF IInv, DeliveredEnd
      <4>2. Boundary'
        BY <1>0, <2>1, <2>2, <2>4, <3>1, <4>1 DEF Boundary
      <4>3. InNextFrame'
        <5> DEFINE f == frames[Len(delivered) + 1]
        <5> SUFFICES ASSUME garbles = 0
                     PROVE  /\ Len(delivered) < Len(frames)
                            /\ pc' = "len" => nread' < VarintLen(f.len)
                            /\ pc' = "body" => /\ need' = f.len
                                               /\ rpos' = DeliveredEnd + VarintLen(f.len)
          BY <1>0, <3>1, <4>1 DEF InNextFrame, wvars
        <5>1. /\ Len(delivered) < Len(frames) /\ f \in Frame
              /\ b.end => b.n = f.len /\ nread + 1 = VarintLen(f.len)
              /\ ~b.end => nread + 1 < VarintLen(f.len)
          BY <1>0, <2>1, LengthRead
        <5>2. VarintLen(f.len) \in Nat
          BY <5>1, FrameSizes
        <5> QED BY <1>0, <2>1, <2>2, <2>4, <4>1, <5>1, <5>2
      <4> QED BY <4>2, <4>3
    <3> QED BY <3>4, <3>5, <3>6, <3>7 DEF IInv
  <2> QED BY <2>3, <2>4
<1> QED BY <1>0, <1>2, <1>3, <1>4, <1>5 DEF ReadFull

\* Reading a body keeps the invariant: the body is the next frame's, and a
\* frame whose last byte the decoder saw was written whole.
LEMMA ReadBodyInv ==
  ASSUME IInv, ReadBody
  PROVE  IInv'
<1>0. /\ pc = "body" /\ err = "ok"
      /\ UNCHANGED <<wvars, vis, rbad, garbles>>
      /\ rpos \in Nat /\ vis \in Nat /\ need \in Nat /\ rpos <= vis
  BY DEF ReadBody, IInv, TypeOK, Written, Boundary
<1>1. ASSUME NEW e \in Errors, Fail(e), rpos' = rpos \/ rpos' = vis
      PROVE  IInv'
  <2>1. rpos' \in Nat /\ rpos' <= vis
    BY <1>0, <1>1
  <2> QED BY <1>0, <1>1, <2>1, ReturnInv DEF Fail
<1>2. CASE ReadFull(need) = "kEOF"
  <2>1. Fail("unexpectedEOF") /\ rpos' = vis
    BY <1>2 DEF ReadBody
  <2>2. "unexpectedEOF" \in Errors
    BY DEF Errors
  <2> QED BY <2>1, <2>2, <1>1
<1>3. CASE ReadFull(need) = "kError"
  <2>1. Fail("read") /\ rpos' = rpos
    BY <1>3 DEF ReadBody
  <2>2. "read" \in Errors
    BY DEF Errors
  <2> QED BY <2>1, <2>2, <1>1
<1>4. CASE ReadFull(need) = "kFull"
  <2> DEFINE d == [from |-> rpos, len |-> need]
             m == Len(delivered) + 1
             Body == [from : Nat, len : Nat]
  <2>1. /\ rpos' = rpos + need
        /\ delivered' = Append(delivered, d)
        /\ UNCHANGED <<err, max>>
        /\ \E st \in {"ok", "bodyError"} : Return(st)
    BY <1>4 DEF ReadBody
  <2>2. rpos' \in Nat /\ rpos' <= vis
    BY <1>0, <1>4, <2>1 DEF ReadFull
  <2>3. d \in Body /\ delivered \in Seq(Body)
    BY <1>0 DEF IInv, TypeOK
  <2>4. /\ delivered' \in Seq(Body) /\ Len(delivered') = m /\ m \in Nat /\ m >= 1
        /\ delivered'[m] = d
        /\ DOMAIN delivered' = 1 .. m
        /\ \A k \in 1 .. Len(delivered) : delivered'[k] = delivered[k]
    <3> HIDE DEF d, Body
    <3> QED BY <2>1, <2>3
  <2>5. TypeOK'
    <3>1. pc' = "idle" /\ last' \in {"ok", "bodyError"} /\ nread' = 0 /\ need' = 0 /\ 0 \in Nat
      BY <2>1 DEF Return
    <3>2. /\ frames' \in Seq(Frame) /\ wlen' \in Nat /\ wfail' \in BOOLEAN
          /\ vis' \in Nat /\ rbad' \in BOOLEAN /\ garbles' \in Nat
      BY <1>0 DEF IInv, TypeOK, wvars
    <3>3. err' \in {"ok"} \cup Errors /\ max' \in Int
      BY <2>1 DEF IInv, TypeOK
    <3>4. delivered' \in Seq([from : Nat, len : Nat])
      BY <2>4
    <3> QED BY <2>2, <3>1, <3>2, <3>3, <3>4, Zenon DEF TypeOK
  <2>6. Contiguous' /\ Written' /\ frames' = frames /\ Whole' = Whole
    BY <1>0, <2>2, WriterKept
  <2>7. Boundary'
    <3>1. delivered' # <<>>
      BY <2>4
    <3>2. DeliveredEnd' = rpos + need
      BY <2>4, <3>1 DEF DeliveredEnd
    <3>3. pc' = "idle" /\ nread' = 0
      BY <2>1 DEF Return
    <3> QED BY <1>0, <2>1, <3>2, <3>3 DEF Boundary
  <2>8. InNextFrame'
    BY <2>1 DEF InNextFrame, Return
  <2>9. InOrder'
    <3> DEFINE f == frames[m]
    <3> SUFFICES ASSUME garbles = 0, NEW k \in 1 .. m
                 PROVE  k <= Whole /\ delivered'[k] = BodyOf(frames[k])
      BY <1>0, <2>4, <2>6 DEF InOrder, BodyOf, wvars
    <3>1. CASE k # m
      <4>1. k \in 1 .. Len(delivered) /\ k \in DOMAIN delivered
        <5>1. m = Len(delivered) + 1 /\ Len(delivered) \in Nat /\ DOMAIN delivered = 1 .. Len(delivered)
          BY <2>3
        <5> HIDE DEF m, d, f, Body
        <5> QED BY <3>1, <5>1
      <4> QED BY <2>4, <4>1 DEF IInv, InOrder
    <3>2. CASE k = m
      <4>1. /\ Len(delivered) < Len(frames)
            /\ need = f.len /\ rpos = DeliveredEnd + VarintLen(f.len)
        BY <1>0 DEF IInv, InNextFrame
      <4>2. f \in Frame /\ f.start = DeliveredEnd
        BY <4>1, NextFrame DEF IInv
      <4>3. VarintLen(f.len) \in Nat /\ f.start \in Nat /\ f.len \in Nat
            /\ EndOf(f) = f.start + VarintLen(f.len) + f.len
        BY <4>2, FrameSizes
      <4>4. d = BodyOf(f)
        BY <4>1, <4>2 DEF BodyOf
      <4>5. EndOf(f) <= vis
        BY <2>1, <2>2, <4>1, <4>2, <4>3
      <4>6. m <= Whole
        <5> SUFFICES ASSUME wfail PROVE m # Len(frames)
          BY <2>4, <4>1 DEF Whole, IInv, TypeOK
        <5>1. vis < EndOf(frames[Len(frames)]) \/ ~ EndOf(frames[Len(frames)]) \in Nat
          BY <1>0 DEF IInv, Written, TypeOK
        <5> QED BY <1>0, <4>3, <4>5, <5>1
      <4> QED BY <2>4, <3>2, <4>4, <4>6
    <3> QED BY <3>1, <3>2
  <2> QED BY <2>5, <2>6, <2>7, <2>8, <2>9 DEF IInv
<1> QED BY <1>2, <1>3, <1>4 DEF ReadFull
-----------------------------------------------------------------------------
\* Every step of the encoder, the stream and the decoder keeps the invariant.
LEMMA NextInv == IInv /\ [Next]_vars => IInv'
<1> SUFFICES ASSUME IInv, [Next]_vars PROVE IInv'
  OBVIOUS
<1>1. CASE Write
  BY <1>1, WriteInv
<1>2. CASE Transmit \/ SourceFails \/ Garble \/ Resize
  BY <1>2, StreamInv
<1>3. CASE Decode
  BY <1>3, DecodeAfterErrorInv, ReadLenByteInv, ReadBodyInv DEF Decode
<1>4. CASE UNCHANGED vars
  <2>1. /\ frames' = frames /\ wlen' = wlen /\ wfail' = wfail /\ vis' = vis /\ rbad' = rbad
        /\ garbles' = garbles /\ rpos' = rpos /\ pc' = pc /\ nread' = nread /\ need' = need
        /\ err' = err /\ last' = last /\ max' = max /\ delivered' = delivered
    BY <1>4 DEF vars, wvars, dvars
  <2>2. TypeOK' /\ Contiguous' /\ Written'
    BY <2>1 DEF IInv, TypeOK, Contiguous, Written, WholeEnd, Whole, EndOf, Size
  <2>3. Boundary' /\ InOrder' /\ InNextFrame'
    BY <2>1 DEF IInv, Boundary, DeliveredEnd, InOrder, InNextFrame, Whole, BodyOf
  <2> QED BY <2>2, <2>3 DEF IInv
<1> QED BY <1>1, <1>2, <1>3, <1>4 DEF Next

\* The inductive invariant holds in every reachable state.
LEMMA Invariance == Spec => []IInv
BY InitInv, NextInv, PTL DEF Spec

\* The variables keep their types, whatever the constants.
THEOREM TypeCorrect == Spec => []TypeOK
<1>1. IInv => TypeOK
  BY DEF IInv
<1> QED BY Invariance, <1>1, PTL

\* Decode hands Unmarshal the frames Encode wrote whole, in order, each once
\* and at its own bytes, for every sequence of body lengths and limits and
\* every way the bytes arrive.
THEOREM DeliveredInOrder == Spec => []InOrder
<1>1. IInv => InOrder
  BY DEF IInv
<1> QED BY Invariance, <1>1, PTL

\* Between calls a decoder that has not failed stands at the end of the last
\* body it took, garbled stream or not: a clean end of stream costs no byte.
THEOREM StandsAtBoundary == Spec => []AtFrameBoundary
<1>1. IInv => AtFrameBoundary
  <2> SUFFICES ASSUME IInv, err = "ok", pc = "idle" PROVE rpos = DeliveredEnd
    BY DEF AtFrameBoundary
  <2>1. DeliveredEnd \in Nat
    BY DeliveredEndType DEF IInv
  <2> QED BY <2>1 DEF IInv, Boundary
<1> QED BY Invariance, <1>1, PTL

\* A framing error is final: no later call reads, delivers or reports
\* anything else.
THEOREM ErrorsStick == Spec => StickyError
<1>1. IInv /\ [Next]_vars =>
        [err # "ok" => /\ err' = err /\ rpos' = rpos /\ delivered' = delivered
                       /\ last' \in {last, err}]_vars
  <2> SUFFICES ASSUME IInv, Next, err # "ok"
               PROVE  /\ err' = err /\ rpos' = rpos /\ delivered' = delivered
                      /\ last' \in {last, err}
    BY DEF vars
  <2>1. pc = "idle"
    BY DEF IInv, Boundary
  <2>2. CASE Write \/ Transmit \/ SourceFails \/ Garble \/ Resize
    BY <2>2, Zenon DEF Write, Encode, EncodeFails, Transmit, SourceFails, Garble, Resize,
                SetMaxFrameSize, dvars
  <2>3. CASE Decode
    BY <2>1, <2>3 DEF Decode, DecodeAfterError, ReadLenByte, ReadBody, Return
  <2> QED BY <2>2, <2>3 DEF Next
<1> QED BY Invariance, <1>1, PTL DEF Spec, StickyError
-----------------------------------------------------------------------------
(* The stream implements the channel.                                      *)

\* A function on 1 .. n is a sequence, and one value more is an Append.
LEMMA AppendFunction ==
  ASSUME NEW n \in Nat, NEW s \in [1 .. n -> Nat], NEW t \in [1 .. n + 1 -> Nat],
         \A k \in 1 .. n : t[k] = s[k]
  PROVE  s \in Seq(Nat) /\ Len(s) = n /\ t = Append(s, t[n + 1])
<1>1. s \in Seq(Nat) /\ t \in Seq(Nat) /\ Len(s) = n /\ Len(t) = n + 1
  BY SeqDef, LenProperties
<1>2. t[n + 1] \in Nat
  OBVIOUS
<1> DEFINE u == Append(s, t[n + 1])
<1>3. /\ u \in Seq(Nat) /\ Len(u) = n + 1
      /\ \A k \in 1 .. n : u[k] = s[k]
      /\ u[n + 1] = t[n + 1]
  BY <1>1, <1>2, AppendProperties
<1>4. \A k \in 1 .. n + 1 : u[k] = t[k]
  <2> SUFFICES ASSUME NEW k \in 1 .. n + 1 PROVE u[k] = t[k]
    OBVIOUS
  <2> k \in 1 .. n \/ k = n + 1
    OBVIOUS
  <2> QED BY <1>3
<1> HIDE DEF u
<1>5. u = t
  BY <1>1, <1>3, <1>4, SeqEqual
<1> QED BY <1>1, <1>5 DEF u

\* The two sequences of the mapping are sequences of lengths.
LEMMA MappedTypes ==
  ASSUME IInv
  PROVE  /\ Whole \in Nat /\ Whole <= Len(frames)
         /\ Sent \in [1 .. Whole -> Nat]
         /\ Len(delivered) \in Nat /\ DOMAIN delivered = 1 .. Len(delivered)
         /\ Got \in [1 .. Len(delivered) -> Nat]
<1> DEFINE Body == [from : Nat, len : Nat]
<1>1. frames \in Seq(Frame) /\ delivered \in Seq(Body) /\ wfail \in BOOLEAN
  BY DEF IInv, TypeOK
<1>2. Len(frames) \in Nat /\ DOMAIN frames = 1 .. Len(frames)
  BY <1>1
<1>3. Whole \in Nat /\ Whole <= Len(frames)
  <2>1. wfail => Len(frames) # 0
    BY <1>1 DEF IInv, Written
  <2> QED BY <1>2, <2>1 DEF Whole
<1>4. \A k \in 1 .. Whole : frames[k].len \in Nat
  BY <1>1, <1>2, <1>3, FrameSizes
<1>5. Len(delivered) \in Nat /\ DOMAIN delivered = 1 .. Len(delivered)
      /\ \A k \in DOMAIN delivered : delivered[k] \in Body
  <2> HIDE DEF Body
  <2> QED BY <1>1
<1>6. \A k \in DOMAIN delivered : delivered[k].len \in Nat
  BY <1>5
<1> QED
  BY <1>3, <1>4, <1>5, <1>6 DEF Sent, Got

\* Encode adds one body to what was sent; an Encode that fails adds none.
LEMMA WriteStep ==
  ASSUME IInv, IInv', Write
  PROVE  Channel!Next \/ UNCHANGED Channel!vars
<1>0. Len(frames) \in Nat /\ ~wfail /\ Whole = Len(frames) /\ frames \in Seq(Frame)
      /\ UNCHANGED <<dvars, garbles>>
  BY DEF IInv, TypeOK, Whole, Write, Encode, EncodeFails
<1>1. Got' = Got /\ err' = err
  BY <1>0 DEF Got, dvars
<1> PICK n \in Lens : Encode(n) \/ \E k \in 0 .. VarintLen(n) + n : EncodeFails(n, k)
  BY DEF Write
<1> DEFINE f == [start |-> wlen, len |-> n]
<1>2. f \in Frame /\ frames' = Append(frames, f)
  BY Zenon DEF IInv, TypeOK, Frame, Encode, EncodeFails
<1>3. /\ Len(frames') = Len(frames) + 1 /\ frames'[Len(frames) + 1] = f
      /\ \A k \in 1 .. Len(frames) : frames'[k] = frames[k]
  <2> HIDE DEF f
  <2> QED BY <1>0, <1>2
<1>4. CASE Encode(n)
  <2>1. ~wfail' /\ Whole' = Len(frames) + 1
    BY <1>0, <1>3, <1>4 DEF Whole, Encode
  <2>2. Sent' \in [1 .. Len(frames) + 1 -> Nat] /\ Sent \in [1 .. Len(frames) -> Nat]
    <3>1. Sent \in [1 .. Len(frames) -> Nat]
      BY <1>0, MappedTypes
    <3>2. frames' \in Seq(Frame) /\ \A k \in 1 .. Len(frames) + 1 : frames'[k] \in Frame
      <4>1. frames \in Seq(Frame) /\ f \in Frame /\ frames' = Append(frames, f)
        BY <1>0, <1>2
      <4> HIDE DEF f
      <4> QED BY <4>1
    <3>3. \A k \in 1 .. Len(frames) + 1 : frames'[k].len \in Nat
      BY <3>2, FrameSizes
    <3> QED BY <2>1, <3>1, <3>3 DEF Sent
  <2>3. \A k \in 1 .. Len(frames) : Sent'[k] = Sent[k]
    BY <1>0, <1>3, <2>1 DEF Sent
  <2>4. Sent'[Len(frames) + 1] = n
    BY <1>0, <1>3, <2>1 DEF Sent
  <2>5. Sent' = Append(Sent, n)
    BY <1>0, <2>2, <2>3, <2>4, AppendFunction
  <2> QED BY <1>1, <2>5 DEF Channel!Next, Channel!Send
<1>5. CASE \E k \in 0 .. VarintLen(n) + n : EncodeFails(n, k)
  <2>1. wfail' /\ Whole' = Len(frames)
    BY <1>0, <1>3, <1>5 DEF Whole, EncodeFails
  <2>2. Sent' = Sent
    BY <1>0, <1>3, <2>1 DEF Sent
  <2> QED BY <1>1, <2>2 DEF Channel!vars
<1> QED BY <1>4, <1>5

\* A body handed to Unmarshal is the next one the channel holds.
LEMMA DeliverStep ==
  ASSUME IInv, IInv', garbles = 0, ReadBody, err' = "ok"
  PROVE  Channel!Deliver
<1> DEFINE d == [from |-> rpos, len |-> need]
           m == Len(delivered) + 1
           Body == [from : Nat, len : Nat]
<1>1. /\ err = "ok" /\ ReadFull(need) = "kFull" /\ UNCHANGED <<wvars, garbles>>
      /\ delivered' = Append(delivered, d) /\ need \in Nat /\ rpos \in Nat
  BY DEF ReadBody, Fail, ReadFull, IInv, Boundary, TypeOK
<1>2. /\ Whole \in Nat /\ Len(delivered) \in Nat /\ Sent \in [1 .. Whole -> Nat]
      /\ DOMAIN delivered = 1 .. Len(delivered) /\ Got \in [1 .. Len(delivered) -> Nat]
  BY MappedTypes
<1>3. d \in Body /\ delivered \in Seq(Body)
  BY <1>1 DEF IInv, TypeOK
<1>4. /\ Len(delivered') = m /\ DOMAIN delivered' = 1 .. m /\ delivered'[m] = d
      /\ \A k \in 1 .. Len(delivered) : delivered'[k] = delivered[k]
  <2> HIDE DEF d, Body
  <2> QED BY <1>1, <1>2, <1>3
<1>5. Sent' = Sent /\ Whole' = Whole
  BY <1>1 DEF Sent, Whole, wvars
<1>6. m <= Whole /\ delivered'[m] = BodyOf(frames[m])
  <2>1. m \in DOMAIN delivered' /\ garbles' = 0
    BY <1>1, <1>2, <1>4
  <2>2. m <= Whole' /\ delivered'[m] = BodyOf(frames'[m])
    BY <2>1 DEF IInv, InOrder, BodyOf
  <2> QED BY <1>1, <1>5, <2>2 DEF wvars
<1>7. Got' = Append(Got, need) /\ Len(Got) = Len(delivered)
  <2>1. Got' = [k \in 1 .. m |-> delivered'[k].len]
    BY <1>4 DEF Got
  <2>2. Got'[m] = need
    BY <1>2, <1>4, <2>1
  <2>3. \A k \in 1 .. Len(delivered) : Got'[k] = Got[k] /\ Got'[k] \in Nat
    BY <1>2, <1>4, <2>1 DEF Got
  <2>4. \A k \in 1 .. m : Got'[k] \in Nat
    BY <1>1, <1>2, <2>2, <2>3
  <2>5. Got' \in [1 .. m -> Nat]
    BY <2>1, <2>4
  <2> QED BY <1>2, <2>2, <2>3, <2>5, AppendFunction
<1>8. Len(Sent) = Whole /\ Sent[m] = need
  <2>1. Len(Sent) = Whole
    BY <1>2, SeqDef, LenProperties
  <2>2. Sent[m] = frames[m].len
    BY <1>2, <1>6 DEF Sent
  <2>3. frames[m].len = need
    BY <1>4, <1>6 DEF BodyOf
  <2> QED BY <2>1, <2>2, <2>3
<1> QED
  BY <1>1, <1>2, <1>5, <1>6, <1>7, <1>8 DEF Channel!Deliver

\* Every step of a stream nobody garbles is a step of the channel or leaves
\* it as it is.
LEMMA ChannelStep ==
  ASSUME IInv, IInv', garbles = 0, [Next]_vars
  PROVE  [Channel!Next]_(Channel!vars)
<1>1. CASE Write
  BY <1>1, WriteStep
<1>2. CASE Transmit \/ SourceFails \/ Garble \/ Resize \/ UNCHANGED vars
  <2>1. frames' = frames /\ wfail' = wfail /\ delivered' = delivered /\ err' = err
    BY <1>2 DEF Transmit, SourceFails, Garble, Resize, SetMaxFrameSize, vars, wvars, dvars
  <2> QED BY <2>1 DEF Channel!vars, Sent, Got, Whole
<1>3. CASE Decode
  <2>1. UNCHANGED wvars
    BY <1>3 DEF Decode, DecodeAfterError, ReadLenByte, ReadBody
  <2>2. Sent' = Sent
    BY <2>1 DEF Sent, Whole, wvars
  <2>3. CASE ReadBody /\ err' = "ok"
    BY <2>3, DeliverStep DEF Channel!Next
  <2>4. CASE ~ (ReadBody /\ err' = "ok")
    <3>1. delivered' = delivered /\ (err # "ok" => err' = err)
      <4>1. CASE DecodeAfterError
        BY <4>1 DEF DecodeAfterError
      <4>2. CASE ReadLenByte
        BY <4>2 DEF ReadLenByte, Fail, CleanEOF
      <4>3. CASE ReadBody
        <5>1. err = "ok"
          BY <4>3 DEF IInv, Boundary, ReadBody
        <5> QED BY <2>4, <4>3, <5>1 DEF ReadBody, Fail
      <4> QED BY <1>3, <4>1, <4>2, <4>3 DEF Decode
    <3>2. Got' = Got
      BY <3>1 DEF Got
    <3> QED BY <2>2, <3>1, <3>2 DEF Channel!Next, Channel!Break, Channel!vars
  <2> QED BY <2>3, <2>4
<1> QED BY <1>1, <1>2, <1>3 DEF Next

\* The encoder, the stream and the decoder together implement the channel of
\* FrameChannel until the stream is garbled: partial writes, partial reads,
\* ends of stream met and passed, limits and failures are all invisible there.
THEOREM StreamImplementsChannel == Spec => ChannelSpec
<1>1. Init => Channel!Init
  <2> SUFFICES ASSUME Init PROVE Channel!Init
    OBVIOUS
  <2>1. Whole = 0 /\ delivered = <<>> /\ err = "ok" /\ Len(delivered) = 0
    BY DEF Init, Whole
  <2>2. Sent = <<>> /\ Got = <<>>
    BY <2>1 DEF Sent, Got
  <2> QED BY <2>1, <2>2 DEF Channel!Init
<1>2. IInv /\ IInv' /\ [Next]_vars => [garbles' = 0 => [Channel!Next]_(Channel!vars)]_vars
  <2> SUFFICES ASSUME IInv, IInv', Next, garbles' = 0
               PROVE  [Channel!Next]_(Channel!vars)
    OBVIOUS
  <2>1. garbles = 0
    <3>1. ~Garble
      BY DEF IInv, TypeOK, Garble
    <3>2. garbles' = garbles
      BY <3>1, Zenon DEF Next, Write, Encode, EncodeFails, Transmit, SourceFails, Decode,
                  DecodeAfterError, ReadLenByte, ReadBody, Resize, SetMaxFrameSize
    <3> QED BY <3>2
  <2> QED BY <2>1, ChannelStep
<1> QED BY Invariance, <1>1, <1>2, PTL DEF Spec, ChannelSpec
-----------------------------------------------------------------------------
(* Why a stream ends.                                                      *)

\* A decoder at the end of what it can see, between two frames, has taken
\* every frame that lies there whole.
LEMMA DrainedAtEnd ==
  ASSUME IInv, garbles = 0, rpos = DeliveredEnd, vis = rpos,
         NEW k \in DOMAIN frames, EndOf(frames[k]) <= vis
  PROVE  k \in DOMAIN delivered
<1> DEFINE m == Len(delivered) + 1
<1>1. /\ Len(delivered) \in Nat /\ DOMAIN delivered = 1 .. Len(delivered)
      /\ Len(frames) \in Nat /\ DOMAIN frames = 1 .. Len(frames)
  BY DEF IInv, TypeOK
<1> SUFFICES ASSUME k \notin DOMAIN delivered PROVE FALSE
  OBVIOUS
<1>2. m <= k /\ Len(delivered) < Len(frames) /\ m \in DOMAIN frames /\ k \in Nat /\ m \in Nat
  BY <1>1
<1>3. frames[m] \in Frame /\ frames[m].start = DeliveredEnd /\ frames[k] \in Frame /\ vis \in Nat
  BY <1>2, NextFrame DEF IInv, TypeOK
<1>4. m < k => EndOf(frames[m]) <= frames[k].start
  BY <1>2 DEF IInv, Contiguous
<1> QED BY <1>2, <1>3, <1>4, FrameSizes

\* A length cut off, refused or never read has its cause in the stream.
LEMMA LengthFailsForCause ==
  ASSUME IInv, garbles = 0, ReadLenByte, err' # "ok"
  PROVE  \/ rbad
         \/ /\ Len(delivered) < Len(frames)
            /\ LET f == frames[Len(delivered) + 1] IN
               \/ err' = "unexpectedEOF" /\ vis < EndOf(f)
               \/ err' = "corrupt" /\ max >= 0 /\ f.len > max
<1> DEFINE f == frames[Len(delivered) + 1]
<1>0. /\ err = "ok" /\ pc \in {"idle", "len"} /\ rpos \in Nat /\ vis \in Nat /\ nread \in Nat
      /\ rpos = DeliveredEnd + nread /\ rbad \in BOOLEAN /\ (pc = "idle" => nread = 0)
  BY DEF ReadLenByte, IInv, TypeOK, Boundary
<1>1. CASE ReadFull(1) = "kError"
  BY <1>0, <1>1 DEF ReadFull
<1>2. CASE ReadFull(1) = "kEOF" /\ nread > 0
  <2>1. err' = "unexpectedEOF"
    BY <1>2 DEF ReadLenByte, Fail
  <2>2. pc = "len" /\ Len(delivered) < Len(frames) /\ nread < VarintLen(f.len)
    BY <1>0, <1>2 DEF IInv, InNextFrame
  <2>3. f \in Frame /\ f.start = DeliveredEnd
    BY <2>2, NextFrame DEF IInv
  <2>4. vis <= rpos \/ rbad
    BY <1>0, <1>2 DEF ReadFull
  <2> QED BY <1>0, <2>1, <2>2, <2>3, <2>4, FrameSizes
<1>3. CASE ReadFull(1) = "kEOF" /\ nread = 0
  BY <1>0, <1>3 DEF ReadLenByte, CleanEOF
<1>4. CASE ReadFull(1) = "kFull"
  <2>1. rpos < vis
    BY <1>0, <1>4 DEF ReadFull
  <2>2. PICK b \in LenByte :
          \/ err' = err
          \/ FramesAt(rpos - nread) = {}
          \/ b.end /\ TooLarge(b.n) /\ Fail("corrupt")
    BY <1>4 DEF ReadLenByte
  <2>3. /\ Len(delivered) < Len(frames) /\ FramesAt(rpos - nread) # {}
        /\ b.end => b.n = f.len
    BY <1>0, <2>1, LengthRead
  <2> QED BY <1>0, <2>2, <2>3 DEF TooLarge, Fail
<1> QED BY <1>0, <1>1, <1>2, <1>3, <1>4 DEF ReadFull

\* A body that cannot be read is cut off by the end of the stream, or the
\* stream failed.
LEMMA BodyFailsForCause ==
  ASSUME IInv, garbles = 0, ReadBody, err' # "ok"
  PROVE  \/ rbad
         \/ /\ Len(delivered) < Len(frames)
            /\ err' = "unexpectedEOF" /\ vis < EndOf(frames[Len(delivered) + 1])
<1> DEFINE f == frames[Len(delivered) + 1]
<1>0. /\ pc = "body" /\ err = "ok" /\ rpos \in Nat /\ vis \in Nat /\ need \in Nat
      /\ rbad \in BOOLEAN
  BY DEF ReadBody, IInv, TypeOK, Boundary
<1>1. CASE ReadFull(need) = "kFull"
  BY <1>0, <1>1 DEF ReadBody
<1>2. CASE ReadFull(need) = "kError"
  BY <1>0, <1>2 DEF ReadFull
<1>3. CASE ReadFull(need) = "kEOF"
  <2>1. err' = "unexpectedEOF" /\ (rbad \/ vis < rpos + need)
    BY <1>0, <1>3 DEF ReadBody, ReadFull, Fail
  <2>2. Len(delivered) < Len(frames) /\ need = f.len /\ rpos = DeliveredEnd + VarintLen(f.len)
    BY <1>0 DEF IInv, InNextFrame
  <2>3. f \in Frame /\ f.start = DeliveredEnd
    BY <2>2, NextFrame DEF IInv
  <2> QED BY <1>0, <2>1, <2>2, <2>3, FrameSizes
<1> QED BY <1>1, <1>2, <1>3 DEF ReadFull

\* A stream nobody garbles ends only for cause: Decode says EOF when every
\* frame that is there whole was delivered, and fails when the next frame is
\* cut off or over the limit or the stream failed, for every sequence of body
\* lengths and limits.
THEOREM StreamEndsForCause == Spec => EndsForCause
<1> DEFINE Cause ==
      garbles = 0 =>
       /\ ReadLenByte /\ pc' = "idle" /\ last' = "eof" =>
            \A k \in 1 .. Whole : EndOf(frames[k]) <= vis => k \in DOMAIN delivered
       /\ err = "ok" /\ err' # "ok" =>
            \/ rbad
            \/ /\ Len(delivered) < Len(frames)
               /\ LET f == frames[Len(delivered) + 1] IN
                  \/ err' = "unexpectedEOF" /\ vis < EndOf(f)
                  \/ err' = "corrupt" /\ max >= 0 /\ f.len > max
<1>1. IInv /\ [Next]_vars => [Cause]_vars
  <2> SUFFICES ASSUME IInv, Next, garbles = 0 PROVE Cause
    OBVIOUS
  <2>1. ASSUME ReadLenByte, pc' = "idle", last' = "eof",
               NEW k \in 1 .. Whole, EndOf(frames[k]) <= vis
        PROVE  k \in DOMAIN delivered
    <3>1. ReadFull(1) = "kEOF" /\ nread = 0
      <4>1. ~Fail("unexpectedEOF") /\ ~Fail("corrupt")
        BY <2>1 DEF Fail, Return
      <4>2. ReadFull(1) \in {"kFull", "kError", "kEOF"} /\ nread \in Nat
        BY DEF ReadFull, IInv, TypeOK
      <4>3. ReadFull(1) # "kError"
        BY <2>1, <4>1 DEF ReadLenByte
      <4>4. ReadFull(1) # "kFull"
        BY <2>1, <4>1 DEF ReadLenByte
      <4>5. ~(nread > 0)
        BY <2>1, <4>1, <4>2, <4>3, <4>4 DEF ReadLenByte
      <4> QED BY <4>2, <4>3, <4>4, <4>5
    <3>2. /\ err = "ok" /\ pc \in {"idle", "len"} /\ rpos \in Nat /\ vis \in Nat
          /\ rpos = DeliveredEnd + nread /\ rpos <= vis /\ rbad \in BOOLEAN
      BY <2>1 DEF ReadLenByte, IInv, TypeOK, Boundary, Written
    <3>3. vis = rpos /\ rpos = DeliveredEnd
      BY <3>1, <3>2, DeliveredEndType DEF ReadFull, IInv
    <3>4. k \in DOMAIN frames
      BY <2>1, MappedTypes DEF IInv, TypeOK
    <3> QED BY <2>1, <3>3, <3>4, DrainedAtEnd
  <2>2. ASSUME err = "ok", err' # "ok"
        PROVE  \/ rbad
               \/ /\ Len(delivered) < Len(frames)
                  /\ LET f == frames[Len(delivered) + 1] IN
                     \/ err' = "unexpectedEOF" /\ vis < EndOf(f)
                     \/ err' = "corrupt" /\ max >= 0 /\ f.len > max
    <3>1. ~(Write \/ Transmit \/ SourceFails \/ Garble \/ Resize \/ DecodeAfterError)
      BY <2>2, Zenon DEF Write, Encode, EncodeFails, Transmit, SourceFails, Garble, Resize,
                  SetMaxFrameSize, DecodeAfterError, dvars
    <3>2. ReadLenByte \/ ReadBody
      BY <3>1 DEF Next, Decode
    <3> QED BY <2>2, <3>2, LengthFailsForCause, BodyFailsForCause
  <2> QED BY <2>1, <2>2
<1> QED BY Invariance, <1>1, PTL DEF Spec, EndsForCause
=============================================================================
