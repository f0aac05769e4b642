------------------------------ MODULE PbStream ------------------------------
(***************************************************************************)
(* The length-prefixed stream of the pb package: pb::Encoder writes a      *)
(* varint length and a body, pb::Decoder reads them back from a std::istream *)
(* that may end early, grow after it ended, or fail.                       *)
(*                                                                         *)
(* Bytes are modelled by their offset.  The stream is the concatenation of *)
(* the frames written, so what a byte says follows from the frame that     *)
(* starts at the offset the decoder takes for a frame's start.  Read from  *)
(* any other offset, or after the transport garbled the stream, the bytes  *)
(* say anything at all.                                                    *)
(***************************************************************************)
EXTENDS Integers, Sequences, FiniteSets

CONSTANTS Lens,            \* body lengths a message may marshal to
          Sizes,           \* the arguments of SetMaxFrameSize
          DefaultMax,      \* kDefaultMaxFrameSize
          Base,            \* 128: values of one varint byte's payload
          MaxVarintBytes,  \* kMaxVarintBytes, 10
          MaxFrames,       \* bound: frames written in a behaviour
          MaxGarbles       \* bound: times the transport garbles the stream

ASSUME LensAssumption == Lens \subseteq Nat
ASSUME SizesAssumption == Sizes \subseteq Int /\ DefaultMax \in Nat
ASSUME VarintAssumption == /\ Base \in Nat \ {0, 1}
                           /\ MaxVarintBytes \in Nat \ {0}

VARIABLES frames,    \* the frames Encode has begun: [start, len]
          wlen,      \* bytes handed to the ostream
          wfail,     \* the ostream has failed, in the last of the frames
          vis,       \* bytes the istream can see
          rbad,      \* the istream's badbit
          garbles,   \* times the transport changed unread bytes
          rpos,      \* bytes the decoder has consumed
          pc,        \* where Decode is: between calls, in ReadUvarint, before the body
          nread,     \* bytes of the length read by this call
          need,      \* the length read
          err,       \* Decoder::err_
          last,      \* the result of the last Decode
          max,       \* Decoder::max_
          delivered  \* bodies handed to Unmarshal: [from, len]

wvars == <<frames, wlen, wfail>>
dvars == <<rpos, pc, nread, need, err, last, max, delivered>>
vars  == <<wvars, vis, rbad, garbles, dvars>>

Frame  == [start : Nat, len : Lens]
Errors == {"unexpectedEOF", "corrupt", "read"}

\* The bytes AppendVarint writes for n: one, and one more for each power of
\* Base that n reaches.
VarintLen(n) == 1 + Cardinality({k \in 1 .. MaxVarintBytes - 1 : n >= Base ^ k})

Size(f)    == VarintLen(f.len) + f.len
EndOf(f)   == f.start + Size(f)
BodyOf(f)  == [from |-> f.start + VarintLen(f.len), len |-> f.len]

\* The frames written whole are the first Whole ones.
Whole == IF wfail THEN Len(frames) - 1 ELSE Len(frames)

\* The first byte after the last body handed to Unmarshal.
DeliveredEnd ==
  IF delivered = <<>> THEN 0
  ELSE LET d == delivered[Len(delivered)] IN d.from + d.len

Init ==
  /\ frames = <<>> /\ wlen = 0 /\ wfail = FALSE
  /\ vis = 0 /\ rbad = FALSE /\ garbles = 0
  /\ rpos = 0 /\ pc = "idle" /\ nread = 0 /\ need = 0
  /\ err = "ok" /\ last = "none" /\ max = DefaultMax /\ delivered = <<>>
-----------------------------------------------------------------------------
(* The writer.  What reaches the reader, and when, is Transmit's: writes   *)
(* need no finer steps.                                                    *)

\* Encode returns OK: the header and the body were both written.
Encode(n) ==
  /\ ~wfail
  /\ Len(frames) < MaxFrames
  /\ LET f == [start |-> wlen, len |-> n]
     IN  frames' = Append(frames, f) /\ wlen' = EndOf(f)
  /\ UNCHANGED <<wfail, vis, rbad, garbles, dvars>>

\* Encode returns "write failed": the header's or the body's write stopped
\* after k bytes, and leaves the ostream failed.  A failed ostream writes
\* nothing more.
EncodeFails(n, k) ==
  /\ ~wfail
  /\ LET f == [start |-> wlen, len |-> n]
     IN  /\ k < Size(f)
         /\ frames' = Append(frames, f)
         /\ wlen' = wlen + k
  /\ wfail' = TRUE
  /\ UNCHANGED <<vis, rbad, garbles, dvars>>
-----------------------------------------------------------------------------
(* The stream between them.                                                *)

Transmit == /\ vis < wlen
            /\ vis' \in vis + 1 .. wlen
            /\ UNCHANGED <<wvars, rbad, garbles, dvars>>

SourceFails == /\ ~rbad
               /\ rbad' = TRUE
               /\ UNCHANGED <<wvars, vis, garbles, dvars>>

Garble == /\ garbles < MaxGarbles
          /\ garbles' = garbles + 1
          /\ UNCHANGED <<wvars, vis, rbad, dvars>>
-----------------------------------------------------------------------------
(* The decoder.                                                            *)

\* Wrong: waits for a byte past the ones asked for.
ReadFullOneMore(n) == CASE n = 0 -> "kFull"
                        [] n > 0 /\ rbad -> "kError"
                        [] n > 0 /\ ~rbad /\ vis - rpos > n -> "kFull"
                        [] OTHER -> "kEOF"

\* ReadFull of n bytes: kFull when they are all there, kEOF when the stream
\* ends first, kError once it is bad.  n = 0 reads nothing and is full.
\* An end of stream met earlier is cleared first, so only what is visible
\* now counts.
ReadFull(n) == CASE n = 0 -> "kFull"
                 [] n > 0 /\ rbad -> "kError"
                 [] n > 0 /\ ~rbad /\ vis - rpos >= n -> "kFull"
                 [] OTHER -> "kEOF"

\* The frame that starts at offset p, if the bytes there can be relied on.
FramesAt(p) == IF garbles > 0 THEN {}
               ELSE {k \in DOMAIN frames : frames[k].start = p}

\* What the next byte of a length can say, nread bytes into one: more bytes
\* follow, or this one ends it and the value is n.
LenByte ==
  LET at == FramesAt(rpos - nread) IN
  IF at # {}
  THEN {IF nread + 1 < VarintLen(frames[k].len)
        THEN [end |-> FALSE, n |-> 0]
        ELSE [end |-> TRUE, n |-> frames[k].len] : k \in at}
  ELSE [end : {FALSE}, n : {0}] \cup [end : {TRUE}, n : Lens]

Return(st) == pc' = "idle" /\ last' = st /\ nread' = 0 /\ need' = 0

\* Wrong: the error is returned and not kept.
FailOnce(e) == err' = err /\ Return(e) /\ UNCHANGED <<max, delivered>>

Fail(e) == /\ err' = e
           /\ Return(e)
           /\ UNCHANGED <<max, delivered>>

\* The stream ends between frames; nothing is kept of it.
CleanEOF == Return("eof") /\ UNCHANGED <<rpos, err, max, delivered>>

\* Wrong: refuses a frame of exactly max_ bytes.
TooLargeAtLimit(n) == max >= 0 /\ n >= max

\* n > static_cast<uint64_t>(max_): a negative limit converts to one that no
\* length passes.
TooLarge(n) == max >= 0 /\ n > max

\* Decode on a decoder that has failed: the same error again.
DecodeAfterError ==
  /\ err # "ok"
  /\ Return(err)
  /\ UNCHANGED <<wvars, vis, rbad, garbles, rpos, err, max, delivered>>

\* One turn of ReadUvarint's loop; the first begins a call of Decode.
ReadLenByte ==
  /\ err = "ok"
  /\ pc \in {"idle", "len"}
  /\ CASE ReadFull(1) = "kError" ->
            Fail("corrupt") /\ rpos' = rpos
       [] ReadFull(1) = "kEOF" /\ nread > 0 ->
            Fail("unexpectedEOF") /\ rpos' = rpos
       [] ReadFull(1) = "kEOF" /\ nread = 0 ->
            CleanEOF
       [] OTHER ->
            /\ rpos' = rpos + 1
            /\ \E b \in LenByte :
                 \/ /\ ~b.end
                    /\ nread + 1 < MaxVarintBytes
                    /\ pc' = "len" /\ nread' = nread + 1
                    /\ UNCHANGED <<need, err, last, max, delivered>>
                 \/ /\ nread + 1 = MaxVarintBytes   \* the value passes 64 bits
                    /\ FramesAt(rpos - nread) = {}
                    /\ Fail("corrupt")
                 \/ /\ b.end /\ TooLarge(b.n)
                    /\ Fail("corrupt")
                 \/ /\ b.end /\ ~TooLarge(b.n)
                    /\ pc' = "body" /\ need' = b.n /\ nread' = 0
                    /\ UNCHANGED <<err, last, max, delivered>>
  /\ UNCHANGED <<wvars, vis, rbad, garbles>>

\* The rest of Decode: the body is read whole and handed to Unmarshal, whose
\* error, if the body or the options call for one, is the call's result and
\* is not kept.
ReadBody ==
  /\ pc = "body"
  /\ CASE ReadFull(need) = "kFull" ->
            /\ rpos' = rpos + need
            /\ delivered' = Append(delivered, [from |-> rpos, len |-> need])
            /\ \E st \in {"ok", "bodyError"} : Return(st)
            /\ UNCHANGED <<err, max>>
       [] ReadFull(need) = "kEOF" ->
            Fail("unexpectedEOF") /\ rpos' = vis
       [] OTHER -> Fail("read") /\ rpos' = rpos
  /\ UNCHANGED <<wvars, vis, rbad, garbles>>

SetMaxFrameSize(n) ==
  /\ pc = "idle"
  /\ max' = n
  /\ UNCHANGED <<wvars, vis, rbad, garbles, rpos, pc, nread, need, err, last, delivered>>
-----------------------------------------------------------------------------
Write  == \E n \in Lens :
            \/ Encode(n)
            \/ \E k \in 0 .. VarintLen(n) + n : EncodeFails(n, k)
Decode == DecodeAfterError \/ ReadLenByte \/ ReadBody
Resize == \E n \in Sizes : SetMaxFrameSize(n)
Next   == Write \/ Transmit \/ SourceFails \/ Garble \/ Decode \/ Resize

Spec == Init /\ [][Next]_vars
-----------------------------------------------------------------------------
TypeOK ==
  /\ frames \in Seq(Frame) /\ wlen \in Nat /\ wfail \in BOOLEAN
  /\ vis \in Nat /\ rbad \in BOOLEAN /\ garbles \in Nat
  /\ rpos \in Nat /\ pc \in {"idle", "len", "body"} /\ nread \in Nat /\ need \in Nat
  /\ err \in {"ok"} \cup Errors
  /\ last \in {"none", "ok", "bodyError", "eof"} \cup Errors
  /\ max \in Int
  /\ delivered \in Seq([from : Nat, len : Nat])

\* The k-th body Decode hands to Unmarshal is the k-th frame Encode wrote
\* whole, at its own bytes: no frame is skipped, read twice, cut or joined to
\* the next, however the stream's bytes arrive and however often Decode meets
\* its end and is called again.
InOrder ==
  garbles = 0 =>
    \A k \in DOMAIN delivered :
      k <= Whole /\ delivered[k] = BodyOf(frames[k])

\* Between calls a decoder that has not failed stands right after the last
\* body it took, whatever the bytes were.  That is why kEOF is not kept as an
\* error: no byte of the next frame is lost by asking again.
AtFrameBoundary == err = "ok" /\ pc = "idle" => rpos = DeliveredEnd

\* A framing error is sticky (pb.h, class Decoder): no later call reads
\* a byte, delivers a body or reports anything else.
StickyError ==
  [][err # "ok" => /\ err' = err /\ rpos' = rpos /\ delivered' = delivered
                   /\ last' \in {last, err}]_vars

\* Decode on a stream that is not garbled says EOF only when every frame the
\* stream holds whole has been delivered (stream.h, IsEOF: "finished, not
\* broken"), and fails only for cause: the stream ends inside the next frame,
\* it failed, or that frame is over the limit.
EndsForCause ==
  [][garbles = 0 =>
       /\ ReadLenByte /\ pc' = "idle" /\ last' = "eof" =>
            \A k \in 1 .. Whole : EndOf(frames[k]) <= vis => k \in DOMAIN delivered
       /\ err = "ok" /\ err' # "ok" =>
            \/ rbad
            \/ /\ Len(delivered) < Len(frames)
               /\ LET f == frames[Len(delivered) + 1] IN
                  \/ err' = "unexpectedEOF" /\ vis < EndOf(f)
                  \/ err' = "corrupt" /\ max >= 0 /\ f.len > max]_vars

\* A reader that keeps calling Decode on a stream that keeps arriving.
FairSpec == Spec /\ WF_vars(Transmit) /\ WF_vars(Decode)

\* Every frame written whole is delivered in the end, or a framing error
\* ended the stream, unless the stream is garbled.
AllDelivered ==
  \A k \in 1 .. MaxFrames :
    Whole >= k ~> (Len(delivered) >= k \/ err # "ok" \/ garbles > 0)

-----------------------------------------------------------------------------
(* The inductive invariant behind InOrder and AtFrameBoundary.             *)

\* The frames lie end to end.
Contiguous ==
  /\ \A k \in DOMAIN frames :
       frames[k].start = IF k = 1 THEN 0 ELSE EndOf(frames[k - 1])
  /\ \A k \in DOMAIN frames : \A j \in 1 .. k - 1 : EndOf(frames[j]) <= frames[k].start

WholeEnd == IF Whole = 0 THEN 0 ELSE EndOf(frames[Whole])

\* The writer stands at the end of the whole frames, or inside the torn one;
\* the reader is behind it.
Written ==
  /\ wfail => frames # <<>>
  /\ WholeEnd <= wlen
  /\ IF wfail THEN wlen < EndOf(frames[Len(frames)]) ELSE wlen = WholeEnd
  /\ vis <= wlen /\ rpos <= vis

\* Inside a call the decoder is nread bytes past the last body it took.
Boundary ==
  /\ pc # "len" => nread = 0
  /\ err # "ok" => pc = "idle"
  /\ err = "ok" /\ pc \in {"idle", "len"} => rpos = DeliveredEnd + nread

\* What a decoder in the middle of a call has read belongs to the next frame.
InNextFrame ==
  garbles = 0 /\ err = "ok" /\ pc # "idle" =>
    /\ Len(delivered) < Len(frames)
    /\ LET f == frames[Len(delivered) + 1] IN
       /\ pc = "len" => nread < VarintLen(f.len)
       /\ pc = "body" => need = f.len /\ rpos = DeliveredEnd + VarintLen(f.len)

IInv == TypeOK /\ Contiguous /\ Written /\ Boundary /\ InOrder /\ InNextFrame
-----------------------------------------------------------------------------
\* The channel this stream implements until something garbles it.
Sent    == [k \in 1 .. Whole |-> frames[k].len]
Got     == [k \in DOMAIN delivered |-> delivered[k].len]
Channel == INSTANCE FrameChannel WITH sent <- Sent, got <- Got, broken <- (err # "ok")

\* Until the stream is garbled, the encoder, the istream and the decoder
\* together take the steps of a FrameChannel, or none it can see: partial
\* writes and reads, ends of stream met and passed, limits and failures.
ChannelSpec == Channel!Init /\ [][garbles' = 0 => [Channel!Next]_(Channel!vars)]_vars
=============================================================================
