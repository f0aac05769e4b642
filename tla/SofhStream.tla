----------------------------- MODULE SofhStream -----------------------------
(***************************************************************************)
(* The framed stream of the sbe package: sbe::Encoder writes a Simple Open *)
(* Framing Header (a 32-bit total length and an encoding type) and a body, *)
(* sbe::Decoder reads them back from a std::istream that may end early,    *)
(* grow after it ended, or fail.  Bytes are modelled by their offset, as   *)
(* in PbStream: a header read at the start of a frame says what Encode     *)
(* wrote there, and one read anywhere else says anything.                  *)
(***************************************************************************)
EXTENDS Integers, Sequences

CONSTANTS Lens,        \* body lengths a message may marshal to
          Sizes,       \* the arguments of SetMaxFrameSize
          DefaultMax,  \* kDefaultMaxFrameSize
          HeaderLen,   \* kSofhHeaderLen, 6
          Modulus,     \* 2^32, the values of the header's length field
          MaxFrames,   \* bound: frames written in a behaviour
          MaxGarbles   \* bound: times the transport garbles the stream

ASSUME SofhLensAssumption == Lens \subseteq Nat
ASSUME SofhSizesAssumption == Sizes \subseteq Int /\ DefaultMax \in Nat
ASSUME SofhHeaderAssumption == HeaderLen \in Nat \ {0} /\ Modulus \in Nat \ {0}

VARIABLES frames,    \* the frames Encode has begun: [start, len]
          wlen,      \* bytes handed to the ostream
          wfail,     \* the ostream has failed, in the last of the frames
          vis,       \* bytes the istream can see
          rbad,      \* the istream's badbit
          garbles,   \* times the transport changed unread bytes
          rpos,      \* bytes the decoder has consumed
          pc,        \* where Decode is: between calls, or before the body
          need,      \* the body length the header states
          err,       \* Decoder::err_
          last,      \* the result of the last Decode
          max,       \* Decoder::max_
          delivered  \* bodies handed to Codec::Unmarshal: [from, len]

wvars == <<frames, wlen, wfail>>
dvars == <<rpos, pc, need, err, last, max, delivered>>
vars  == <<wvars, vis, rbad, garbles, dvars>>

Frame  == [start : Nat, len : Lens]
Errors == {"unexpectedEOF", "corrupt", "read"}

Size(f)   == HeaderLen + f.len
EndOf(f)  == f.start + Size(f)
BodyOf(f) == [from |-> f.start + HeaderLen, len |-> f.len]

\* The frames written whole are the first Whole ones.
Whole == IF wfail THEN Len(frames) - 1 ELSE Len(frames)

\* The first byte after the last body handed to Unmarshal.
DeliveredEnd ==
  IF delivered = <<>> THEN 0
  ELSE LET d == delivered[Len(delivered)] IN d.from + d.len

Init ==
  /\ frames = <<>> /\ wlen = 0 /\ wfail = FALSE
  /\ vis = 0 /\ rbad = FALSE /\ garbles = 0
  /\ rpos = 0 /\ pc = "idle" /\ need = 0
  /\ err = "ok" /\ last = "none" /\ max = DefaultMax /\ delivered = <<>>
-----------------------------------------------------------------------------
(* The writer.  A message Marshal refuses, and a stream that has failed,   *)
(* write nothing.                                                          *)

Encode(n) ==
  /\ ~wfail
  /\ Len(frames) < MaxFrames
  /\ LET f == [start |-> wlen, len |-> n]
     IN  frames' = Append(frames, f) /\ wlen' = EndOf(f)
  /\ UNCHANGED <<wfail, vis, rbad, garbles, dvars>>

\* The header's or the body's write stopped after k bytes.
EncodeFails(n, k) ==
  /\ ~wfail
  /\ LET f == [start |-> wlen, len |-> n]
     IN  /\ k < Size(f)
         /\ frames' = Append(frames, f)
         /\ wlen' = wlen + k
  /\ wfail' = TRUE
  /\ UNCHANGED <<vis, rbad, garbles, dvars>>

\* The length field Encode writes for a body of n bytes: the low 32 bits.
Total(n) == (HeaderLen + n) % Modulus
-----------------------------------------------------------------------------
(* The stream between them.                                                *)

Transmit == /\ vis < wlen
            /\ vis' \in vis + 1 .. wlen
            /\ UNCHANGED <<wvars, rbad, garbles, dvars>>

SourceFails == /\ ~rbad
               /\ rbad' = TRUE
               /\ UNCHANGED <<wvars, vis, garbles, dvars>>

Garble == /\ garbles < MaxGarbles
          /\ garbles' = garbles + 1
          /\ UNCHANGED <<wvars, vis, rbad, dvars>>
-----------------------------------------------------------------------------
(* The decoder.                                                            *)

\* ReadFull of n bytes, as in PbStream.
ReadFull(n) == CASE n = 0 -> "kFull"
                 [] n > 0 /\ rbad -> "kError"
                 [] n > 0 /\ ~rbad /\ vis - rpos >= n -> "kFull"
                 [] OTHER -> "kEOF"

\* The length fields and encoding types a header read at rpos can hold.
Headers ==
  LET at == {k \in DOMAIN frames : garbles = 0 /\ frames[k].start = rpos} IN
  IF at # {}
  THEN {[total |-> Total(frames[k].len), le |-> TRUE] : k \in at}
  ELSE [total : {Total(n) : n \in Lens} \cup {0}, le : BOOLEAN]

Return(st) == pc' = "idle" /\ last' = st /\ need' = 0

\* Wrong: the error is returned and not kept.
FailOnce(e) == err' = err /\ Return(e) /\ UNCHANGED <<max, delivered>>

Fail(e) == /\ err' = e
           /\ Return(e)
           /\ UNCHANGED <<max, delivered>>

\* No byte of a header is there: nothing is kept of it.
CleanEOF == Return("eof") /\ UNCHANGED <<rpos, err, max, delivered>>

\* Decode on a decoder that has failed: the same error again.
DecodeAfterError ==
  /\ err # "ok"
  /\ Return(err)
  /\ UNCHANGED <<wvars, vis, rbad, garbles, rpos, err, max, delivered>>

\* Wrong: any end of the stream in a header passes for a clean one.
AtCleanEndLoose == ReadFull(HeaderLen) = "kEOF"

\* got == 0 && eof() && !bad()
AtCleanEnd == ReadFull(HeaderLen) = "kEOF" /\ vis = rpos

\* Decode up to the body: the header is read and checked.
ReadHeader ==
  /\ err = "ok"
  /\ pc = "idle"
  /\ IF AtCleanEnd THEN CleanEOF
     ELSE IF ReadFull(HeaderLen) # "kFull"
     THEN /\ Fail("unexpectedEOF")
          /\ rpos' = IF rbad THEN rpos ELSE vis
     ELSE /\ rpos' = rpos + HeaderLen
          /\ \E h \in Headers :
               IF ~h.le \/ h.total < HeaderLen \/ h.total - HeaderLen > max
               THEN Fail("corrupt")
               ELSE /\ pc' = "body" /\ need' = h.total - HeaderLen
                    /\ UNCHANGED <<err, last, max, delivered>>
  /\ UNCHANGED <<wvars, vis, rbad, garbles>>

\* The rest of Decode: the body is read whole and handed to Unmarshal, whose
\* error is the call's result and is not kept.
ReadBody ==
  /\ pc = "body"
  /\ CASE ReadFull(need) = "kFull" ->
            /\ rpos' = rpos + need
            /\ delivered' = Append(delivered, [from |-> rpos, len |-> need])
            /\ \E st \in {"ok", "bodyError"} : Return(st)
            /\ UNCHANGED <<err, max>>
       [] ReadFull(need) = "kEOF" ->
            Fail("unexpectedEOF") /\ rpos' = vis
       [] OTHER -> Fail("read") /\ rpos' = rpos
  /\ UNCHANGED <<wvars, vis, rbad, garbles>>

SetMaxFrameSize(n) ==
  /\ pc = "idle"
  /\ max' = n
  /\ UNCHANGED <<wvars, vis, rbad, garbles, rpos, pc, need, err, last, delivered>>
-----------------------------------------------------------------------------
Write  == \E n \in Lens : \/ Encode(n)
                          \/ \E k \in 0 .. HeaderLen + n : EncodeFails(n, k)
Decode == DecodeAfterError \/ ReadHeader \/ ReadBody
Resize == \E n \in Sizes : SetMaxFrameSize(n)
Next   == Write \/ Transmit \/ SourceFails \/ Garble \/ Decode \/ Resize

Spec == Init /\ [][Next]_vars
-----------------------------------------------------------------------------
TypeOK ==
  /\ frames \in Seq(Frame) /\ wlen \in Nat /\ wfail \in BOOLEAN
  /\ vis \in Nat /\ rbad \in BOOLEAN /\ garbles \in Nat
  /\ rpos \in Nat /\ pc \in {"idle", "body"} /\ need \in Nat
  /\ err \in {"ok"} \cup Errors
  /\ last \in {"none", "ok", "bodyError", "eof"} \cup Errors
  /\ max \in Int
  /\ delivered \in Seq([from : Nat, len : Nat])

\* Decode says EOF only when every frame the stream holds whole has been
\* delivered, and none of the next one's header is there.
EOFMeansDrained ==
  [][ReadHeader /\ pc' = "idle" /\ last' = "eof" /\ garbles = 0 =>
       /\ \A k \in 1 .. Whole : EndOf(frames[k]) <= vis => k \in DOMAIN delivered
       /\ \A k \in DOMAIN frames : k \notin DOMAIN delivered => frames[k].start >= vis]_vars

-----------------------------------------------------------------------------
(* The inductive invariant behind ChannelSpec and EOFMeansDrained.         *)

\* The frames lie end to end.
Contiguous ==
  /\ \A k \in DOMAIN frames :
       frames[k].start = IF k = 1 THEN 0 ELSE EndOf(frames[k - 1])
  /\ \A k \in DOMAIN frames : \A j \in 1 .. k - 1 : EndOf(frames[j]) <= frames[k].start

WholeEnd == IF Whole = 0 THEN 0 ELSE EndOf(frames[Whole])

\* The writer stands at the end of the whole frames, or inside the torn one;
\* the reader is behind it.
Written ==
  /\ wfail => frames # <<>>
  /\ WholeEnd <= wlen
  /\ IF wfail THEN wlen < EndOf(frames[Len(frames)]) ELSE wlen = WholeEnd
  /\ vis <= wlen /\ rpos <= vis

\* Between calls a decoder that has not failed is right after the last body
\* it took.
Boundary ==
  /\ err # "ok" => pc = "idle"
  /\ err = "ok" /\ pc = "idle" => rpos = DeliveredEnd

\* The k-th body handed to Unmarshal is the k-th frame written whole, at its
\* own bytes.
InOrder ==
  garbles = 0 =>
    \A k \in DOMAIN delivered :
      k <= Whole /\ delivered[k] = BodyOf(frames[k])

\* A decoder about to read a body has read the header of the next frame.
InNextFrame ==
  garbles = 0 /\ err = "ok" /\ pc = "body" =>
    /\ Len(delivered) < Len(frames)
    /\ LET f == frames[Len(delivered) + 1]
       IN  need = f.len /\ rpos = DeliveredEnd + HeaderLen

IInv == TypeOK /\ Contiguous /\ Written /\ Boundary /\ InOrder /\ InNextFrame
-----------------------------------------------------------------------------
\* The channel this stream implements until something garbles it.
Sent    == [k \in 1 .. Whole |-> frames[k].len]
Got     == [k \in DOMAIN delivered |-> delivered[k].len]
Channel == INSTANCE FrameChannel WITH sent <- Sent, got <- Got, broken <- (err # "ok")

\* Until the stream is garbled, the encoder, the istream and the decoder
\* together take the steps of a FrameChannel, or none it can see: partial
\* writes and reads, ends of stream met and passed, limits and failures.
ChannelSpec == Channel!Init /\ [][garbles' = 0 => [Channel!Next]_(Channel!vars)]_vars
=============================================================================
