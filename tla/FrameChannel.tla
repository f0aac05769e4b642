---------------------------- MODULE FrameChannel ----------------------------
(***************************************************************************)
(* What a framed stream promises its two ends (pb.h and sbe.h, the         *)
(* comments on Encoder and Decoder): the frames that were written whole    *)
(* reach the reader in the order they were written, each once and          *)
(* unchanged, until a framing error ends the stream for good.  Bytes,      *)
(* headers, partial writes and retries do not exist here.                  *)
(***************************************************************************)
EXTENDS Naturals, Sequences

CONSTANT Lens          \* the bodies a writer may send, told apart by length

VARIABLES sent,        \* the bodies of the frames written whole, in order
          got,         \* the bodies handed to Unmarshal, in order
          broken       \* the reader has met a framing error

vars == <<sent, got, broken>>

Init == sent = <<>> /\ got = <<>> /\ broken = FALSE

\* A writer completes a frame.
Send == \E n \in Lens : sent' = Append(sent, n) /\ UNCHANGED <<got, broken>>

\* The reader takes the next frame.
Deliver == /\ ~broken
           /\ Len(got) < Len(sent)
           /\ got' = Append(got, sent[Len(got) + 1])
           /\ UNCHANGED <<sent, broken>>

\* The reader meets a framing error; nothing is delivered after it.
Break == ~broken /\ broken' = TRUE /\ UNCHANGED <<sent, got>>

Next == Send \/ Deliver \/ Break

Spec == Init /\ [][Next]_vars
=============================================================================
