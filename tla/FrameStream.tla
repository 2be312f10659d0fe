---------------------------- MODULE FrameStream ----------------------------
(***************************************************************************)
(* What the frame codec promises (spec 4.3, 8.3): the frames the peer      *)
(* writes on one connection reach the reader whole, once each and in the   *)
(* order they were written.  A frame is a record of its token and body.    *)
(***************************************************************************)
EXTENDS Naturals, Sequences

CONSTANTS
    Frames,     \* the frames the peer may write
    MaxFrames   \* bound on the frames written

VARIABLES
    sent,       \* the frames written, in order
    got         \* the frames the reader has taken, in order

vars == <<sent, got>>

Init == sent = <<>> /\ got = <<>>

\* The peer writes a frame.
Write ==
    /\ Len(sent) < MaxFrames
    /\ \E f \in Frames : sent' = Append(sent, f)
    /\ UNCHANGED got

\* The reader takes the oldest frame it has not taken yet.
Take ==
    /\ Len(got) < Len(sent)
    /\ got' = Append(got, sent[Len(got) + 1])
    /\ UNCHANGED sent

Next == Write \/ Take

\* Every frame written is eventually taken.
Spec == Init /\ [][Next]_vars /\ WF_vars(Take)

=============================================================================
