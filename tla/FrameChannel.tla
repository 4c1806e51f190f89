---------------------------- MODULE FrameChannel ----------------------------
(***************************************************************************)
(* What a session owes its client: a channel of whole frames.  What has    *)
(* come out is always a prefix of what was put in, so no frame is torn,    *)
(* merged, repeated, skipped or overtaken, however TCP cuts and delays the *)
(* bytes.  A channel may stop at any time (a connection can be closed), so *)
(* nothing is said about delivery.                                         *)
(*                                                                         *)
(* SendPath (server to client) implements it as long as batches fit in     *)
(* one transfer.                                                           *)
(***************************************************************************)
EXTENDS Naturals, Sequences

VARIABLES
    put,   \* frames the sender has put in
    got    \* frames the receiver has taken out

Init ==
    /\ put = <<>>
    /\ got = <<>>

\* The sender adds one frame or a batch of them.
Put ==
    /\ Len(put') > Len(put)
    /\ SubSeq(put', 1, Len(put)) = put
    /\ UNCHANGED got

Deliver ==
    /\ Len(got) < Len(put)
    /\ got' = Append(got, put[Len(got) + 1])
    /\ UNCHANGED put

Next == Put \/ Deliver

Spec == Init /\ [][Next]_<<put, got>>
==============================================================================
