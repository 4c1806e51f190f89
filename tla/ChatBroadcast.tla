---------------------------- MODULE ChatBroadcast ----------------------------
(***************************************************************************)
(* What the room promises its players, without queues, locks or threads.   *)
(*                                                                         *)
(* There is one log of chats, numbered in the order PushETCJob accepted    *)
(* them.  Every player is handed consecutive stretches of that log, the    *)
(* first of which starts no later than the first chat accepted after the   *)
(* player entered the room.  So any two players see their common chats in  *)
(* the same order, none twice and none missing in between.                 *)
(*                                                                         *)
(* Room.tla is shown to implement this specification.                      *)
(***************************************************************************)
EXTENDS Integers, Sequences

CONSTANT Players    \* Player objects, each created by one Session::EnterRoom

VARIABLES
    pushed,         \* chats accepted so far; chat n is the n-th one
    players,        \* players in the room
    joined,         \* joined[p]: value of pushed when p entered, or NotYet
    sent            \* sent[p]: chats handed to p's session, in order

vars == <<pushed, players, joined, sent>>

NotYet == -1

\* The stretch of the log from chat lo to chat hi.
Stretch(lo, hi) == [i \in 1..(hi - lo + 1) |-> lo + i - 1]

Init ==
    /\ pushed = 0
    /\ players = {}
    /\ joined = [p \in Players |-> NotYet]
    /\ sent = [p \in Players |-> <<>>]

Publish ==
    /\ pushed' = pushed + 1
    /\ UNCHANGED <<players, joined, sent>>

Join(p) ==
    /\ joined[p] = NotYet
    /\ joined' = [joined EXCEPT ![p] = pushed]
    /\ players' = players \cup {p}
    /\ UNCHANGED <<pushed, sent>>

Leave(p) ==
    /\ players' = players \ {p}
    /\ UNCHANGED <<pushed, joined, sent>>

\* The next stretch of the log, up to chat hi, reaches p.  A player that has
\* left may still be handed a stretch whose delivery had begun.
Deliver(p, lo, hi) ==
    /\ joined[p] # NotYet
    /\ IF sent[p] = <<>> THEN lo <= joined[p] + 1 ELSE lo = sent[p][Len(sent[p])] + 1
    /\ lo <= hi
    /\ sent' = [sent EXCEPT ![p] = @ \o Stretch(lo, hi)]
    /\ UNCHANGED <<pushed, players, joined>>

Next ==
    \/ Publish
    \/ \E p \in Players : Join(p) \/ Leave(p)
    \/ \E p \in Players : \E lo \in 1..pushed, hi \in 1..pushed : Deliver(p, lo, hi)

Spec == Init /\ [][Next]_vars
==============================================================================
