------------------------------- MODULE RoomInv -------------------------------
(***************************************************************************)
(* The inductive invariants behind the theorems of RoomProofs.             *)
(***************************************************************************)
EXTENDS Room

\* The owner of _lock, and only the owner, is inside a critical section.
LockInv ==
    \A t \in Threads : pc[t] \in WorkerHolds \cup ConsumerHolds <=> lock = t

\* A worker inside EnterObject or ExitObject has an object, and the object it
\* enters is new to the room.
CallInv ==
    \A w \in Workers :
        /\ pc[w] \in {"enter", "exit"} => obj[w] \in Players
        /\ pc[w] = "enter" => joined[obj[w]] = NotYet

TypeInv == TypeOK /\ LockInv /\ CallInv

\* What Flush's locals hold at each point of its loop.
FlushInv ==
    \A c \in Consumers :
        /\ pc[c] \notin {"execute", "broadcast"} => localQueue[c] = <<>>
        /\ pc[c] = "broadcast" => localQueue[c] # <<>>
        /\ pc[c] # "send" => playersSnapshot[c] = {} /\ lpendingMSG[c] = <<>>

\* Only players that have entered are in the room, in a snapshot, or served.
JoinedInv ==
    \A p \in Players : joined[p] = NotYet =>
        /\ p \notin players
        /\ sent[p] = <<>>
        /\ \A c \in Consumers : p \notin playersSnapshot[c]

RoomInvariant == TypeInv /\ FlushInv /\ JoinedInv

\* NothingLost is inductive relative to it.
LossInv == RoomInvariant /\ NothingLost

-----------------------------------------------------------------------------
(* Any number of consumers: a chat is in one place. *)

Distinct(s) == \A i, j \in DOMAIN s : s[i] = s[j] => i = j

Apart(s, t) == \A n \in Values(s) : n \notin Values(t)

Numbered(s) == Values(s) \subseteq 1..pushed

\* No queue has a chat twice, no two queues share one, and all have been pushed.
PlacesInv ==
    /\ Distinct(ETCQueue) /\ Numbered(ETCQueue)
    /\ Distinct(pendingMSG) /\ Numbered(pendingMSG)
    /\ Apart(ETCQueue, pendingMSG)
    /\ \A c \in Consumers :
        /\ Distinct(localQueue[c]) /\ Numbered(localQueue[c])
        /\ Distinct(lpendingMSG[c]) /\ Numbered(lpendingMSG[c])
        /\ Apart(ETCQueue, localQueue[c]) /\ Apart(ETCQueue, lpendingMSG[c])
        /\ Apart(pendingMSG, localQueue[c]) /\ Apart(pendingMSG, lpendingMSG[c])
    /\ \A c, d \in Consumers :
        /\ Apart(localQueue[c], lpendingMSG[d])
        /\ c # d => Apart(localQueue[c], localQueue[d]) /\ Apart(lpendingMSG[c], lpendingMSG[d])

\* What a session has been handed is in no queue that may still reach it.
ServedInv ==
    \A p \in Players :
        /\ Distinct(sent[p]) /\ Numbered(sent[p])
        /\ Apart(ETCQueue, sent[p]) /\ Apart(pendingMSG, sent[p])
        /\ \A c \in Consumers :
            /\ Apart(localQueue[c], sent[p])
            /\ p \in playersSnapshot[c] => Apart(lpendingMSG[c], sent[p])

UniqueInv == RoomInvariant /\ PlacesInv /\ ServedInv

-----------------------------------------------------------------------------
(* One consumer c: the queues are consecutive stretches of the log. *)

\* s is the stretch of the log that follows chat b.
Follows(s, b) == \A i \in 1..Len(s) : s[i] = b + i

TakenBase(c)   == pushed - Len(ETCQueue)                 \* before ETCQueue
LocalBase(c)   == TakenBase(c) - Len(localQueue[c])      \* before localQueue
PendingBase(c) == LocalBase(c) - Len(pendingMSG)         \* before _pendingMSG
BatchBase(c)   == PendingBase(c) - Len(lpendingMSG[c])   \* before lpendingMSG

QueuesInv(c) ==
    /\ Follows(ETCQueue, TakenBase(c))
    /\ Follows(localQueue[c], LocalBase(c))
    /\ Follows(pendingMSG, PendingBase(c))
    /\ Follows(lpendingMSG[c], BatchBase(c))
    /\ BatchBase(c) >= 0

\* Where player p stands in the log: it has been sent everything up to chat b
\* and nothing beyond, or it entered after chat b was pushed.
UpTo(p, b) == IF sent[p] = <<>> THEN b <= joined[p] ELSE sent[p][Len(sent[p])] = b

SentInv(c) ==
    \A p \in Players :
        /\ sent[p] # <<>> => Follows(sent[p], sent[p][1] - 1)
        /\ sent[p] # <<>> => sent[p][1] <= joined[p] + 1
        /\ p \notin expired =>
            /\ p \in playersSnapshot[c] => UpTo(p, BatchBase(c))
            /\ p \in players \ playersSnapshot[c] => UpTo(p, PendingBase(c))

OrderInv(c) == RoomInvariant /\ QueuesInv(c) /\ SentInv(c)

\* OrderInv as a state predicate for instances with any number of consumers.
OneConsumerOrder == \A c \in Consumers : Consumers = {c} => OrderInv(c)
==============================================================================
