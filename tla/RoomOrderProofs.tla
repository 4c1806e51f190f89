--------------------------- MODULE RoomOrderProofs ---------------------------
(***************************************************************************)
(* Theorems about a room with one consumer (CONSUMERS_PER_QUEUE = 1): all  *)
(* players see one order, and the room implements ChatBroadcast.           *)
(***************************************************************************)
EXTENDS RoomProofs

USE DEF data, queues, locals, history

(***************************************************************************)
(* Stretches of the log.                                                   *)
(***************************************************************************)

\* An empty queue is a stretch that follows any chat.
LEMMA FollowsEmpty == ASSUME NEW b PROVE Follows(<<>>, b)
  BY DEF Follows

\* A stretch with the next chat pushed behind it is a stretch.
LEMMA FollowsAppend ==
    ASSUME NEW s \in Seq(Nat), NEW b \in Int, Follows(s, b), b + Len(s) + 1 \in Nat
    PROVE  Follows(Append(s, b + Len(s) + 1), b)
<1> DEFINE a == Append(s, b + Len(s) + 1)
<1>1. /\ Len(s) \in Nat
      /\ Len(a) = Len(s) + 1
      /\ \A i \in 1..Len(s) : a[i] = s[i]
      /\ a[Len(s) + 1] = b + Len(s) + 1
  OBVIOUS
<1> HIDE DEF a
<1>2. ASSUME NEW i \in 1..Len(a) PROVE a[i] = b + i
  <2>1. CASE i \in 1..Len(s)
    BY <2>1, <1>1 DEF Follows
  <2>2. CASE i = Len(s) + 1
    BY ONLY <2>2, <1>1, b \in Int
  <2> QED
    BY ONLY <1>1, <2>1, <2>2, i \in 1..Len(a)
<1> QED
  BY <1>2 DEF Follows, a

\* A stretch begins with the chat after its base; without it, it follows that chat.
LEMMA FollowsTail ==
    ASSUME NEW s \in Seq(Nat), s # <<>>, NEW b \in Int, Follows(s, b)
    PROVE  /\ Head(s) = b + 1
           /\ Follows(Tail(s), b + 1)
           /\ Len(Tail(s)) = Len(s) - 1
<1>1. /\ Len(s) \in Nat \ {0}
      /\ Head(s) = s[1]
      /\ Len(Tail(s)) = Len(s) - 1
      /\ \A i \in 1..(Len(s) - 1) : Tail(s)[i] = s[i + 1]
  OBVIOUS
<1>2. \A i \in 1..(Len(s) - 1) : i + 1 \in 1..Len(s) /\ b + (i + 1) = (b + 1) + i
  BY <1>1
<1> QED
  BY <1>1, <1>2 DEF Follows

\* Two adjacent stretches make one.
LEMMA FollowsConcat ==
    ASSUME NEW s \in Seq(Nat), NEW t \in Seq(Nat), NEW b \in Int,
           Follows(s, b), Follows(t, b + Len(s))
    PROVE  Follows(s \o t, b)
<1> DEFINE a == s \o t
<1>1. /\ Len(s) \in Nat /\ Len(t) \in Nat
      /\ Len(a) = Len(s) + Len(t)
      /\ \A i \in 1..Len(s) : a[i] = s[i]
      /\ \A i \in 1..Len(t) : a[Len(s) + i] = t[i]
  <2>1. Len(s) \in Nat /\ Len(t) \in Nat /\ Len(a) = Len(s) + Len(t)
    OBVIOUS
  <2>2. \A i \in 1..Len(s) : a[i] = s[i]
    OBVIOUS
  <2>3. \A i \in 1..Len(t) : a[Len(s) + i] = t[i]
    OBVIOUS
  <2> QED
    BY <2>1, <2>2, <2>3
<1> HIDE DEF a
<1>2. ASSUME NEW i \in 1..Len(a) PROVE a[i] = b + i
  <2>1. CASE i \in 1..Len(s)
    BY <2>1, <1>1 DEF Follows
  <2>2. CASE i \notin 1..Len(s)
    <3>1. PICK j \in 1..Len(t) : i = Len(s) + j
      <4>1. i - Len(s) \in 1..Len(t) /\ i = Len(s) + (i - Len(s))
        BY <2>2, <1>1
      <4> QED
        BY <4>1
    <3>2. t[j] = (b + Len(s)) + j
      BY DEF Follows
    <3>3. a[i] = t[j]
      BY <1>1, <3>1
    <3> QED
      BY <1>1, <3>1, <3>2, <3>3
  <2> QED
    BY <2>1, <2>2
<1> QED
  BY <1>2 DEF Follows, a

(***************************************************************************)
(* The queues.                                                             *)
(***************************************************************************)

\* The bases are integers, and each is no larger than the next.
LEMMA BasesOrdered ==
    ASSUME TypeOK, NEW c \in Consumers
    PROVE  /\ TakenBase(c) \in Int /\ LocalBase(c) \in Int
           /\ PendingBase(c) \in Int /\ BatchBase(c) \in Int
           /\ BatchBase(c) <= PendingBase(c) /\ PendingBase(c) <= LocalBase(c)
           /\ LocalBase(c) <= TakenBase(c) /\ TakenBase(c) <= pushed
<1>1. /\ ETCQueue \in Seq(Nat) /\ pendingMSG \in Seq(Nat) /\ pushed \in Nat
      /\ localQueue[c] \in Seq(Nat) /\ lpendingMSG[c] \in Seq(Nat)
  BY DEF TypeOK
<1>2. /\ Len(ETCQueue) \in Nat /\ Len(pendingMSG) \in Nat
      /\ Len(localQueue[c]) \in Nat /\ Len(lpendingMSG[c]) \in Nat
  BY <1>1
<1> QED
  BY <1>1, <1>2 DEF TakenBase, LocalBase, PendingBase, BatchBase

\* What a step does to the bases and the queues of the one consumer.
LEMMA StepQueuesInv ==
    ASSUME RoomAssumption, NEW c, Consumers = {c}, OrderInv(c), Next
    PROVE  QueuesInv(c)'
<1>T. /\ ETCQueue \in Seq(Nat) /\ pendingMSG \in Seq(Nat) /\ pushed \in Nat
      /\ localQueue \in [Consumers -> Seq(Nat)] /\ lpendingMSG \in [Consumers -> Seq(Nat)]
      /\ localQueue[c] \in Seq(Nat) /\ lpendingMSG[c] \in Seq(Nat)
      /\ c \in Consumers /\ FlushInv /\ QueuesInv(c)
  BY DEF OrderInv, RoomInvariant, TypeInv, TypeOK
<1>L. /\ Len(ETCQueue) \in Nat /\ Len(pendingMSG) \in Nat
      /\ Len(localQueue[c]) \in Nat /\ Len(lpendingMSG[c]) \in Nat
  BY <1>T
<1>E. Len(<<>>) = 0
  OBVIOUS
<1>1. ASSUME NEW w \in Workers, PushETCJob(w) PROVE QueuesInv(c)'
  <2>1. /\ ETCQueue' = Append(ETCQueue, TakenBase(c) + Len(ETCQueue) + 1)
        /\ Len(ETCQueue') = Len(ETCQueue) + 1
        /\ pushed' = pushed + 1
        /\ UNCHANGED <<localQueue, pendingMSG, lpendingMSG>>
    BY <1>1, <1>T, <1>L DEF PushETCJob, TakenBase
  <2>2. Follows(ETCQueue', TakenBase(c))
    <3>1. TakenBase(c) \in Int /\ TakenBase(c) + Len(ETCQueue) + 1 \in Nat
      BY <1>T, <1>L DEF TakenBase
    <3> QED
      BY <2>1, <3>1, <1>T, FollowsAppend DEF QueuesInv
  <2>3. /\ TakenBase(c)' = TakenBase(c) /\ LocalBase(c)' = LocalBase(c)
        /\ PendingBase(c)' = PendingBase(c) /\ BatchBase(c)' = BatchBase(c)
    BY <2>1, <1>T, <1>L
      DEF TakenBase, LocalBase, PendingBase, BatchBase
  <2> QED
    BY <2>1, <2>2, <2>3, <1>T DEF QueuesInv
<1>2. CASE TakeJobs(c)
  <2>1. /\ localQueue[c] = <<>> /\ localQueue'[c] = ETCQueue /\ ETCQueue' = <<>>
        /\ UNCHANGED <<pushed, pendingMSG, lpendingMSG>>
    BY <1>2, <1>T DEF TakeJobs, Goto, FlushInv
  <2>2. /\ LocalBase(c)' = TakenBase(c)
        /\ PendingBase(c)' = PendingBase(c) /\ BatchBase(c)' = BatchBase(c)
    BY <2>1, <1>T, <1>L, <1>E
      DEF TakenBase, LocalBase, PendingBase, BatchBase
  <2> QED
    BY <2>1, <2>2, <1>T, FollowsEmpty DEF QueuesInv
<1>3. CASE BroadcastSerialized(c)
  <2>1. /\ localQueue[c] # <<>> /\ localQueue'[c] = Tail(localQueue[c])
        /\ pendingMSG' = Append(pendingMSG, Head(localQueue[c]))
        /\ UNCHANGED <<pushed, ETCQueue, lpendingMSG>>
    BY <1>3, <1>T DEF BroadcastSerialized, Goto, FlushInv
  <2>2. /\ LocalBase(c) \in Int /\ PendingBase(c) \in Int
        /\ Head(localQueue[c]) = LocalBase(c) + 1
        /\ Follows(Tail(localQueue[c]), LocalBase(c) + 1)
        /\ Len(Tail(localQueue[c])) = Len(localQueue[c]) - 1
    <3>1. LocalBase(c) \in Int /\ PendingBase(c) \in Int
      BY <1>T, <1>L DEF TakenBase, LocalBase, PendingBase
    <3> QED
      BY <2>1, <3>1, <1>T, FollowsTail DEF QueuesInv
  <2>3. /\ Head(localQueue[c]) \in Nat
        /\ Head(localQueue[c]) = PendingBase(c) + Len(pendingMSG) + 1
        /\ Len(pendingMSG') = Len(pendingMSG) + 1
    BY <2>1, <2>2, <1>T, <1>L DEF PendingBase
  <2>4. Follows(pendingMSG', PendingBase(c))
    BY <2>1, <2>2, <2>3, <1>T, FollowsAppend DEF QueuesInv
  <2>5. /\ TakenBase(c)' = TakenBase(c) /\ LocalBase(c)' = LocalBase(c) + 1
        /\ PendingBase(c)' = PendingBase(c) /\ BatchBase(c)' = BatchBase(c)
    <3>1. /\ Len(localQueue'[c]) = Len(localQueue[c]) - 1
          /\ Len(pendingMSG') = Len(pendingMSG) + 1
          /\ pushed \in Nat /\ UNCHANGED <<pushed, ETCQueue, lpendingMSG>>
      BY <2>1, <2>2, <2>3, <1>T
    <3> QED
      BY ONLY <3>1, <1>L DEF TakenBase, LocalBase, PendingBase, BatchBase
  <2> QED
    BY <2>1, <2>2, <2>4, <2>5, <1>T DEF QueuesInv
<1>4. CASE TakeSnapshot(c)
  <2>1. /\ lpendingMSG[c] = <<>> /\ lpendingMSG'[c] = pendingMSG /\ pendingMSG' = <<>>
        /\ UNCHANGED <<pushed, ETCQueue, localQueue>>
    BY <1>4, <1>T DEF TakeSnapshot, Goto, FlushInv
  <2>2. /\ TakenBase(c)' = TakenBase(c) /\ LocalBase(c)' = LocalBase(c)
        /\ BatchBase(c)' = PendingBase(c) /\ BatchBase(c)' = BatchBase(c)
    BY <2>1, <1>T, <1>L, <1>E
      DEF TakenBase, LocalBase, PendingBase, BatchBase
  <2> QED
    BY <2>1, <2>2, <1>T, FollowsEmpty DEF QueuesInv
<1>5. CASE EndFlush(c)
  <2>1. /\ lpendingMSG'[c] = <<>>
        /\ UNCHANGED <<pushed, ETCQueue, localQueue, pendingMSG>>
    BY <1>5, <1>T DEF EndFlush
  <2>2. /\ TakenBase(c)' = TakenBase(c) /\ LocalBase(c)' = LocalBase(c)
        /\ PendingBase(c)' = PendingBase(c) /\ BatchBase(c)' >= BatchBase(c)
        /\ BatchBase(c) \in Int /\ BatchBase(c)' \in Int
    BY <2>1, <1>T, <1>L, <1>E
      DEF TakenBase, LocalBase, PendingBase, BatchBase
  <2> QED
    BY <2>1, <2>2, <1>T, FollowsEmpty DEF QueuesInv
<1>6. CASE UNCHANGED <<pushed, ETCQueue, localQueue, pendingMSG, lpendingMSG>>
  BY <1>6, <1>T DEF QueuesInv, TakenBase, LocalBase, PendingBase, BatchBase
<1> QED
  BY <1>1, <1>2, <1>3, <1>4, <1>5, <1>6 DEF Next, WorkerNext, FlushStep, LockEnter,
     EnterObject, LockExit, ExitObject, LockPush, NotifyOne, SpuriousWakeup,
     SessionExpires, LockFlush, WaitForJobs, LockBroadcast, LockSnapshot, SendTo

(***************************************************************************)
(* What the players have been sent.                                        *)
(***************************************************************************)

\* Where a player stands after the batch lp, the stretch after chat b, has been
\* handed to a player that stood at b.
LEMMA BatchExtends ==
    ASSUME NEW s \in Seq(Nat), NEW lp \in Seq(Nat), NEW b \in Int, NEW j \in Int,
           Follows(lp, b),
           s # <<>> => Follows(s, s[1] - 1),
           s # <<>> => s[1] <= j + 1,
           s = <<>> => b <= j,
           s # <<>> => s[Len(s)] = b
    PROVE  LET t == s \o lp
           IN  /\ t # <<>> => Follows(t, t[1] - 1)
               /\ t # <<>> => t[1] <= j + 1
               /\ lp # <<>> => t # <<>> /\ t[Len(t)] = b + Len(lp)
<1> DEFINE t == s \o lp
<1>0. /\ Len(s) \in Nat /\ Len(lp) \in Nat /\ t \in Seq(Nat)
      /\ Len(t) = Len(s) + Len(lp)
      /\ \A i \in 1..Len(s) : t[i] = s[i]
      /\ \A i \in 1..Len(lp) : t[Len(s) + i] = lp[i]
      /\ s # <<>> => Len(s) > 0
      /\ lp # <<>> => Len(lp) > 0
      /\ \A i \in 1..Len(s) : s[i] \in Nat
  BY ONLY s \in Seq(Nat), lp \in Seq(Nat)
<1>1. CASE lp = <<>>
  <2>1. t = s
    BY <1>1
  <2> QED
    BY <1>1, <2>1
<1>2. CASE lp # <<>>
  <2>1. /\ Len(lp) \in 1..Len(lp) /\ lp[Len(lp)] = b + Len(lp)
        /\ 1 \in 1..Len(lp) /\ lp[1] = b + 1
    BY <1>0, <1>2 DEF Follows
  <2>2. t # <<>> /\ t[Len(t)] = b + Len(lp)
    <3>1. Len(t) > 0 /\ t[Len(t)] = lp[Len(lp)]
      BY <1>0, <1>2, <2>1
    <3>2. t # <<>>
      BY <3>1
    <3> QED
      BY <2>1, <3>1, <3>2
  <2>3. CASE s = <<>>
    <3>1. t = lp
      BY <2>3
    <3>2. t[1] = b + 1 /\ t[1] - 1 = b
      BY <2>1, <3>1
    <3> QED
      BY <2>1, <2>2, <2>3, <3>1, <3>2
  <2>4. CASE s # <<>>
    <3>1. 1 \in 1..Len(s) /\ Len(s) \in 1..Len(s) /\ t[1] = s[1] /\ s[1] \in Nat
      BY <1>0, <2>4
    <3>2. s[Len(s)] = (s[1] - 1) + Len(s)
      BY <3>1, <2>4 DEF Follows
    <3>3. Follows(lp, (s[1] - 1) + Len(s))
      BY <2>4, <3>2
    <3>4. s[1] - 1 \in Int
      BY <3>1
    <3>5. Follows(s \o lp, s[1] - 1)
      BY <2>4, <3>3, <3>4, FollowsConcat
    <3> QED
      BY <2>2, <2>4, <3>1, <3>5
  <2> QED
    BY <2>3, <2>4
<1> QED
  BY <1>1, <1>2

\* Every step keeps the players where SentInv says they stand in the log.
LEMMA StepSentInv ==
    ASSUME RoomAssumption, NEW c, Consumers = {c}, OrderInv(c), Next
    PROVE  SentInv(c)'
<1>T. /\ TypeOK /\ CallInv /\ FlushInv /\ JoinedInv /\ QueuesInv(c) /\ SentInv(c)
      /\ c \in Consumers
  BY DEF OrderInv, RoomInvariant, TypeInv
<1>B. /\ TakenBase(c) \in Int /\ LocalBase(c) \in Int
      /\ PendingBase(c) \in Int /\ BatchBase(c) \in Int
      /\ PendingBase(c) <= pushed
      /\ pushed \in Nat
  <2>1. pushed \in Nat
    BY <1>T DEF TypeOK
  <2> QED
    BY <2>1, <1>T, BasesOrdered
<1>L. /\ Len(ETCQueue) \in Nat /\ Len(pendingMSG) \in Nat
      /\ Len(localQueue[c]) \in Nat /\ Len(lpendingMSG[c]) \in Nat
  BY <1>T DEF TypeOK
<1>1. ASSUME UNCHANGED <<sent, joined, playersSnapshot>>, players' \subseteq players,
             expired \subseteq expired',
             BatchBase(c)' = BatchBase(c), PendingBase(c)' = PendingBase(c)
      PROVE  SentInv(c)'
  BY <1>1, <1>T DEF SentInv, UpTo
<1>2. CASE UNCHANGED <<pushed, ETCQueue, localQueue, pendingMSG, lpendingMSG, sent,
                       joined, playersSnapshot>>
           /\ players' \subseteq players /\ expired \subseteq expired'
  BY <1>1, <1>2 DEF TakenBase, LocalBase, PendingBase, BatchBase
<1>3. ASSUME NEW w \in Workers, EnterObject(w) PROVE SentInv(c)'
  <2> DEFINE q == obj[w]
  <2>1. /\ q \in Players /\ joined[q] = NotYet
        /\ joined' = [joined EXCEPT ![q] = pushed] /\ players' = players \cup {q}
        /\ UNCHANGED <<pushed, ETCQueue, localQueue, pendingMSG, lpendingMSG, sent,
                       playersSnapshot, expired>>
    BY <1>3, <1>T DEF EnterObject, Goto, CallInv
  <2> HIDE DEF q
  <2>2. BatchBase(c)' = BatchBase(c) /\ PendingBase(c)' = PendingBase(c)
    BY <2>1 DEF TakenBase, LocalBase, PendingBase, BatchBase
  <2>3. sent[q] = <<>> /\ q \notin playersSnapshot[c] /\ joined'[q] = pushed
    BY <2>1, <1>T DEF JoinedInv, TypeOK
  <2>4. \A p \in Players : p # q => joined'[p] = joined[p]
    BY <2>1, <1>T DEF TypeOK
  <2> QED
    BY <2>1, <2>2, <2>3, <2>4, <1>B, <1>T DEF SentInv, UpTo
<1>4. ASSUME NEW w \in Workers, PushETCJob(w) PROVE SentInv(c)'
  <2>1. /\ Len(ETCQueue') = Len(ETCQueue) + 1 /\ pushed' = pushed + 1
        /\ UNCHANGED <<localQueue, pendingMSG, lpendingMSG, sent, joined, players,
                       playersSnapshot, expired>>
    BY <1>4, <1>T DEF PushETCJob, TypeOK
  <2>2. BatchBase(c)' = BatchBase(c) /\ PendingBase(c)' = PendingBase(c)
    BY <2>1, <1>B, <1>L DEF TakenBase, LocalBase, PendingBase, BatchBase
  <2> QED
    BY <2>1, <2>2, <1>1
<1>5. CASE TakeJobs(c)
  <2>1. /\ localQueue[c] = <<>> /\ localQueue'[c] = ETCQueue /\ ETCQueue' = <<>>
        /\ UNCHANGED <<pushed, pendingMSG, lpendingMSG, sent, joined, players,
                       playersSnapshot, expired>>
    BY <1>5, <1>T DEF TakeJobs, Goto, FlushInv, TypeOK
  <2>2. Len(localQueue[c]) = 0 /\ Len(ETCQueue') = 0
    BY <2>1
  <2>3. BatchBase(c)' = BatchBase(c) /\ PendingBase(c)' = PendingBase(c)
    BY <2>1, <2>2, <1>B, <1>L DEF TakenBase, LocalBase, PendingBase, BatchBase
  <2> QED
    BY <2>1, <2>3, <1>1
<1>6. CASE BroadcastSerialized(c)
  <2>1. /\ localQueue[c] # <<>> /\ localQueue[c] \in Seq(Nat) /\ pendingMSG \in Seq(Nat)
        /\ localQueue'[c] = Tail(localQueue[c])
        /\ pendingMSG' = Append(pendingMSG, Head(localQueue[c]))
        /\ UNCHANGED <<pushed, ETCQueue, lpendingMSG, sent, joined, players,
                       playersSnapshot, expired>>
    BY <1>6, <1>T DEF BroadcastSerialized, Goto, FlushInv, TypeOK
  <2>2. Len(localQueue'[c]) = Len(localQueue[c]) - 1 /\ Len(pendingMSG') = Len(pendingMSG) + 1
    BY <2>1
  <2>3. BatchBase(c)' = BatchBase(c) /\ PendingBase(c)' = PendingBase(c)
    <3>1. pushed \in Nat /\ UNCHANGED <<pushed, ETCQueue, lpendingMSG>>
      BY <2>1, <1>B
    <3> QED
      BY ONLY <3>1, <2>2, <1>L DEF TakenBase, LocalBase, PendingBase, BatchBase
  <2> QED
    BY <2>1, <2>3, <1>1
<1>7. CASE TakeSnapshot(c)
  <2>1. /\ lpendingMSG[c] = <<>> /\ lpendingMSG'[c] = pendingMSG /\ pendingMSG' = <<>>
        /\ playersSnapshot[c] = {} /\ playersSnapshot'[c] = players
        /\ UNCHANGED <<pushed, ETCQueue, localQueue, sent, joined, players, expired>>
    BY <1>7, <1>T DEF TakeSnapshot, Goto, FlushInv, TypeOK
  <2>2. Len(pendingMSG') = 0
    BY <2>1
  <2>3. BatchBase(c)' = PendingBase(c)
    BY <2>1, <2>2, <1>B, <1>L DEF TakenBase, LocalBase, PendingBase, BatchBase
  <2> QED
    BY <2>1, <2>3, <1>T DEF SentInv, UpTo
<1>8. ASSUME NEW q \in Players, SendTo(c, q) PROVE SentInv(c)'
  <2>1. /\ q \in playersSnapshot[c] /\ playersSnapshot'[c] = playersSnapshot[c] \ {q}
        /\ UNCHANGED <<pushed, ETCQueue, localQueue, pendingMSG, lpendingMSG, joined,
                       players, expired>>
        /\ \A p \in Players : p # q => sent'[p] = sent[p]
        /\ sent'[q] = IF q \in expired THEN sent[q] ELSE sent[q] \o lpendingMSG[c]
    BY <1>8, <1>T DEF SendTo, TypeOK
  <2>2. BatchBase(c)' = BatchBase(c) /\ PendingBase(c)' = PendingBase(c)
    BY <2>1 DEF TakenBase, LocalBase, PendingBase, BatchBase
  <2>3. CASE q \in expired
    BY <2>1, <2>2, <2>3, <1>T DEF SentInv, UpTo
  <2>4. CASE q \notin expired
    <3>1. /\ sent[q] \in Seq(Nat) /\ lpendingMSG[c] \in Seq(Nat) /\ joined[q] \in Int
          /\ Follows(lpendingMSG[c], BatchBase(c))
          /\ sent[q] # <<>> => Follows(sent[q], sent[q][1] - 1)
          /\ sent[q] # <<>> => sent[q][1] <= joined[q] + 1
          /\ sent[q] = <<>> => BatchBase(c) <= joined[q]
          /\ sent[q] # <<>> => sent[q][Len(sent[q])] = BatchBase(c)
      BY <2>1, <2>4, <1>T DEF TypeOK, NotYet, QueuesInv, SentInv, UpTo
    <3>2. sent'[q] = sent[q] \o lpendingMSG[c]
      BY <2>1, <2>4
    <3>3. /\ sent'[q] # <<>> => Follows(sent'[q], sent'[q][1] - 1)
          /\ sent'[q] # <<>> => sent'[q][1] <= joined[q] + 1
          /\ lpendingMSG[c] # <<>> =>
                sent'[q] # <<>> /\ sent'[q][Len(sent'[q])] = BatchBase(c) + Len(lpendingMSG[c])
      <4> DEFINE s == sent[q]
                 lp == lpendingMSG[c]
                 b == BatchBase(c)
                 j == joined[q]
                 t == s \o lp
      <4>1. /\ s \in Seq(Nat) /\ lp \in Seq(Nat) /\ b \in Int /\ j \in Int
            /\ Follows(lp, b)
            /\ s # <<>> => Follows(s, s[1] - 1)
            /\ s # <<>> => s[1] <= j + 1
            /\ s = <<>> => b <= j
            /\ s # <<>> => s[Len(s)] = b
        BY ONLY <3>1, <1>B
      <4> HIDE DEF s, lp, b, j
      <4>2. /\ t # <<>> => Follows(t, t[1] - 1)
            /\ t # <<>> => t[1] <= j + 1
            /\ lp # <<>> => t # <<>> /\ t[Len(t)] = b + Len(lp)
        BY ONLY <4>1, BatchExtends, Zenon
      <4> QED
        BY ONLY <4>2, <3>2 DEF s, lp, b, j
    <3>4. BatchBase(c) + Len(lpendingMSG[c]) = PendingBase(c)
      BY <1>B, <1>L DEF BatchBase
    <3>5. UpTo(q, PendingBase(c))'
      <4>1. CASE lpendingMSG[c] # <<>>
        BY <4>1, <2>2, <3>3, <3>4 DEF UpTo
      <4>2. CASE lpendingMSG[c] = <<>>
        <5>1. sent'[q] = sent[q]
          BY <3>1, <3>2, <4>2
        <5>2. BatchBase(c) = PendingBase(c)
          BY <3>4, <4>2, <1>B
        <5> QED
          BY <5>1, <5>2, <3>1, <2>1, <2>2 DEF UpTo
      <4> QED
        BY <4>1, <4>2
    <3> QED
      BY <2>1, <2>2, <3>3, <3>5, <1>T DEF SentInv, UpTo
  <2> QED
    BY <2>3, <2>4
<1>9. CASE EndFlush(c)
  <2>1. /\ playersSnapshot[c] = {}
        /\ UNCHANGED <<pushed, ETCQueue, localQueue, pendingMSG, joined, players,
                       expired, sent, playersSnapshot>>
    BY <1>9 DEF EndFlush
  <2>2. PendingBase(c)' = PendingBase(c)
    BY <2>1 DEF TakenBase, LocalBase, PendingBase
  <2> QED
    BY <2>1, <2>2, <1>T DEF SentInv, UpTo
<1> QED
  BY <1>2, <1>3, <1>4, <1>5, <1>6, <1>7, <1>8, <1>9 DEF Next, WorkerNext, FlushStep,
     LockEnter, LockExit, ExitObject, LockPush, NotifyOne, SpuriousWakeup,
     SessionExpires, LockFlush, WaitForJobs, LockBroadcast, LockSnapshot

(***************************************************************************)
(* One order, and the refinement.                                          *)
(***************************************************************************)

\* At the start all queues are empty and nobody has been sent anything.
LEMMA InitOrderInv ==
    ASSUME RoomAssumption, NEW c, Consumers = {c}, Init PROVE OrderInv(c)
<1>1. /\ ETCQueue = <<>> /\ pendingMSG = <<>> /\ pushed = 0
      /\ localQueue[c] = <<>> /\ lpendingMSG[c] = <<>>
      /\ playersSnapshot[c] = {} /\ players = {}
      /\ \A p \in Players : sent[p] = <<>>
  BY DEF Init
<1>2. QueuesInv(c)
  <2>1. BatchBase(c) = 0
    <3>1. /\ Len(ETCQueue) = 0 /\ Len(pendingMSG) = 0 /\ pushed = 0
          /\ Len(localQueue[c]) = 0 /\ Len(lpendingMSG[c]) = 0
      BY <1>1
    <3> QED
      BY ONLY <3>1 DEF TakenBase, LocalBase, PendingBase, BatchBase
  <2> QED
    BY <1>1, <2>1, FollowsEmpty DEF QueuesInv
<1>3. SentInv(c)
  BY <1>1 DEF SentInv
<1> QED
  BY <1>2, <1>3, InitRoomInv DEF OrderInv

\* OrderInv is an invariant of a room whose only consumer is c.
LEMMA OrderInvariance ==
    ASSUME NEW c, Consumers = {c} PROVE Spec => []OrderInv(c)
<1> USE RoomAssumption
<1>1. Init => OrderInv(c)
  BY InitOrderInv
<1>2. OrderInv(c) /\ [Next]_vars => OrderInv(c)'
  <2> SUFFICES ASSUME OrderInv(c), [Next]_vars PROVE OrderInv(c)'
    OBVIOUS
  <2>1. RoomInvariant'
    BY StepRoomInv DEF OrderInv
  <2>2. CASE Next
    BY <2>1, <2>2, StepQueuesInv, StepSentInv DEF OrderInv
  <2>3. CASE UNCHANGED vars
    <3>1. QueuesInv(c)' /\ SentInv(c)'
      BY <2>3 DEF OrderInv, QueuesInv, SentInv, UpTo, TakenBase, LocalBase,
                  PendingBase, BatchBase, vars
    <3> QED
      BY <2>1, <3>1 DEF OrderInv
  <2> QED
    BY <2>2, <2>3
<1> QED
  BY <1>1, <1>2, PTL DEF Spec

\* With one consumer, every session is handed consecutive chats in the order in
\* which PushETCJob accepted them (Room.cpp 68-135), for any numbers of workers,
\* players and chats.
THEOREM OneOrder == ASSUME NEW c, Consumers = {c} PROVE Spec => []SameOrder
<1>1. OrderInv(c) => SameOrder
  <2> SUFFICES ASSUME OrderInv(c), NEW p \in Players, NEW i \in DOMAIN sent[p]
               PROVE  sent[p][i] = sent[p][1] + i - 1
    BY DEF SameOrder
  <2>1. sent[p] \in Seq(Nat)
    BY DEF OrderInv, RoomInvariant, TypeInv, TypeOK
  <2>2. i \in 1..Len(sent[p]) /\ 1 \in 1..Len(sent[p]) /\ sent[p] # <<>> /\ sent[p][1] \in Nat
    BY <2>1
  <2>3. sent[p][i] = (sent[p][1] - 1) + i
    BY <2>2 DEF OrderInv, SentInv, Follows
  <2> QED
    BY <2>2, <2>3
<1> QED
  BY <1>1, OrderInvariance, PTL

\* A batch handed to a session is the next stretch of the log.
LEMMA SendDelivers ==
    ASSUME NEW c, Consumers = {c}, OrderInv(c), NEW q \in Players, SendTo(c, q),
           q \notin expired, lpendingMSG[c] # <<>>
    PROVE  \E lo \in 1..pushed, hi \in 1..pushed : Broadcast!Deliver(q, lo, hi)
<1> DEFINE lo == BatchBase(c) + 1
           hi == PendingBase(c)
           lp == lpendingMSG[c]
<1>T. TypeOK /\ JoinedInv /\ QueuesInv(c) /\ SentInv(c) /\ c \in Consumers
  BY DEF OrderInv, RoomInvariant, TypeInv
<1>1. lp \in Seq(Nat) /\ sent[q] \in Seq(Nat) /\ pushed \in Nat
  BY <1>T DEF TypeOK
<1>2. Len(lp) \in Nat \ {0}
  BY <1>1
<1>3. /\ BatchBase(c) \in Int /\ PendingBase(c) \in Int /\ PendingBase(c) <= pushed
      /\ BatchBase(c) >= 0 /\ PendingBase(c) = BatchBase(c) + Len(lp)
  <2>1. /\ BatchBase(c) \in Int /\ PendingBase(c) \in Int
        /\ LocalBase(c) \in Int /\ TakenBase(c) \in Int
        /\ PendingBase(c) <= LocalBase(c) /\ LocalBase(c) <= TakenBase(c)
        /\ TakenBase(c) <= pushed
    BY <1>T, BasesOrdered
  <2> QED
    BY <1>T, <1>1, <1>2, <2>1 DEF QueuesInv, BatchBase
<1>4. lo \in 1..pushed /\ hi \in 1..pushed /\ lo <= hi /\ hi - lo + 1 = Len(lp)
  <2> HIDE DEF lp
  <2> QED
    BY <1>1, <1>2, <1>3
<1>5. lp = Broadcast!Stretch(lo, hi)
  <2>1. \A i \in 1..Len(lp) : lp[i] = lo + i - 1
    BY <1>T, <1>2, <1>3 DEF QueuesInv, Follows
  <2>2. lp = [i \in 1..Len(lp) |-> lp[i]]
    BY <1>1
  <2> HIDE DEF lp, lo, hi
  <2> QED
    BY <1>4, <2>1, <2>2 DEF Broadcast!Stretch
<1>6. joined[q] # Broadcast!NotYet
  BY <1>T DEF SendTo, JoinedInv, NotYet, Broadcast!NotYet
<1>7. IF sent[q] = <<>> THEN lo <= joined[q] + 1 ELSE lo = sent[q][Len(sent[q])] + 1
  <2>1. UpTo(q, BatchBase(c)) /\ joined[q] \in Int
    BY <1>T DEF SendTo, SentInv, TypeOK, NotYet
  <2> QED
    BY <2>1, <1>3 DEF UpTo
<1>8. /\ sent' = [sent EXCEPT ![q] = @ \o lp]
      /\ UNCHANGED <<pushed, players, joined>>
  BY DEF SendTo
<1> HIDE DEF lo, hi, lp
<1>9. Broadcast!Deliver(q, lo, hi)
  BY <1>4, <1>5, <1>6, <1>7, <1>8 DEF Broadcast!Deliver
<1> QED
  BY <1>4, <1>9

\* Every step of the room is a step of ChatBroadcast or changes nothing it sees.
LEMMA StepImplements ==
    ASSUME RoomAssumption, NEW c, Consumers = {c}, OrderInv(c), [Next]_vars
    PROVE  [Broadcast!Next]_(Broadcast!vars)
<1> USE DEF Broadcast!vars
<1>T. TypeOK /\ CallInv
  BY DEF OrderInv, RoomInvariant, TypeInv
<1>1. CASE UNCHANGED <<pushed, players, joined, sent>>
  BY <1>1
<1>2. ASSUME NEW w \in Workers, EnterObject(w) PROVE Broadcast!Next
  <2>1. obj[w] \in Players /\ Broadcast!Join(obj[w])
    BY <1>2, <1>T DEF EnterObject, Goto, CallInv, NotYet, Broadcast!Join, Broadcast!NotYet
  <2> QED
    BY <2>1 DEF Broadcast!Next
<1>3. ASSUME NEW w \in Workers, ExitObject(w) PROVE Broadcast!Next
  <2>1. obj[w] \in Players /\ Broadcast!Leave(obj[w])
    BY <1>3, <1>T DEF ExitObject, Goto, CallInv, Broadcast!Leave
  <2> QED
    BY <2>1 DEF Broadcast!Next
<1>4. ASSUME NEW w \in Workers, PushETCJob(w) PROVE Broadcast!Next
  BY <1>4 DEF PushETCJob, Broadcast!Next, Broadcast!Publish
<1>5. ASSUME NEW q \in Players, SendTo(c, q) PROVE [Broadcast!Next]_(Broadcast!vars)
  <2>1. CASE q \in expired
    BY <1>5, <2>1 DEF SendTo
  <2>2. CASE lpendingMSG[c] = <<>>
    <3>1. sent[q] \o <<>> = sent[q]
      BY <1>T DEF TypeOK
    <3>2. sent' = sent
      BY <1>5, <2>2, <3>1, <1>T DEF SendTo, TypeOK
    <3> QED
      BY <1>5, <3>2 DEF SendTo
  <2>3. CASE q \notin expired /\ lpendingMSG[c] # <<>>
    BY <1>5, <2>3, SendDelivers DEF Broadcast!Next
  <2> QED
    BY <2>1, <2>2, <2>3
<1> QED
  BY <1>1, <1>2, <1>3, <1>4, <1>5 DEF Next, WorkerNext, FlushStep, LockEnter, LockExit,
     LockPush, NotifyOne, SpuriousWakeup, SessionExpires, LockFlush, WaitForJobs, TakeJobs,
     LockBroadcast, BroadcastSerialized, LockSnapshot, TakeSnapshot, EndFlush, vars

\* With one consumer the room implements ChatBroadcast: whatever the workers and
\* Flush do to the queues under _lock and between its critical sections, players
\* see one log (Room.cpp 44-135), for any numbers of workers, players and chats.
THEOREM RoomImplementsBroadcast ==
    ASSUME NEW c, Consumers = {c} PROVE Spec => ImplementsBroadcast
<1> USE RoomAssumption
<1>1. Init => Broadcast!Init
  BY DEF Init, Broadcast!Init, NotYet, Broadcast!NotYet
<1>2. OrderInv(c) /\ [Next]_vars => [Broadcast!Next]_(Broadcast!vars)
  BY StepImplements
<1>3. Spec => []OrderInv(c)
  BY OrderInvariance
<1> QED
  BY <1>1, <1>2, <1>3, PTL DEF Spec, ImplementsBroadcast, Broadcast!Spec
==============================================================================
