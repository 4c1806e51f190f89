----------------------------- MODULE RoomProofs -----------------------------
(***************************************************************************)
(* Theorems about Room, for every set of threads and players and every     *)
(* bound on the number of chats.                                           *)
(***************************************************************************)
EXTENDS RoomInv, TLAPS

USE DEF data, queues, locals, history

(***************************************************************************)
(* Type correctness.                                                       *)
(***************************************************************************)

\* The initial state has every field of the room in its type, a free lock and
\* no call in progress.
LEMMA InitTypeInv == ASSUME RoomAssumption, Init PROVE TypeInv
<1> USE RoomAssumption, Init DEF Init, RoomAssumption, Threads, NotYet
<1>1. TypeOK
  BY DEF TypeOK, WorkerLabels, WorkerHolds, ConsumerLabels, ConsumerHolds
<1>2. LockInv
  BY DEF LockInv, WorkerHolds, ConsumerHolds
<1>3. CallInv
  BY DEF CallInv
<1> QED
  BY <1>1, <1>2, <1>3 DEF TypeInv

\* Every step of a worker keeps types, lock ownership and call arguments right.
LEMMA WorkerTypeInv ==
    ASSUME RoomAssumption, TypeInv, NEW w \in Workers, WorkerNext(w)
    PROVE  TypeInv'
<1> USE RoomAssumption, TypeInv
    DEF RoomAssumption, TypeInv, TypeOK, LockInv, CallInv, Threads, NotYet,
        WorkerLabels, WorkerHolds, ConsumerLabels, ConsumerHolds,
        Goto, Acquire, Release
<1>1. ASSUME NEW p \in Players, LockEnter(w, p) PROVE TypeInv'
  BY <1>1 DEF LockEnter
<1>2. CASE EnterObject(w)
  BY <1>2 DEF EnterObject
<1>3. ASSUME NEW p \in Players, LockExit(w, p) PROVE TypeInv'
  BY <1>3 DEF LockExit
<1>4. CASE ExitObject(w)
  BY <1>4 DEF ExitObject
<1>5. CASE LockPush(w)
  BY <1>5 DEF LockPush
<1>6. CASE PushETCJob(w)
  BY <1>6 DEF PushETCJob
<1>7. CASE NotifyOne(w)
  <2>1. ASSUME NEW c \in Consumers, pc[w] = "notify", pc[c] = "waiting",
               pc' = [pc EXCEPT ![w] = "idle", ![c] = "lock"],
               UNCHANGED <<lock, obj, data>>
        PROVE  TypeInv'
    <3>1. w # c /\ pc'[w] = "idle" /\ pc'[c] = "lock"
      BY <2>1
    <3>2. \A t \in Threads : t # w /\ t # c => pc'[t] = pc[t]
      BY <2>1
    <3>3. TypeOK'
      BY <2>1, <3>1, <3>2
    <3>4. LockInv'
      BY <2>1, <3>1, <3>2
    <3>5. CallInv'
      BY <2>1, <3>1, <3>2
    <3> QED
      BY <3>3, <3>4, <3>5
  <2>2. ASSUME pc[w] = "notify", pc' = [pc EXCEPT ![w] = "idle"],
               UNCHANGED <<lock, obj, data>>
        PROVE  TypeInv'
    BY <2>2
  <2> QED
    BY <1>7, <2>1, <2>2 DEF NotifyOne
<1> QED
  BY <1>1, <1>2, <1>3, <1>4, <1>5, <1>6, <1>7 DEF WorkerNext

\* Every step of a consumer does.
LEMMA FlushTypeInv ==
    ASSUME RoomAssumption, TypeInv, FlushInv, NEW c \in Consumers,
           FlushStep(c) \/ SpuriousWakeup(c)
    PROVE  TypeInv'
<1> USE RoomAssumption, TypeInv
    DEF RoomAssumption, TypeInv, TypeOK, LockInv, CallInv, Threads, NotYet,
        WorkerLabels, WorkerHolds, ConsumerLabels, ConsumerHolds,
        Goto, Acquire, Release
<1>1. CASE LockFlush(c)
  BY <1>1 DEF LockFlush
<1>2. CASE WaitForJobs(c)
  BY <1>2 DEF WaitForJobs
<1>3. CASE SpuriousWakeup(c)
  BY <1>3 DEF SpuriousWakeup
<1>4. CASE TakeJobs(c)
  BY <1>4 DEF TakeJobs
<1>5. CASE LockBroadcast(c)
  BY <1>5 DEF LockBroadcast
<1>6. CASE BroadcastSerialized(c)
  BY <1>6 DEF BroadcastSerialized, FlushInv
<1>7. CASE LockSnapshot(c)
  BY <1>7 DEF LockSnapshot
<1>8. CASE TakeSnapshot(c)
  BY <1>8 DEF TakeSnapshot
<1>9. ASSUME NEW p \in Players, SendTo(c, p) PROVE TypeInv'
  BY <1>9 DEF SendTo
<1>10. CASE EndFlush(c)
  BY <1>10 DEF EndFlush
<1> QED
  BY <1>1, <1>2, <1>3, <1>4, <1>5, <1>6, <1>7, <1>8, <1>9, <1>10 DEF FlushStep

\* The expiry of a session changes nothing a call or a lock depends on.
LEMMA ExpireTypeInv ==
    ASSUME TypeInv, NEW p \in Players, SessionExpires(p)
    PROVE  TypeInv'
  BY DEF TypeInv, TypeOK, LockInv, CallInv, SessionExpires

\* Flush's locals are where FlushInv says, after any step.
LEMMA StepFlushInv ==
    ASSUME RoomAssumption, TypeInv, FlushInv, Next PROVE FlushInv'
<1> USE RoomAssumption, TypeInv, FlushInv
    DEF RoomAssumption, TypeInv, TypeOK, FlushInv, Threads, Goto
<1>1. ASSUME NEW w \in Workers, WorkerNext(w) PROVE FlushInv'
  <2>1. /\ UNCHANGED <<localQueue, lpendingMSG, playersSnapshot>>
        /\ \A c \in Consumers : \/ pc'[c] = pc[c]
                                \/ pc[c] = "waiting" /\ pc'[c] = "lock"
    BY <1>1 DEF WorkerNext, LockEnter, EnterObject, LockExit, ExitObject,
                LockPush, PushETCJob, NotifyOne
  <2> QED
    BY <2>1
<1>2. ASSUME NEW c \in Consumers, FlushStep(c) PROVE FlushInv'
  <2>1. CASE LockFlush(c)
    BY <2>1 DEF LockFlush
  <2>2. CASE WaitForJobs(c)
    BY <2>2 DEF WaitForJobs
  <2>3. CASE TakeJobs(c)
    BY <2>3 DEF TakeJobs
  <2>4. CASE LockBroadcast(c)
    BY <2>4 DEF LockBroadcast
  <2>5. CASE BroadcastSerialized(c)
    BY <2>5 DEF BroadcastSerialized
  <2>6. CASE LockSnapshot(c)
    BY <2>6 DEF LockSnapshot
  <2>7. CASE TakeSnapshot(c)
    BY <2>7 DEF TakeSnapshot
  <2>8. ASSUME NEW p \in Players, SendTo(c, p) PROVE FlushInv'
    BY <2>8 DEF SendTo
  <2>9. CASE EndFlush(c)
    BY <2>9 DEF EndFlush
  <2> QED
    BY <1>2, <2>1, <2>2, <2>3, <2>4, <2>5, <2>6, <2>7, <2>8, <2>9 DEF FlushStep
<1>3. ASSUME NEW c \in Consumers, SpuriousWakeup(c) PROVE FlushInv'
  BY <1>3 DEF SpuriousWakeup
<1>4. ASSUME NEW p \in Players, SessionExpires(p) PROVE FlushInv'
  BY <1>4 DEF SessionExpires
<1> QED
  BY <1>1, <1>2, <1>3, <1>4 DEF Next

\* A player that has not entered is nowhere, after any step.
LEMMA StepJoinedInv ==
    ASSUME RoomAssumption, TypeInv, JoinedInv, Next PROVE JoinedInv'
<1> USE RoomAssumption, TypeInv, JoinedInv
    DEF RoomAssumption, TypeInv, TypeOK, CallInv, JoinedInv, Threads, NotYet, Goto
<1>1. ASSUME NEW w \in Workers, WorkerNext(w) PROVE JoinedInv'
  <2>1. ASSUME NEW p \in Players, LockEnter(w, p) \/ LockExit(w, p) PROVE JoinedInv'
    BY <2>1 DEF LockEnter, LockExit
  <2>2. CASE EnterObject(w)
    BY <2>2 DEF EnterObject
  <2>3. CASE ExitObject(w)
    BY <2>3 DEF ExitObject
  <2>4. CASE LockPush(w) \/ PushETCJob(w) \/ NotifyOne(w)
    BY <2>4 DEF LockPush, PushETCJob, NotifyOne
  <2> QED
    BY <1>1, <2>1, <2>2, <2>3, <2>4 DEF WorkerNext
<1>2. ASSUME NEW c \in Consumers, FlushStep(c) \/ SpuriousWakeup(c) PROVE JoinedInv'
  <2>1. CASE TakeSnapshot(c)
    BY <2>1 DEF TakeSnapshot
  <2>2. ASSUME NEW p \in Players, SendTo(c, p) PROVE JoinedInv'
    BY <2>2 DEF SendTo
  <2>3. CASE UNCHANGED <<joined, players, sent, playersSnapshot>>
    BY <2>3
  <2> QED
    BY <1>2, <2>1, <2>2, <2>3 DEF FlushStep, LockFlush, WaitForJobs, TakeJobs,
       LockBroadcast, BroadcastSerialized, LockSnapshot, EndFlush, SpuriousWakeup
<1>3. ASSUME NEW p \in Players, SessionExpires(p) PROVE JoinedInv'
  BY <1>3 DEF SessionExpires
<1> QED
  BY <1>1, <1>2, <1>3 DEF Next

\* The three together are inductive.
LEMMA InitRoomInv == ASSUME RoomAssumption, Init PROVE RoomInvariant
<1>1. FlushInv /\ JoinedInv
  BY RoomAssumption DEF RoomAssumption, Init, FlushInv, JoinedInv, Threads
<1> QED
  BY <1>1, InitTypeInv DEF RoomInvariant

\* Every step keeps RoomInvariant.
LEMMA StepRoomInv ==
    ASSUME RoomAssumption, RoomInvariant, [Next]_vars PROVE RoomInvariant'
<1>1. CASE Next
  <2>1. TypeInv'
    BY <1>1, WorkerTypeInv, FlushTypeInv, ExpireTypeInv DEF Next, RoomInvariant
  <2> QED
    BY <1>1, <2>1, StepFlushInv, StepJoinedInv DEF RoomInvariant
<1>2. CASE UNCHANGED vars
  BY <1>2 DEF RoomInvariant, TypeInv, TypeOK, LockInv, CallInv, FlushInv, JoinedInv, vars
<1> QED
  BY <1>1, <1>2

\* Everything RoomInvariant says of the room holds in every reachable state.
THEOREM RoomInvariance == Spec => []RoomInvariant
<1> USE RoomAssumption
<1>1. Init => RoomInvariant
  BY InitRoomInv
<1>2. RoomInvariant /\ [Next]_vars => RoomInvariant'
  BY StepRoomInv
<1> QED
  BY <1>1, <1>2, PTL DEF Spec

\* Every value the room and its threads keep has its type, for any numbers of
\* workers, consumers and players (Room.h 24-64, Room.cpp 44-135).
THEOREM TypeCorrect == Spec => []TypeOK
<1>1. RoomInvariant => TypeOK
  BY DEF RoomInvariant, TypeInv
<1> QED
  BY <1>1, RoomInvariance, PTL

(***************************************************************************)
(* No chat is lost.                                                        *)
(***************************************************************************)

\* An empty queue holds no chat.
LEMMA ValuesEmpty == Values(<<>>) = {}
  BY DEF Values

\* push_back adds one chat to a queue and keeps the rest.
LEMMA ValuesAppend ==
    ASSUME NEW s \in Seq(Nat), NEW n \in Nat
    PROVE  Values(Append(s, n)) = Values(s) \cup {n}
<1>1. /\ DOMAIN Append(s, n) = 1..(Len(s) + 1)
      /\ \A i \in 1..Len(s) : Append(s, n)[i] = s[i]
      /\ Append(s, n)[Len(s) + 1] = n
  OBVIOUS
<1>2. DOMAIN s = 1..Len(s) /\ Len(s) \in Nat
  OBVIOUS
<1> QED
  BY <1>1, <1>2 DEF Values

\* Handing a batch to a session adds its chats to what the session has.
LEMMA ValuesConcat ==
    ASSUME NEW s \in Seq(Nat), NEW t \in Seq(Nat)
    PROVE  Values(s \o t) = Values(s) \cup Values(t)
<1>1. /\ DOMAIN (s \o t) = 1..(Len(s) + Len(t))
      /\ \A i \in 1..Len(s) : (s \o t)[i] = s[i]
      /\ \A i \in 1..Len(t) : (s \o t)[Len(s) + i] = t[i]
  OBVIOUS
<1>2. /\ DOMAIN s = 1..Len(s) /\ Len(s) \in Nat
      /\ DOMAIN t = 1..Len(t) /\ Len(t) \in Nat
  OBVIOUS
<1>3. ASSUME NEW i \in 1..(Len(s) + Len(t)) PROVE (s \o t)[i] \in Values(s) \cup Values(t)
  <2>1. CASE i \in 1..Len(s)
    BY <2>1, <1>1, <1>2 DEF Values
  <2>2. CASE i \notin 1..Len(s)
    <3>1. i - Len(s) \in 1..Len(t) /\ Len(s) + (i - Len(s)) = i
      BY <2>2, <1>2
    <3> QED
      BY <3>1, <1>1, <1>2 DEF Values
  <2> QED
    BY <2>1, <2>2
<1>4. ASSUME NEW i \in 1..Len(t) PROVE t[i] \in Values(s \o t)
  <2>1. Len(s) + i \in 1..(Len(s) + Len(t))
    BY <1>2
  <2> QED
    BY <2>1, <1>1 DEF Values
<1>5. ASSUME NEW i \in 1..Len(s) PROVE s[i] \in Values(s \o t)
  <2>1. i \in 1..(Len(s) + Len(t))
    BY <1>2
  <2> QED
    BY <2>1, <1>1 DEF Values
<1>6. Values(s \o t) \subseteq Values(s) \cup Values(t)
  <2> SUFFICES ASSUME NEW v \in Values(s \o t) PROVE v \in Values(s) \cup Values(t)
    OBVIOUS
  <2>1. PICK i \in 1..(Len(s) + Len(t)) : v = (s \o t)[i]
    BY <1>1 DEF Values
  <2> QED
    BY <2>1, <1>3
<1>7. Values(s) \subseteq Values(s \o t)
  BY <1>2, <1>5 DEF Values
<1>8. Values(t) \subseteq Values(s \o t)
  BY <1>2, <1>4 DEF Values
<1> QED
  BY <1>6, <1>7, <1>8

\* Popping a queue takes its first chat and no other.
LEMMA ValuesTail ==
    ASSUME NEW s \in Seq(Nat), s # <<>>
    PROVE  Values(s) = {Head(s)} \cup Values(Tail(s))
<1>1. /\ DOMAIN s = 1..Len(s) /\ Len(s) \in Nat \ {0}
      /\ DOMAIN Tail(s) = 1..(Len(s) - 1)
      /\ Head(s) = s[1]
      /\ \A i \in 1..(Len(s) - 1) : Tail(s)[i] = s[i + 1]
  OBVIOUS
<1>2. ASSUME NEW i \in 1..Len(s) PROVE s[i] \in {Head(s)} \cup Values(Tail(s))
  <2>1. CASE i = 1
    BY <2>1, <1>1
  <2>2. CASE i # 1
    <3>1. i - 1 \in 1..(Len(s) - 1) /\ (i - 1) + 1 = i
      BY <2>2, <1>1
    <3> QED
      BY <3>1, <1>1 DEF Values
  <2> QED
    BY <2>1, <2>2
<1>3. ASSUME NEW i \in 1..(Len(s) - 1) PROVE Tail(s)[i] \in Values(s)
  <2>1. i + 1 \in 1..Len(s)
    BY <1>1
  <2> QED
    BY <2>1, <1>1 DEF Values
<1>4. s[1] \in Values(s)
  BY <1>1 DEF Values
<1> QED
  BY <1>1, <1>2, <1>3, <1>4 DEF Values

\* The initial state has no player, so nothing to lose.
LEMMA InitNothingLost == ASSUME Init PROVE NothingLost
  BY DEF Init, NothingLost

\* No step loses a chat: each one moves it along, or leaves it where it is.
LEMMA StepNothingLost ==
    ASSUME RoomAssumption, LossInv, Next PROVE NothingLost'
<1> USE RoomAssumption DEF RoomAssumption, Threads, NotYet
<1> SUFFICES ASSUME NEW p \in players', p \notin expired',
                    NEW n \in (joined'[p] + 1)..pushed'
             PROVE  n \in Values(sent'[p]) \/ InTransit(n, p)'
  BY DEF NothingLost
<1> DEFINE Same == n \in Values(sent[p]) \/ InTransit(n, p)
<1>T. TypeOK /\ FlushInv /\ JoinedInv /\ NothingLost /\ CallInv
  BY DEF LossInv, RoomInvariant, TypeInv
<1>1. ASSUME NEW w \in Workers, EnterObject(w)
      PROVE  n \in Values(sent'[p]) \/ InTransit(n, p)'
  <2>1. obj[w] \in Players /\ p # obj[w] /\ p \in players /\ joined'[p] = joined[p]
    BY <1>1, <1>T DEF EnterObject, TypeOK, CallInv, Goto
  <2>2. Same
    BY <1>1, <2>1, <1>T DEF EnterObject, NothingLost
  <2> QED
    BY <1>1, <2>2 DEF EnterObject, InTransit
<1>2. ASSUME NEW w \in Workers, PushETCJob(w)
      PROVE  n \in Values(sent'[p]) \/ InTransit(n, p)'
  <2>1. Values(ETCQueue') = Values(ETCQueue) \cup {pushed + 1}
    BY <1>2, <1>T, ValuesAppend DEF PushETCJob, TypeOK
  <2>2. p \in Players /\ joined'[p] \in Int /\ pushed' = pushed + 1 /\ pushed \in Nat
    BY <1>2, <1>T DEF PushETCJob, TypeOK
  <2>3. CASE n = pushed + 1
    BY <2>1, <2>3 DEF InTransit
  <2>4. CASE n # pushed + 1
    <3>1. Same
      BY <1>2, <2>2, <2>4, <1>T DEF PushETCJob, NothingLost
    <3> QED
      BY <1>2, <2>1, <3>1 DEF PushETCJob, InTransit
  <2> QED
    BY <2>3, <2>4
<1>3. ASSUME UNCHANGED <<ETCQueue, pendingMSG, localQueue, lpendingMSG,
                         playersSnapshot, pushed, joined, sent>>,
             players' \subseteq players, expired \subseteq expired'
      PROVE  n \in Values(sent'[p]) \/ InTransit(n, p)'
  <2>1. Same
    BY <1>3, <1>T DEF NothingLost
  <2> QED
    BY <1>3, <2>1 DEF InTransit
<1>4. ASSUME NEW c \in Consumers, FlushStep(c) PROVE n \in Values(sent'[p]) \/ InTransit(n, p)'
  <2>0. Same /\ p \in players /\ p \in Players /\ p \notin expired
    BY <1>4, <1>T DEF FlushStep, LockFlush, WaitForJobs, TakeJobs, LockBroadcast,
       BroadcastSerialized, LockSnapshot, TakeSnapshot, SendTo, EndFlush, NothingLost, TypeOK
  <2>1. CASE TakeJobs(c)
    <3>1. localQueue[c] = <<>> /\ localQueue'[c] = ETCQueue
      BY <2>1, <1>T DEF TakeJobs, FlushInv, Goto, TypeOK
    <3>2. \A d \in Consumers : d # c => localQueue'[d] = localQueue[d]
      BY <2>1, <1>T DEF TakeJobs, TypeOK
    <3> QED
      BY <2>0, <2>1, <3>1, <3>2, ValuesEmpty DEF TakeJobs, InTransit
  <2>2. CASE BroadcastSerialized(c)
    <3>0. localQueue[c] \in Seq(Nat) /\ localQueue[c] # <<>>
      BY <2>2, <1>T DEF BroadcastSerialized, FlushInv, Goto, TypeOK
    <3>1. Values(localQueue[c]) = {Head(localQueue[c])} \cup Values(Tail(localQueue[c]))
      BY <3>0, ValuesTail
    <3>2. Values(pendingMSG') = Values(pendingMSG) \cup {Head(localQueue[c])}
      <4>1. Head(localQueue[c]) \in Nat
        BY <3>0
      <4> QED
        BY <2>2, <4>1, <1>T, ValuesAppend DEF BroadcastSerialized, TypeOK
    <3>3. /\ localQueue'[c] = Tail(localQueue[c])
          /\ \A d \in Consumers : d # c => localQueue'[d] = localQueue[d]
      BY <2>2, <1>T DEF BroadcastSerialized, TypeOK
    <3> QED
      BY <2>0, <2>2, <3>1, <3>2, <3>3 DEF BroadcastSerialized, InTransit
  <2>3. CASE TakeSnapshot(c)
    <3>1. /\ playersSnapshot[c] = {} /\ lpendingMSG'[c] = pendingMSG
          /\ p \in playersSnapshot'[c]
      BY <2>0, <2>3, <1>T DEF TakeSnapshot, FlushInv, Goto, TypeOK
    <3>2. \A d \in Consumers : d # c => /\ lpendingMSG'[d] = lpendingMSG[d]
                                       /\ playersSnapshot'[d] = playersSnapshot[d]
      BY <2>3, <1>T DEF TakeSnapshot, TypeOK
    <3> QED
      BY <2>0, <2>3, <3>1, <3>2 DEF TakeSnapshot, InTransit
  <2>4. ASSUME NEW q \in Players, SendTo(c, q)
        PROVE  n \in Values(sent'[p]) \/ InTransit(n, p)'
    <3>1. CASE q = p
      <4>1. Values(sent'[p]) = Values(sent[p]) \cup Values(lpendingMSG[c])
        BY <2>0, <2>4, <3>1, <1>T, ValuesConcat DEF SendTo, TypeOK
      <4>2. \A d \in Consumers : d # c => playersSnapshot'[d] = playersSnapshot[d]
        BY <2>4, <1>T DEF SendTo, TypeOK
      <4> QED
        BY <2>0, <2>4, <4>1, <4>2 DEF SendTo, InTransit
    <3>2. CASE q # p
      <4>1. sent'[p] = sent[p]
        BY <2>0, <2>4, <3>2, <1>T DEF SendTo, TypeOK
      <4>2. \A d \in Consumers : p \in playersSnapshot[d] => p \in playersSnapshot'[d]
        BY <2>4, <3>2, <1>T DEF SendTo, TypeOK
      <4> QED
        BY <2>0, <2>4, <4>1, <4>2 DEF SendTo, InTransit
    <3> QED
      BY <3>1, <3>2
  <2>5. CASE EndFlush(c)
    <3>1. /\ playersSnapshot[c] = {}
          /\ \A d \in Consumers : d # c => lpendingMSG'[d] = lpendingMSG[d]
      BY <2>5, <1>T DEF EndFlush, TypeOK
    <3> QED
      BY <2>0, <2>5, <3>1 DEF EndFlush, InTransit
  <2> QED
    BY <1>3, <1>4, <2>1, <2>2, <2>3, <2>4, <2>5
       DEF FlushStep, LockFlush, WaitForJobs, LockBroadcast, LockSnapshot
<1> QED
  BY <1>1, <1>2, <1>3, <1>4 DEF Next, WorkerNext, LockEnter, LockExit, ExitObject,
     LockPush, NotifyOne, SpuriousWakeup, SessionExpires

\* No chat is lost between PushETCJob and Session::Send (Room.cpp 68-131), for
\* any numbers of workers, consumers and players and any number of chats.
THEOREM NoChatLost == Spec => []NothingLost
<1> USE RoomAssumption
<1>1. Init => LossInv
  BY InitRoomInv, InitNothingLost DEF LossInv
<1>2. LossInv /\ [Next]_vars => LossInv'
  <2> SUFFICES ASSUME LossInv, [Next]_vars PROVE LossInv'
    OBVIOUS
  <2>1. RoomInvariant'
    BY StepRoomInv DEF LossInv
  <2>2. CASE Next
    BY <2>1, <2>2, StepNothingLost DEF LossInv
  <2>3. CASE UNCHANGED vars
    BY <2>1, <2>3 DEF LossInv, NothingLost, InTransit, vars
  <2> QED
    BY <2>2, <2>3
<1>3. LossInv => NothingLost
  BY DEF LossInv
<1> QED
  BY <1>1, <1>2, <1>3, PTL DEF Spec

(***************************************************************************)
(* No chat is handed out twice.                                            *)
(***************************************************************************)

\* push_back of a chat that is not there keeps a queue free of repetitions.
LEMMA DistinctAppend ==
    ASSUME NEW s \in Seq(Nat), NEW n \in Nat, Distinct(s), n \notin Values(s)
    PROVE  Distinct(Append(s, n))
<1>1. /\ DOMAIN Append(s, n) = 1..(Len(s) + 1)
      /\ \A i \in 1..Len(s) : Append(s, n)[i] = s[i]
      /\ Append(s, n)[Len(s) + 1] = n
  OBVIOUS
<1>2. DOMAIN s = 1..Len(s) /\ Len(s) \in Nat
  OBVIOUS
<1>3. \A i \in 1..Len(s) : s[i] # n
  BY <1>2 DEF Values
<1> QED
  BY <1>1, <1>2, <1>3 DEF Distinct

\* A queue that is popped loses its first chat for good.
LEMMA DistinctTail ==
    ASSUME NEW s \in Seq(Nat), s # <<>>, Distinct(s)
    PROVE  Distinct(Tail(s)) /\ Head(s) \notin Values(Tail(s))
<1>1. /\ DOMAIN s = 1..Len(s) /\ Len(s) \in Nat \ {0}
      /\ DOMAIN Tail(s) = 1..(Len(s) - 1)
      /\ Head(s) = s[1]
      /\ \A i \in 1..(Len(s) - 1) : Tail(s)[i] = s[i + 1]
  OBVIOUS
<1>2. \A i \in 1..(Len(s) - 1) : i + 1 \in DOMAIN s /\ i + 1 # 1 /\ 1 \in DOMAIN s
  BY <1>1
<1>3. Distinct(Tail(s))
  <2> DEFINE t == Tail(s)
  <2>1. DOMAIN t = 1..(Len(s) - 1) /\ \A i \in 1..(Len(s) - 1) : t[i] = s[i + 1]
    BY <1>1
  <2>2. \A i, j \in 1..(Len(s) - 1) : i + 1 = j + 1 => i = j
    BY <1>1
  <2> HIDE DEF t
  <2>3. ASSUME NEW i \in DOMAIN t, NEW j \in DOMAIN t, t[i] = t[j] PROVE i = j
    <3>1. s[i + 1] = s[j + 1] /\ i + 1 \in DOMAIN s /\ j + 1 \in DOMAIN s
      BY <2>1, <2>3, <1>2
    <3>2. i + 1 = j + 1
      BY <3>1 DEF Distinct
    <3> QED
      BY <3>2, <2>1, <2>2
  <2> QED
    BY <2>3 DEF t, Distinct
<1>4. Head(s) \notin Values(Tail(s))
  BY <1>1, <1>2 DEF Distinct, Values
<1> QED
  BY <1>3, <1>4

\* Two batches that share nothing can be handed to one session.
LEMMA DistinctConcat ==
    ASSUME NEW s \in Seq(Nat), NEW t \in Seq(Nat), Distinct(s), Distinct(t), Apart(t, s)
    PROVE  Distinct(s \o t)
<1>1. /\ DOMAIN (s \o t) = 1..(Len(s) + Len(t))
      /\ \A i \in 1..Len(s) : (s \o t)[i] = s[i]
      /\ \A i \in 1..(Len(s) + Len(t)) : i > Len(s) => (s \o t)[i] = t[i - Len(s)]
  OBVIOUS
<1>2. /\ DOMAIN s = 1..Len(s) /\ Len(s) \in Nat
      /\ DOMAIN t = 1..Len(t) /\ Len(t) \in Nat
  OBVIOUS
<1>3. \A i \in 1..Len(s), j \in 1..Len(t) : s[i] # t[j]
  BY <1>2 DEF Apart, Values
<1>4. ASSUME NEW i \in 1..(Len(s) + Len(t)), NEW j \in 1..(Len(s) + Len(t)),
             (s \o t)[i] = (s \o t)[j]
      PROVE  i = j
  <2>1. CASE i <= Len(s) /\ j <= Len(s)
    <3>1. i \in 1..Len(s) /\ j \in 1..Len(s)
      BY <2>1, <1>2
    <3>2. s[i] = s[j]
      BY <3>1, <1>1, <1>4
    <3> QED
      BY <3>1, <3>2, <1>2 DEF Distinct
  <2>2. CASE i > Len(s) /\ j > Len(s)
    <3>1. i - Len(s) \in 1..Len(t) /\ j - Len(s) \in 1..Len(t)
      BY <2>2, <1>2
    <3>2. t[i - Len(s)] = t[j - Len(s)]
      BY <2>2, <1>1, <1>4
    <3>3. i - Len(s) = j - Len(s)
      BY <3>1, <3>2, <1>2 DEF Distinct
    <3> QED
      BY <3>3, <1>2
  <2>3. CASE i <= Len(s) /\ j > Len(s)
    <3>1. i \in 1..Len(s) /\ j - Len(s) \in 1..Len(t)
      BY <2>3, <1>2
    <3> QED
      BY <2>3, <3>1, <1>1, <1>3, <1>4
  <2>4. CASE i > Len(s) /\ j <= Len(s)
    <3>1. j \in 1..Len(s) /\ i - Len(s) \in 1..Len(t)
      BY <2>4, <1>2
    <3> QED
      BY <2>4, <3>1, <1>1, <1>3, <1>4
  <2> QED
    BY <2>1, <2>2, <2>3, <2>4, <1>2
<1> QED
  BY <1>1, <1>4 DEF Distinct

\* Nothing has been pushed at first.
LEMMA InitUnique == ASSUME Init PROVE PlacesInv /\ ServedInv
<1>1. /\ Distinct(<<>>) /\ Numbered(<<>>)
      /\ \A s : Apart(<<>>, s)
  BY ValuesEmpty DEF Distinct, Numbered, Apart
<1> QED
  BY <1>1 DEF Init, PlacesInv, ServedInv

\* A new chat has a number nobody has seen.
LEMMA PushUnique ==
    ASSUME RoomAssumption, UniqueInv, NEW w \in Workers, PushETCJob(w)
    PROVE  PlacesInv' /\ ServedInv'
<1>1. /\ ETCQueue \in Seq(Nat) /\ pushed \in Nat
      /\ pushed' = pushed + 1 /\ ETCQueue' = Append(ETCQueue, pushed + 1)
      /\ UNCHANGED <<pendingMSG, localQueue, lpendingMSG, playersSnapshot, sent>>
  BY DEF UniqueInv, RoomInvariant, TypeInv, TypeOK, PushETCJob
<1>2. Values(ETCQueue') = Values(ETCQueue) \cup {pushed + 1}
  BY <1>1, ValuesAppend
<1>3. ASSUME NEW s \in Seq(Nat), Numbered(s)
      PROVE  /\ pushed + 1 \notin Values(s)
             /\ Numbered(s)'
             /\ Apart(ETCQueue, s) => Apart(ETCQueue', s)
  <2>1. pushed + 1 \notin 1..pushed /\ 1..pushed \subseteq 1..(pushed + 1)
    BY <1>1
  <2>2. pushed + 1 \notin Values(s)
    BY <1>3, <2>1 DEF Numbered
  <2>3. Numbered(s)'
    BY <1>1, <1>3, <2>1 DEF Numbered
  <2> QED
    BY <1>2, <2>2, <2>3 DEF Apart
<1>4. Distinct(ETCQueue') /\ Numbered(ETCQueue)'
  BY <1>1, <1>2, <1>3, DistinctAppend DEF UniqueInv, PlacesInv, Numbered
<1>5. PlacesInv'
  BY <1>1, <1>3, <1>4 DEF UniqueInv, RoomInvariant, TypeInv, TypeOK, PlacesInv
<1>6. ServedInv'
  BY <1>1, <1>3 DEF UniqueInv, RoomInvariant, TypeInv, TypeOK, ServedInv
<1> QED
  BY <1>5, <1>6

\* Swapping ETCQueue out gives its chats to one consumer.
LEMMA TakeJobsUnique ==
    ASSUME RoomAssumption, UniqueInv, NEW c \in Consumers, TakeJobs(c)
    PROVE  PlacesInv' /\ ServedInv'
<1>1. /\ ETCQueue' = <<>> /\ localQueue'[c] = ETCQueue
      /\ \A d \in Consumers : d # c => localQueue'[d] = localQueue[d]
      /\ UNCHANGED <<pendingMSG, lpendingMSG, playersSnapshot, sent, pushed>>
  BY DEF UniqueInv, RoomInvariant, TypeInv, TypeOK, TakeJobs, history
<1>2. PlacesInv /\ ServedInv
  BY DEF UniqueInv
<1>3. Distinct(<<>>) /\ Numbered(<<>>)' /\ \A s : Apart(<<>>, s) /\ Apart(s, <<>>)
  BY ValuesEmpty DEF Distinct, Numbered, Apart
<1>4. \A s : Numbered(s) => Numbered(s)'
  BY <1>1 DEF Numbered
<1>5. \A s, t : Apart(s, t) => Apart(t, s)
  BY DEF Apart
<1>6. PlacesInv'
  BY <1>1, <1>2, <1>3, <1>4, <1>5 DEF PlacesInv
<1>7. ServedInv'
  BY <1>1, <1>2, <1>3, <1>4 DEF ServedInv
<1> QED
  BY <1>6, <1>7

\* A job that is executed moves one chat from a consumer's queue to _pendingMSG.
LEMMA BroadcastUnique ==
    ASSUME RoomAssumption, UniqueInv, NEW c \in Consumers, BroadcastSerialized(c)
    PROVE  PlacesInv' /\ ServedInv'
<1> DEFINE n == Head(localQueue[c])
<1>1. /\ localQueue[c] \in Seq(Nat) /\ localQueue[c] # <<>>
      /\ pendingMSG \in Seq(Nat) /\ n \in Nat
  BY DEF UniqueInv, RoomInvariant, TypeInv, TypeOK, BroadcastSerialized, FlushInv, Goto
<1>2. /\ pendingMSG' = Append(pendingMSG, n)
      /\ localQueue'[c] = Tail(localQueue[c])
      /\ \A d \in Consumers : d # c => localQueue'[d] = localQueue[d]
      /\ UNCHANGED <<ETCQueue, lpendingMSG, playersSnapshot, sent, pushed>>
  BY DEF UniqueInv, RoomInvariant, TypeInv, TypeOK, BroadcastSerialized, history
<1>3. PlacesInv /\ ServedInv
  BY DEF UniqueInv
<1>4. /\ Values(localQueue[c]) = {n} \cup Values(localQueue'[c])
      /\ Values(pendingMSG') = Values(pendingMSG) \cup {n}
  BY <1>1, <1>2, ValuesTail, ValuesAppend
<1>5. Distinct(localQueue'[c]) /\ n \notin Values(localQueue'[c])
  BY <1>1, <1>2, <1>3, DistinctTail DEF PlacesInv
<1>6. Distinct(pendingMSG')
  BY <1>1, <1>2, <1>3, <1>4, DistinctAppend DEF PlacesInv, Apart
<1>7. \A s : Apart(localQueue[c], s) =>
                /\ n \notin Values(s) /\ Apart(localQueue'[c], s) /\ Apart(s, localQueue'[c])
                /\ Apart(pendingMSG, s) => Apart(pendingMSG', s) /\ Apart(s, pendingMSG')
  BY <1>4 DEF Apart
<1>8. \A s : Numbered(s) => Numbered(s)'
  BY <1>2 DEF Numbered
<1>9. Numbered(localQueue[c])' /\ Numbered(pendingMSG)'
  BY <1>2, <1>3, <1>4 DEF Numbered, PlacesInv
<1>10. \A s, t : Apart(s, t) => Apart(t, s)
  BY DEF Apart
<1>11. Apart(pendingMSG', localQueue'[c])
  BY <1>3, <1>4, <1>5 DEF PlacesInv, Apart
<1>12. PlacesInv'
  <2>1. /\ Distinct(ETCQueue') /\ Numbered(ETCQueue)'
        /\ Distinct(pendingMSG') /\ Numbered(pendingMSG)'
        /\ Apart(ETCQueue', pendingMSG')
    BY <1>2, <1>3, <1>6, <1>7, <1>8, <1>9, <1>10 DEF PlacesInv
  <2>2. ASSUME NEW d \in Consumers
        PROVE  /\ Distinct(localQueue'[d]) /\ Numbered(localQueue[d])'
               /\ Distinct(lpendingMSG'[d]) /\ Numbered(lpendingMSG[d])'
               /\ Apart(ETCQueue', localQueue'[d]) /\ Apart(ETCQueue', lpendingMSG'[d])
               /\ Apart(pendingMSG', localQueue'[d]) /\ Apart(pendingMSG', lpendingMSG'[d])
    <3>1. CASE d = c
      BY <3>1, <1>2, <1>3, <1>5, <1>7, <1>8, <1>9, <1>10, <1>11 DEF PlacesInv
    <3>2. CASE d # c
      BY <3>2, <1>2, <1>3, <1>7, <1>8, <1>10 DEF PlacesInv
    <3> QED
      BY <3>1, <3>2
  <2>3. ASSUME NEW d \in Consumers, NEW e \in Consumers
        PROVE  /\ Apart(localQueue'[d], lpendingMSG'[e])
               /\ d # e => /\ Apart(localQueue'[d], localQueue'[e])
                           /\ Apart(lpendingMSG'[d], lpendingMSG'[e])
    BY <1>2, <1>3, <1>7, <1>10 DEF PlacesInv
  <2> QED
    BY <2>1, <2>2, <2>3 DEF PlacesInv
<1>13. ServedInv'
  BY <1>2, <1>3, <1>7, <1>8 DEF ServedInv
<1> QED
  BY <1>12, <1>13

\* A snapshot gives _pendingMSG to one consumer, whose last batch is done.
LEMMA SnapshotUnique ==
    ASSUME RoomAssumption, UniqueInv, NEW c \in Consumers, TakeSnapshot(c)
    PROVE  PlacesInv' /\ ServedInv'
<1>1. /\ pendingMSG' = <<>> /\ lpendingMSG'[c] = pendingMSG
      /\ \A d \in Consumers : d # c => /\ lpendingMSG'[d] = lpendingMSG[d]
                                       /\ playersSnapshot'[d] = playersSnapshot[d]
      /\ UNCHANGED <<ETCQueue, localQueue, sent, pushed>>
  BY DEF UniqueInv, RoomInvariant, TypeInv, TypeOK, TakeSnapshot, history
<1>2. PlacesInv /\ ServedInv
  BY DEF UniqueInv
<1>3. Distinct(<<>>) /\ Numbered(<<>>)' /\ \A s : Apart(<<>>, s) /\ Apart(s, <<>>)
  BY ValuesEmpty DEF Distinct, Numbered, Apart
<1>4. \A s : Numbered(s) => Numbered(s)'
  BY <1>1 DEF Numbered
<1>5. \A s, t : Apart(s, t) => Apart(t, s)
  BY DEF Apart
<1>6. PlacesInv'
  BY <1>1, <1>2, <1>3, <1>4, <1>5 DEF PlacesInv
<1>7. ServedInv'
  BY <1>1, <1>2, <1>3, <1>4 DEF ServedInv
<1> QED
  BY <1>6, <1>7

\* A batch is handed to a player of the snapshot once: the player leaves the
\* snapshot, and the chats are in no other place that leads to its session.
LEMMA SendUnique ==
    ASSUME RoomAssumption, UniqueInv, NEW c \in Consumers, NEW p \in Players, SendTo(c, p)
    PROVE  PlacesInv' /\ ServedInv'
<1>1. /\ sent[p] \in Seq(Nat) /\ lpendingMSG[c] \in Seq(Nat)
      /\ p \in playersSnapshot[c] /\ p \notin playersSnapshot'[c]
      /\ \A d \in Consumers : playersSnapshot'[d] \subseteq playersSnapshot[d]
      /\ \A q \in Players : q # p => sent'[q] = sent[q]
      /\ sent'[p] = sent[p] \/ sent'[p] = sent[p] \o lpendingMSG[c]
      /\ UNCHANGED <<ETCQueue, pendingMSG, localQueue, lpendingMSG, pushed>>
  BY DEF UniqueInv, RoomInvariant, TypeInv, TypeOK, SendTo, queues
<1>2. PlacesInv /\ ServedInv
  BY DEF UniqueInv
<1>3. \A s : Numbered(s) => Numbered(s)'
  BY <1>1 DEF Numbered
<1>4. PlacesInv'
  BY <1>1, <1>2, <1>3 DEF PlacesInv
<1>5. ASSUME NEW q \in Players, sent'[q] = sent[q]
      PROVE  /\ Distinct(sent'[q]) /\ Numbered(sent[q])'
             /\ Apart(ETCQueue', sent'[q]) /\ Apart(pendingMSG', sent'[q])
             /\ \A d \in Consumers :
                 /\ Apart(localQueue'[d], sent'[q])
                 /\ q \in playersSnapshot'[d] => Apart(lpendingMSG'[d], sent'[q])
  BY <1>1, <1>2, <1>3, <1>5 DEF ServedInv
<1>6. ASSUME sent'[p] = sent[p] \o lpendingMSG[c]
      PROVE  /\ Distinct(sent'[p]) /\ Numbered(sent[p])'
             /\ Apart(ETCQueue', sent'[p]) /\ Apart(pendingMSG', sent'[p])
             /\ \A d \in Consumers :
                 /\ Apart(localQueue'[d], sent'[p])
                 /\ p \in playersSnapshot'[d] => Apart(lpendingMSG'[d], sent'[p])
  <2>1. Values(sent'[p]) = Values(sent[p]) \cup Values(lpendingMSG[c])
    BY <1>1, <1>6, ValuesConcat
  <2>2. \A s : Apart(s, sent[p]) /\ Apart(s, lpendingMSG[c]) => Apart(s, sent'[p])
    BY <2>1 DEF Apart
  <2>3. Distinct(sent'[p])
    BY <1>1, <1>2, <1>6, DistinctConcat DEF PlacesInv, ServedInv
  <2>4. Numbered(sent[p])'
    BY <1>1, <1>2, <2>1 DEF PlacesInv, ServedInv, Numbered
  <2>5. \A d \in Consumers : p \in playersSnapshot'[d] => d # c /\ p \in playersSnapshot[d]
    BY <1>1
  <2> QED
    BY <1>1, <1>2, <2>2, <2>3, <2>4, <2>5 DEF PlacesInv, ServedInv
<1>7. ServedInv'
  BY <1>1, <1>5, <1>6 DEF ServedInv
<1> QED
  BY <1>4, <1>7

\* No step puts a chat in a second place.
LEMMA StepUnique ==
    ASSUME RoomAssumption, UniqueInv, [Next]_vars PROVE PlacesInv' /\ ServedInv'
<1>0. TypeOK /\ PlacesInv /\ ServedInv
  BY DEF UniqueInv, RoomInvariant, TypeInv
<1>1. ASSUME UNCHANGED <<ETCQueue, pendingMSG, localQueue, lpendingMSG,
                         playersSnapshot, sent, pushed>>
      PROVE  PlacesInv' /\ ServedInv'
  BY <1>0, <1>1 DEF PlacesInv, ServedInv, Numbered
<1>2. ASSUME NEW c \in Consumers, EndFlush(c) PROVE PlacesInv' /\ ServedInv'
  <2>1. /\ lpendingMSG'[c] = <<>>
        /\ \A d \in Consumers : d # c => lpendingMSG'[d] = lpendingMSG[d]
        /\ UNCHANGED <<ETCQueue, pendingMSG, localQueue, playersSnapshot, sent, pushed>>
    BY <1>0, <1>2 DEF TypeOK, EndFlush, queues, history
  <2>2. Distinct(<<>>) /\ Numbered(<<>>)' /\ \A s : Apart(<<>>, s) /\ Apart(s, <<>>)
    BY ValuesEmpty DEF Distinct, Numbered, Apart
  <2>3. \A s : Numbered(s) => Numbered(s)'
    BY <2>1 DEF Numbered
  <2> QED
    BY <1>0, <2>1, <2>2, <2>3 DEF PlacesInv, ServedInv
<1>3. ASSUME NEW w \in Workers, WorkerNext(w) PROVE PlacesInv' /\ ServedInv'
  <2>1. CASE PushETCJob(w)
    BY <2>1, PushUnique
  <2>2. CASE ~PushETCJob(w)
    BY <1>1, <1>3, <2>2 DEF WorkerNext, LockEnter, EnterObject, LockExit, ExitObject,
       LockPush, NotifyOne, data, queues, locals, history
  <2> QED
    BY <2>1, <2>2
<1>4. ASSUME NEW c \in Consumers, FlushStep(c) \/ SpuriousWakeup(c)
      PROVE  PlacesInv' /\ ServedInv'
  <2>1. CASE LockFlush(c) \/ WaitForJobs(c) \/ LockBroadcast(c) \/ LockSnapshot(c)
               \/ SpuriousWakeup(c)
    BY <1>1, <2>1 DEF LockFlush, WaitForJobs, LockBroadcast, LockSnapshot,
       SpuriousWakeup, data, queues, locals, history
  <2> QED
    BY <1>2, <1>4, <2>1, TakeJobsUnique, BroadcastUnique, SnapshotUnique, SendUnique
       DEF FlushStep
<1>5. ASSUME NEW p \in Players, SessionExpires(p) PROVE PlacesInv' /\ ServedInv'
  BY <1>1, <1>5 DEF SessionExpires, queues, locals, history
<1>6. CASE UNCHANGED vars
  BY <1>1, <1>6 DEF vars, data, queues, locals, history
<1> QED
  BY <1>3, <1>4, <1>5, <1>6 DEF Next

\* A chat and what a session was handed stay in one place each, in every
\* reachable state of a room with any number of consumers.
THEOREM UniqueInvariance == Spec => []UniqueInv
<1> USE RoomAssumption
<1>1. Init => UniqueInv
  BY InitRoomInv, InitUnique DEF UniqueInv
<1>2. UniqueInv /\ [Next]_vars => UniqueInv'
  BY StepRoomInv, StepUnique DEF UniqueInv
<1> QED
  BY <1>1, <1>2, PTL DEF Spec

\* However many consumers run Flush, no session is handed a chat twice (Room.cpp
\* 79-135), for any numbers of workers, consumers, players and chats.
THEOREM NoChatTwice == Spec => []NoDuplicates
<1>1. UniqueInv => NoDuplicates
  BY DEF UniqueInv, ServedInv, Distinct, NoDuplicates
<1> QED
  BY <1>1, UniqueInvariance, PTL
==============================================================================
