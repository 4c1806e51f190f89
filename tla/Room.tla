-------------------------------- MODULE Room --------------------------------
(***************************************************************************)
(* The room of the chat server: Room.h, Room.cpp.                          *)
(*                                                                         *)
(* Worker threads of the io_context call EnterObject, ExitObject and       *)
(* PushETCJob; detached consumer threads run Flush.  All of them share one *)
(* non-recursive mutex (_lock) and one condition variable (cv).            *)
(*                                                                         *)
(* A critical section is two steps, taking _lock and running the body up   *)
(* to the release, so that what a thread does while it holds the lock, and *)
(* what it does between two critical sections, is visible to the others.   *)
(* PushETCJob notifies cv AFTER it has released _lock.                     *)
(*                                                                         *)
(* A job is the closure Handle_C_CHAT builds: it carries one serialized    *)
(* chat to BroadcastSerialized.  Chats are abstracted to their number in   *)
(* the order in which PushETCJob put them on ETCQueue.                     *)
(*                                                                         *)
(* ExitObject and the expiry of a session (the weak_ptr in Player) are     *)
(* part of the room's interface; nothing in the repository calls           *)
(* ExitObject or SessionManager::RemoveSession yet.                        *)
(***************************************************************************)
EXTENDS Integers, Sequences

CONSTANTS
    Workers,      \* io_context threads (tWorkerThread of them)
    Consumers,    \* Flush threads (CONSUMERS_PER_QUEUE of them)
    Players,      \* Player objects; each is entered once, by its own session
    NoThread,     \* owner of a free mutex
    NoObject,     \* argument of a worker that is in no EnterObject/ExitObject
    MaxPush       \* bound: number of chats pushed in a behaviour

ASSUME RoomAssumption ==
    /\ Workers \cap Consumers = {}
    /\ NoThread \notin Workers \cup Consumers
    /\ NoObject \notin Players
    /\ MaxPush \in Nat

VARIABLES
    lock,             \* Room::_lock: its owner
    pc,               \* where each thread is
    obj,              \* obj[w]: argument of w's EnterObject/ExitObject
    players,          \* Room::_players
    ETCQueue,         \* Room::ETCQueue
    pendingMSG,       \* Room::_pendingMSG
    localQueue,       \* Flush's localQueue, one per consumer
    lpendingMSG,      \* Flush's lpendingMSG
    playersSnapshot,  \* Flush's playersSnapshot, less the players served
    expired,          \* players whose weak_ptr<Session> has expired
    pushed,           \* history: number of chats put on ETCQueue
    joined,           \* history: joined[p] is pushed when p entered
    sent              \* history: sent[p] is what Session::Send was given for p

queues  == <<ETCQueue, pendingMSG>>
locals  == <<localQueue, lpendingMSG, playersSnapshot>>
history == <<pushed, joined, sent>>
data    == <<players, queues, locals, expired, history>>

vars == <<lock, pc, obj, data>>

Threads == Workers \cup Consumers

NotYet == -1

\* Labels at which a thread owns _lock.
WorkerHolds   == {"push", "enter", "exit"}
ConsumerHolds == {"check", "broadcast", "snapshot"}

WorkerLabels   == WorkerHolds \cup {"idle", "notify"}
ConsumerLabels == ConsumerHolds \cup {"lock", "waiting", "execute", "send"}

TypeOK ==
    /\ lock \in Threads \cup {NoThread}
    /\ pc \in [Threads -> WorkerLabels \cup ConsumerLabels]
    /\ \A w \in Workers : pc[w] \in WorkerLabels
    /\ \A c \in Consumers : pc[c] \in ConsumerLabels
    /\ obj \in [Workers -> Players \cup {NoObject}]
    /\ players \in SUBSET Players
    /\ ETCQueue \in Seq(Nat)
    /\ pendingMSG \in Seq(Nat)
    /\ localQueue \in [Consumers -> Seq(Nat)]
    /\ lpendingMSG \in [Consumers -> Seq(Nat)]
    /\ playersSnapshot \in [Consumers -> SUBSET Players]
    /\ expired \in SUBSET Players
    /\ pushed \in Nat
    /\ joined \in [Players -> Nat \cup {NotYet}]
    /\ sent \in [Players -> Seq(Nat)]

Init ==
    /\ lock = NoThread
    /\ pc = [t \in Threads |-> IF t \in Workers THEN "idle" ELSE "lock"]
    /\ obj = [w \in Workers |-> NoObject]
    /\ players = {}
    /\ ETCQueue = <<>>
    /\ pendingMSG = <<>>
    /\ localQueue = [c \in Consumers |-> <<>>]
    /\ lpendingMSG = [c \in Consumers |-> <<>>]
    /\ playersSnapshot = [c \in Consumers |-> {}]
    /\ expired = {}
    /\ pushed = 0
    /\ joined = [p \in Players |-> NotYet]
    /\ sent = [p \in Players |-> <<>>]

-----------------------------------------------------------------------------
(* The mutex and the condition variable. *)

Goto(t, from, to) ==
    /\ pc[t] = from
    /\ pc' = [pc EXCEPT ![t] = to]

Acquire(t) ==
    /\ lock = NoThread
    /\ lock' = t

Release == lock' = NoThread

-----------------------------------------------------------------------------
(* Worker threads. *)

\* Faulty variant: the object is not handed to the call.
LockEnterNull(w, p) ==
    /\ joined[p] = NotYet
    /\ Goto(w, "idle", "enter")
    /\ Acquire(w)
    /\ UNCHANGED <<obj, data>>

\* EnterObject: Session::EnterRoom has just made the player, so no other
\* call enters it.
LockEnter(w, p) ==
    /\ joined[p] = NotYet
    /\ \A v \in Workers : obj[v] # p
    /\ Goto(w, "idle", "enter")
    /\ Acquire(w)
    /\ obj' = [obj EXCEPT ![w] = p]
    /\ UNCHANGED data

EnterObject(w) ==
    /\ Goto(w, "enter", "idle")
    /\ players' = players \cup {obj[w]}
    /\ joined' = [joined EXCEPT ![obj[w]] = pushed]
    /\ obj' = [obj EXCEPT ![w] = NoObject]
    /\ Release
    /\ UNCHANGED <<queues, locals, expired, pushed, sent>>

LockExit(w, p) ==
    /\ p \in players
    /\ Goto(w, "idle", "exit")
    /\ Acquire(w)
    /\ obj' = [obj EXCEPT ![w] = p]
    /\ UNCHANGED data

ExitObject(w) ==
    /\ Goto(w, "exit", "idle")
    /\ players' = players \ {obj[w]}
    /\ obj' = [obj EXCEPT ![w] = NoObject]
    /\ Release
    /\ UNCHANGED <<queues, locals, expired, history>>

LockPush(w) ==
    /\ pushed < MaxPush
    /\ Goto(w, "idle", "push")
    /\ Acquire(w)
    /\ UNCHANGED <<obj, data>>

PushETCJob(w) ==
    /\ Goto(w, "push", "notify")
    /\ pushed' = pushed + 1
    /\ ETCQueue' = Append(ETCQueue, pushed + 1)
    /\ Release
    /\ UNCHANGED <<obj, players, pendingMSG, locals, expired, joined, sent>>

\* Faulty variant: PushETCJob returns without cv.notify_one.
NotifyNobody(w) ==
    /\ Goto(w, "notify", "idle")
    /\ UNCHANGED <<lock, obj, data>>

\* cv.notify_one: one of the waiting consumers goes for the lock again.  With
\* nobody waiting the notification is lost.
NotifyOne(w) ==
    /\ pc[w] = "notify"
    /\ \/ \E c \in Consumers :
            /\ pc[c] = "waiting"
            /\ pc' = [pc EXCEPT ![w] = "idle", ![c] = "lock"]
       \/ /\ \A c \in Consumers : pc[c] # "waiting"
          /\ pc' = [pc EXCEPT ![w] = "idle"]
    /\ UNCHANGED <<lock, obj, data>>

\* The last shared_ptr to p's session goes: Player::GetSession is null from
\* now on.
SessionExpires(p) ==
    /\ joined[p] # NotYet
    /\ p \notin expired
    /\ expired' = expired \cup {p}
    /\ UNCHANGED <<lock, pc, obj, players, queues, locals, history>>

-----------------------------------------------------------------------------
(* Consumer threads: the body of Flush. *)

\* The consumer takes _lock to evaluate cv.wait's predicate, the first time or
\* after a wake-up.
LockFlush(c) ==
    /\ Goto(c, "lock", "check")
    /\ Acquire(c)
    /\ UNCHANGED <<obj, data>>

\* The predicate is false: cv.wait releases _lock and blocks, atomically.
WaitForJobs(c) ==
    /\ ETCQueue = <<>>
    /\ Goto(c, "check", "waiting")
    /\ Release
    /\ UNCHANGED <<obj, data>>

SpuriousWakeup(c) ==
    /\ Goto(c, "waiting", "lock")
    /\ UNCHANGED <<lock, obj, data>>

\* The predicate holds: swap the whole queue out and release _lock.
TakeJobs(c) ==
    /\ ETCQueue # <<>>
    /\ Goto(c, "check", "execute")
    /\ localQueue' = [localQueue EXCEPT ![c] = ETCQueue]
    /\ ETCQueue' = <<>>
    /\ Release
    /\ UNCHANGED <<obj, players, pendingMSG, lpendingMSG, playersSnapshot,
                   expired, history>>

\* localQueue.front().Execute() calls BroadcastSerialized, which takes _lock.
LockBroadcast(c) ==
    /\ localQueue[c] # <<>>
    /\ Goto(c, "execute", "broadcast")
    /\ Acquire(c)
    /\ UNCHANGED <<obj, data>>

\* Faulty variant: the jobs are executed newest first.
BroadcastNewest(c) ==
    /\ Goto(c, "broadcast", "execute")
    /\ LET n == Len(localQueue[c])
       IN  /\ pendingMSG' = Append(pendingMSG, localQueue[c][n])
           /\ localQueue' = [localQueue EXCEPT ![c] = SubSeq(@, 1, n - 1)]
    /\ Release
    /\ UNCHANGED <<obj, players, ETCQueue, lpendingMSG, playersSnapshot,
                   expired, history>>

BroadcastSerialized(c) ==
    /\ Goto(c, "broadcast", "execute")
    /\ pendingMSG' = Append(pendingMSG, Head(localQueue[c]))
    /\ localQueue' = [localQueue EXCEPT ![c] = Tail(@)]
    /\ Release
    /\ UNCHANGED <<obj, players, ETCQueue, lpendingMSG, playersSnapshot,
                   expired, history>>

LockSnapshot(c) ==
    /\ localQueue[c] = <<>>
    /\ Goto(c, "execute", "snapshot")
    /\ Acquire(c)
    /\ UNCHANGED <<obj, data>>

\* Faulty variant: _pendingMSG is copied instead of swapped.
SnapshotCopies(c) ==
    /\ Goto(c, "snapshot", "send")
    /\ lpendingMSG' = [lpendingMSG EXCEPT ![c] = pendingMSG]
    /\ playersSnapshot' = [playersSnapshot EXCEPT ![c] = players]
    /\ Release
    /\ UNCHANGED <<obj, players, queues, localQueue, expired, history>>

TakeSnapshot(c) ==
    /\ Goto(c, "snapshot", "send")
    /\ lpendingMSG' = [lpendingMSG EXCEPT ![c] = pendingMSG]
    /\ pendingMSG' = <<>>
    /\ playersSnapshot' = [playersSnapshot EXCEPT ![c] = players]
    /\ Release
    /\ UNCHANGED <<obj, players, ETCQueue, localQueue, expired, history>>

\* One turn of the loop over the snapshot, in the map's arbitrary order and
\* without _lock.  Session::Send ignores an empty list.
SendTo(c, p) ==
    /\ pc[c] = "send"
    /\ p \in playersSnapshot[c]
    /\ playersSnapshot' = [playersSnapshot EXCEPT ![c] = @ \ {p}]
    /\ sent' = IF p \in expired THEN sent
               ELSE [sent EXCEPT ![p] = @ \o lpendingMSG[c]]
    /\ UNCHANGED <<lock, pc, obj, players, queues, localQueue, lpendingMSG,
                   expired, pushed, joined>>

\* Faulty variant: ETCQueue is cleared once its jobs have been sent.
EndFlushClearsJobs(c) ==
    /\ playersSnapshot[c] = {}
    /\ Goto(c, "send", "lock")
    /\ lpendingMSG' = [lpendingMSG EXCEPT ![c] = <<>>]
    /\ ETCQueue' = <<>>
    /\ UNCHANGED <<lock, obj, players, pendingMSG, localQueue,
                   playersSnapshot, expired, history>>

\* Faulty variant: _pendingMSG is cleared once the batch has been sent.
EndFlushClearsPending(c) ==
    /\ playersSnapshot[c] = {}
    /\ Goto(c, "send", "lock")
    /\ lpendingMSG' = [lpendingMSG EXCEPT ![c] = <<>>]
    /\ pendingMSG' = <<>>
    /\ UNCHANGED <<lock, obj, players, ETCQueue, localQueue, playersSnapshot,
                   expired, history>>

\* The end of Flush's loop body: its locals are destroyed.
EndFlush(c) ==
    /\ playersSnapshot[c] = {}
    /\ Goto(c, "send", "lock")
    /\ lpendingMSG' = [lpendingMSG EXCEPT ![c] = <<>>]
    /\ UNCHANGED <<lock, obj, players, queues, localQueue, playersSnapshot,
                   expired, history>>

-----------------------------------------------------------------------------

WorkerNext(w) ==
    \/ \E p \in Players : LockEnter(w, p)
    \/ EnterObject(w)
    \/ \E p \in Players : LockExit(w, p)
    \/ ExitObject(w)
    \/ LockPush(w)
    \/ PushETCJob(w)
    \/ NotifyOne(w)

FlushStep(c) ==
    \/ LockFlush(c)
    \/ WaitForJobs(c)
    \/ TakeJobs(c)
    \/ LockBroadcast(c)
    \/ BroadcastSerialized(c)
    \/ LockSnapshot(c)
    \/ TakeSnapshot(c)
    \/ \E p \in Players : SendTo(c, p)
    \/ EndFlush(c)

Next ==
    \/ \E w \in Workers : WorkerNext(w)
    \/ \E c \in Consumers : FlushStep(c) \/ SpuriousWakeup(c)
    \/ \E p \in Players : SessionExpires(p)

Spec == Init /\ [][Next]_vars

\* A thread that is running keeps running: a worker finishes the call it is in
\* and a consumer keeps going around Flush.  Nobody has to make a call and nothing
\* has to expire.  cv.wait may return spuriously, but does not do so forever.
Fairness ==
    /\ \A w \in Workers : WF_vars(EnterObject(w) \/ ExitObject(w)
                                    \/ PushETCJob(w) \/ NotifyOne(w))
    /\ \A c \in Consumers : WF_vars(FlushStep(c))
    /\ <>[][\A c \in Consumers : ~SpuriousWakeup(c)]_vars

FairSpec == Spec /\ Fairness

-----------------------------------------------------------------------------
(* Properties. *)

Values(s) == {s[i] : i \in DOMAIN s}

\* Chat n has been accepted and is on its way to p: on one of the queues of the
\* room, or in a batch that has p in its snapshot.
InTransit(n, p) ==
    \/ n \in Values(ETCQueue)
    \/ n \in Values(pendingMSG)
    \/ \E c \in Consumers :
        \/ n \in Values(localQueue[c])
        \/ p \in playersSnapshot[c] /\ n \in Values(lpendingMSG[c])

\* No chat is lost between PushETCJob and Session::Send (Room.cpp 68-131): a
\* chat pushed after a player entered has been handed to the player's session or
\* is still on its way, as long as the player stays and has a session.  Queues
\* are swapped and snapshots taken in separate critical sections, so this is
\* about every place where a chat or a player could fall between two of them.
NothingLost ==
    \A p \in players \ expired : \A n \in (joined[p] + 1)..pushed :
        n \in Values(sent[p]) \/ InTransit(n, p)

\* One consumer hands every player consecutive chats in the order in which they
\* were pushed (Room.cpp 79-135), so all players see one order.
SameOrder ==
    \A p \in Players : \A i \in DOMAIN sent[p] : sent[p][i] = sent[p][1] + i - 1

\* However many consumers run Flush, no session is handed a chat twice: the
\* swaps of ETCQueue and _pendingMSG (Room.cpp 100, 117) give each chat to one
\* consumer only.
NoDuplicates ==
    \A p \in Players : \A i, j \in DOMAIN sent[p] : sent[p][i] = sent[p][j] => i = j

\* Every chat pushed while a player is in the room reaches the player's session,
\* unless the player leaves or the session goes first.  This is where a lost
\* wake-up or a consumer blocked on a lock it already owns would show: PushETCJob
\* notifies after it has released _lock (Room.cpp 70-76), and Flush may be
\* anywhere in its loop when that happens.
EveryChatArrives ==
    \A p \in Players, n \in 1..MaxPush :
        (p \in players /\ joined[p] < n /\ n <= pushed)
            ~> (n \in Values(sent[p]) \/ p \notin players \/ p \in expired)

\* With one consumer the room implements the broadcast log of ChatBroadcast: the
\* threads, the queues and the lock are invisible.
Broadcast == INSTANCE ChatBroadcast

ImplementsBroadcast == Broadcast!Spec
==============================================================================
