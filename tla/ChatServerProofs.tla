-------------------------- MODULE ChatServerProofs --------------------------
(***************************************************************************)
(* Theorems about the server, for any numbers of workers, consumers,       *)
(* connections and chats.                                                  *)
(***************************************************************************)
EXTENDS ChatServer, RoomOrderProofs

USE DEF data, queues, locals, history, clients, index, started, session

(***************************************************************************)
(* The inductive invariant.                                                *)
(***************************************************************************)

\* A worker between AcceptComplete and FirstRecv: its session has no read yet.
BeforeRead == {"addSession", "start", "enterRoom", "entering", "registerRecv"}

\* Nothing of the server knows p.
Untouched(p) ==
    /\ socket[p] = "null" /\ ~hasPlayer[p] /\ ~readOp[p]
    /\ \A id \in DOMAIN sessions : sessions[id] # p

Indexed(p) == \E id \in DOMAIN sessions : sessions[id] = p

\* A handler has a session, and one that starts a session has it for itself.
HandlerInv ==
    \A w \in Workers :
        /\ at[w] \in BeforeRead \cup Receiving => cur[w] \in Players
        /\ at[w] = "idle" => cur[w] = NoObject
        /\ at[w] \in BeforeRead =>
            /\ ~readOp[cur[w]]
            /\ \A v \in Workers : cur[v] = cur[w] => v = w

\* A connection that has not been accepted is known to nobody.
NewInv ==
    \A p \in Players : conn[p] \in {"none", "backlog"} =>
        /\ Untouched(p)
        /\ \A w \in Workers : cur[w] # p

\* What Start has done for the session, position by position.
StartInv ==
    \A w \in Workers :
        /\ at[w] = "addSession" => Untouched(cur[w])
        /\ at[w] = "start" => Indexed(cur[w])
        /\ at[w] = "enterRoom" => Indexed(cur[w]) /\ socket[cur[w]] # "null"
        /\ at[w] = "entering" => /\ obj[w] = cur[w] /\ hasPlayer[cur[w]]
                                 /\ socket[cur[w]] # "null"
        /\ at[w] = "registerRecv" => hasPlayer[cur[w]] /\ cur[w] \in players

\* Whoever may receive is in the room; the ids of the map have been given out.
ReadyInv ==
    /\ \A p \in Players : readOp[p] => hasPlayer[p] /\ p \in players
    /\ \A c \in Consumers : playersSnapshot[c] \subseteq players
    /\ \A id \in DOMAIN sessions : id < ClientNo

\* A worker in PushETCJob has its chat in the buffer still.
PushInv == \A w \in Workers : at[w] = "pushing" => recvBuffer[cur[w]] # <<>>

SessionInv ==
    /\ ServerTypeOK /\ RoomInvariant
    /\ HandlerInv /\ NewInv /\ StartInv /\ ReadyInv /\ PushInv
    /\ AcceptChain /\ RecvExclusive /\ StartedBeforeUse /\ SessionsIndexed

\* The receive buffer holds the chats that follow the last one handled ...
RecvBufferInv ==
    \A p \in Players :
        /\ Len(recvBuffer[p]) <= fetched[p]
        /\ Follows(recvBuffer[p], fetched[p] - Len(recvBuffer[p]))

\* ... and its first one stays in it until the push has been announced.
Announced(p) == \E w \in Workers : at[w] = "pushing" /\ cur[w] = p /\ pc[w] = "notify"

Done(p) == fetched[p] - Len(recvBuffer[p]) + IF Announced(p) THEN 1 ELSE 0

Mine(p) == {i \in DOMAIN author : author[i][1] = p}

\* The log has the chats of p up to the one it is at, each once and in order.
InLog(p) ==
    /\ \A i \in Mine(p) : author[i][2] \in 1..Done(p)
    /\ \A i, j \in Mine(p) : i < j => author[i][2] < author[j][2]
    /\ \A k \in 1..Done(p) : \E j \in Mine(p) : author[j][2] = k

SenderInv ==
    /\ SessionInv
    /\ RecvBufferInv
    /\ Len(author) = pushed
    /\ \A p \in Players : InLog(p)

(***************************************************************************)
(* The room inside the server.                                             *)
(***************************************************************************)

\* Every step of the server is a step of the room or leaves it alone.
LEMMA ServerRoomStep ==
    ASSUME HandlerInv, [ServerNext]_allvars PROVE [Next]_vars
<1>1. ASSUME NEW w \in Workers, Worker(w) PROVE [Next]_vars
  <2>1. CASE EnterRoom(w)
    <3>1. LockEnter(w, cur[w])
      BY <2>1 DEF EnterRoom
    <3>2. cur[w] \in Players
      BY <2>1 DEF EnterRoom, Step, HandlerInv, BeforeRead
    <3> QED
      BY <3>1, <3>2 DEF Next, WorkerNext
  <2>2. CASE Entered(w) \/ HandleChat(w) \/ PushChat(w) \/ ChatHandled(w)
    BY <2>2 DEF Entered, HandleChat, PushChat, ChatHandled, Next, WorkerNext
  <2>3. CASE UNCHANGED vars
    BY <2>3
  <2> QED
    BY <1>1, <2>1, <2>2, <2>3 DEF Worker, AcceptComplete, AcceptError, AddSession,
       Start, FirstRecv, DoAccept, RecvComplete, NextRecv, RecvClose
<1>2. ASSUME NEW p \in Players, Client(p) PROVE UNCHANGED vars
  BY <1>2 DEF Client, Connect, ClientChat, Disconnect
<1>3. ASSUME NEW c \in Consumers, Flush(c) \/ SpuriousWakeup(c) PROVE Next
  BY <1>3 DEF Flush, Next
<1>4. CASE UNCHANGED allvars
  BY <1>4 DEF allvars
<1> QED
  BY <1>1, <1>2, <1>3, <1>4 DEF ServerNext

\* A step of a Flush thread leaves everything around the room alone, and adds
\* nobody to the room.
LEMMA FlushLeaves ==
    ASSUME NEW c \in Consumers, Flush(c) \/ (SpuriousWakeup(c) /\ UNCHANGED svars)
    PROVE  UNCHANGED <<svars, players, obj, joined, pushed>>
<1>1. UNCHANGED svars
  BY DEF Flush
<1>2. FlushStep(c) \/ SpuriousWakeup(c)
  BY DEF Flush
<1>3. UNCHANGED <<players, obj, joined, pushed>>
  BY <1>2 DEF FlushStep, SpuriousWakeup, LockFlush, WaitForJobs, TakeJobs, LockBroadcast,
     BroadcastSerialized, LockSnapshot, TakeSnapshot, SendTo, EndFlush
<1> QED
  BY <1>1, <1>3

(***************************************************************************)
(* Sessions.                                                               *)
(***************************************************************************)

\* The server's variables keep their types.
LEMMA StepServerType ==
    ASSUME RoomAssumption, SessionInv, TypeOK', ServerNext PROVE ServerTypeOK'
<1>T. ServerTypeOK /\ HandlerInv /\ PushInv
  BY DEF SessionInv
<1>1. ASSUME NEW p \in Players, Client(p) PROVE ServerTypeOK'
  <2>1. CASE Connect(p)
    BY <2>1, <1>T DEF Connect, ServerTypeOK
  <2>2. CASE ClientChat(p)
    BY <2>2, <1>T DEF ClientChat, ServerTypeOK
  <2>3. CASE Disconnect(p)
    BY <2>3, <1>T DEF Disconnect, ServerTypeOK
  <2> QED
    BY <1>1, <2>1, <2>2, <2>3 DEF Client
<1>2. ASSUME NEW w \in Workers, Worker(w) PROVE ServerTypeOK'
  <2>1. ASSUME NEW p \in Players, AcceptComplete(w, p) \/ AcceptError(w, p)
        PROVE  ServerTypeOK'
    <3>1. CASE AcceptComplete(w, p)
      BY <3>1, <1>T DEF AcceptComplete, Step, ServerTypeOK, Accepting
    <3>2. CASE AcceptError(w, p)
      BY <3>2, <1>T DEF AcceptError, Step, ServerTypeOK, Accepting
    <3> QED
      BY <2>1, <3>1, <3>2
  <2>2. CASE AddSession(w)
    <3>1. cur[w] \in Players
      BY <2>2, <1>T DEF AddSession, Step, HandlerInv, BeforeRead
    <3>2. /\ DOMAIN sessions' = DOMAIN sessions \cup {ClientNo}
          /\ \A id \in DOMAIN sessions' : sessions'[id] \in Players
      BY <2>2, <3>1, <1>T DEF AddSession, Emplace, ServerTypeOK
    <3> QED
      BY <2>2, <3>2, <1>T DEF AddSession, Step, ServerTypeOK, Accepting
  <2>3. CASE Start(w)
    BY <2>3, <1>T DEF Start, Step, ServerTypeOK, Accepting
  <2>4. CASE EnterRoom(w) \/ Entered(w)
    BY <2>4, <1>T DEF EnterRoom, Entered, Step, ServerTypeOK, Accepting
  <2>5. CASE FirstRecv(w) \/ DoAccept(w)
    BY <2>5, <1>T DEF FirstRecv, DoAccept, Step, ServerTypeOK, Accepting
  <2>6. ASSUME NEW p \in Players, NEW n \in 1..MaxChats, RecvComplete(w, p, n)
        PROVE  ServerTypeOK'
    <3>1. fetched[p] \in Nat /\ recvBuffer[p] \in Seq(Nat)
      BY <1>T DEF ServerTypeOK
    <3>2. n \in Nat
      OBVIOUS
    <3>3. [i \in 1..n |-> fetched[p] + i] \in Seq(Nat)
      BY <3>1, <3>2
    <3>4. recvBuffer[p] \o [i \in 1..n |-> fetched[p] + i] \in Seq(Nat)
      BY <3>1, <3>3
    <3>5. fetched' \in [Players -> Nat] /\ recvBuffer' \in [Players -> Seq(Nat)]
      BY <2>6, <3>1, <3>2, <3>4, <1>T DEF RecvComplete, ServerTypeOK
    <3> QED
      BY <2>6, <3>5, <1>T DEF RecvComplete, Step, ServerTypeOK, Receiving
  <2>7. CASE HandleChat(w)
    BY <2>7, <1>T DEF HandleChat, Step, ServerTypeOK, Receiving
  <2>8. ASSUME at[w] = "pushing"
        PROVE  /\ cur[w] \in Players /\ recvBuffer[cur[w]] \in Seq(Nat)
               /\ Head(recvBuffer[cur[w]]) \in Nat /\ Tail(recvBuffer[cur[w]]) \in Seq(Nat)
    <3>1. cur[w] \in Players /\ recvBuffer[cur[w]] \in Seq(Nat) /\ recvBuffer[cur[w]] # <<>>
      BY <2>8, <1>T DEF HandlerInv, PushInv, Receiving, ServerTypeOK
    <3> QED
      BY <3>1
  <2>9. CASE PushChat(w)
    <3>1. <<cur[w], Head(recvBuffer[cur[w]])>> \in Players \X Nat
      BY <2>8, <2>9 DEF PushChat
    <3>2. author' \in Seq(Players \X Nat)
      BY <2>9, <3>1, <1>T DEF PushChat, ServerTypeOK
    <3> QED
      BY <2>9, <3>2, <1>T DEF PushChat, ServerTypeOK
  <2>10. CASE ChatHandled(w)
    <3>1. recvBuffer' \in [Players -> Seq(Nat)]
      BY <2>8, <2>10, <1>T DEF ChatHandled, Step, ServerTypeOK
    <3> QED
      BY <2>10, <3>1, <1>T DEF ChatHandled, Step, ServerTypeOK, Receiving
  <2>11. CASE NextRecv(w)
    BY <2>11, <1>T DEF NextRecv, Step, ServerTypeOK, Receiving
  <2>12. ASSUME NEW p \in Players, RecvClose(w, p) PROVE ServerTypeOK'
    BY <2>12, <1>T DEF RecvClose, ServerTypeOK
  <2> QED
    BY <1>2, <2>1, <2>2, <2>3, <2>4, <2>5, <2>6, <2>7, <2>9, <2>10, <2>11, <2>12
       DEF Worker
<1>3. ASSUME NEW c \in Consumers, Flush(c) \/ (SpuriousWakeup(c) /\ UNCHANGED svars)
      PROVE  ServerTypeOK'
  BY <1>3, <1>T DEF Flush, svars, ServerTypeOK
<1> QED
  BY <1>1, <1>2, <1>3 DEF ServerNext

\* An id is new, so emplace adds the session and AddSession returns it.
LEMMA AddSessionKeeps ==
    ASSUME SessionInv, NEW w \in Workers, AddSession(w)
    PROVE  /\ cur' = cur /\ ClientNo \in Nat /\ ClientNo \notin DOMAIN sessions
           /\ DOMAIN sessions' = DOMAIN sessions \cup {ClientNo}
           /\ sessions'[ClientNo] = cur[w]
           /\ \A id \in DOMAIN sessions : sessions'[id] = sessions[id]
<1>1. /\ ClientNo \in Nat /\ DOMAIN sessions \in SUBSET Nat
      /\ \A id \in DOMAIN sessions : id < ClientNo
      /\ cur \in [Workers -> Players \cup {NoObject}]
  BY DEF SessionInv, ServerTypeOK, ReadyInv
<1>2. ClientNo \notin DOMAIN sessions
  BY <1>1
<1>3. /\ DOMAIN sessions' = DOMAIN sessions \cup {ClientNo}
      /\ sessions'[ClientNo] = cur[w]
      /\ \A id \in DOMAIN sessions : sessions'[id] = sessions[id]
  BY <1>2 DEF AddSession, Emplace
<1>4. cur' = cur
  BY <1>1, <1>3 DEF AddSession
<1> QED
  BY <1>1, <1>2, <1>3, <1>4

\* The accept chain neither breaks nor forks.
LEMMA StepAcceptChain ==
    ASSUME SessionInv, ServerNext PROVE AcceptChain'
<1>T. /\ at \in [Workers -> Accepting \cup Receiving \cup {"idle"}]
      /\ acceptor \in {"listening", "handling"} /\ AcceptChain
  BY DEF SessionInv, ServerTypeOK
<1>S. ASSUME UNCHANGED acceptor, \A v \in Workers : at'[v] \in Accepting <=> at[v] \in Accepting
      PROVE  AcceptChain'
  BY <1>S, <1>T DEF AcceptChain
<1>1. ASSUME NEW p \in Players, Client(p) PROVE AcceptChain'
  BY <1>1, <1>S DEF Client, Connect, ClientChat, Disconnect
<1>2. ASSUME NEW w \in Workers, Worker(w) PROVE AcceptChain'
  <2>1. ASSUME NEW p \in Players, AcceptComplete(w, p) \/ AcceptError(w, p)
        PROVE  AcceptChain'
    <3>1. /\ acceptor' = "handling" /\ at'[w] \in Accepting
          /\ \A v \in Workers : v # w => at'[v] \notin Accepting
      BY <2>1, <1>T DEF AcceptComplete, AcceptError, Step, AcceptChain, Accepting
    <3> QED
      BY <3>1 DEF AcceptChain
  <2>2. CASE AddSession(w) \/ Start(w) \/ EnterRoom(w) \/ Entered(w) \/ FirstRecv(w)
    BY <2>2, <1>S, <1>T DEF AddSession, Start, EnterRoom, Entered, FirstRecv, Step, Accepting
  <2>3. CASE DoAccept(w)
    <3>1. acceptor = "handling" /\ \A v \in Workers : at[v] \in Accepting => v = w
      BY <2>3, <1>T DEF DoAccept, Step, AcceptChain, Accepting
    <3>2. acceptor' = "listening" /\ \A v \in Workers : at'[v] \notin Accepting
      BY <2>3, <3>1, <1>T DEF DoAccept, Step, Accepting
    <3> QED
      BY <3>2 DEF AcceptChain
  <2>4. ASSUME NEW p \in Players, NEW n \in 1..MaxChats, RecvComplete(w, p, n)
        PROVE  AcceptChain'
    BY <2>4, <1>S, <1>T DEF RecvComplete, Step, Accepting
  <2>5. CASE HandleChat(w) \/ PushChat(w) \/ ChatHandled(w) \/ NextRecv(w)
    BY <2>5, <1>S, <1>T DEF HandleChat, PushChat, ChatHandled, NextRecv, Step, Accepting
  <2>6. ASSUME NEW p \in Players, RecvClose(w, p) PROVE AcceptChain'
    BY <2>6, <1>S DEF RecvClose
  <2> QED
    BY <1>2, <2>1, <2>2, <2>3, <2>4, <2>5, <2>6 DEF Worker
<1>3. ASSUME NEW c \in Consumers, Flush(c) \/ (SpuriousWakeup(c) /\ UNCHANGED svars)
      PROVE  AcceptChain'
  BY <1>3, <1>S, FlushLeaves DEF svars
<1> QED
  BY <1>1, <1>2, <1>3 DEF ServerNext

\* A handler has its session, and a session that starts has one handler.
LEMMA StepHandlerInv ==
    ASSUME RoomAssumption, SessionInv, ServerNext PROVE HandlerInv'
<1> USE RoomAssumption DEF RoomAssumption, BeforeRead, Receiving
<1>T. /\ at \in [Workers -> Accepting \cup Receiving \cup {"idle"}]
      /\ cur \in [Workers -> Players \cup {NoObject}]
      /\ readOp \in [Players -> BOOLEAN] /\ HandlerInv
  BY DEF SessionInv, ServerTypeOK
<1>1. ASSUME NEW p \in Players, Client(p) PROVE HandlerInv'
  BY <1>1, <1>T DEF Client, Connect, ClientChat, Disconnect, HandlerInv
<1>2. ASSUME NEW w \in Workers, Worker(w) PROVE HandlerInv'
  <2>1. ASSUME NEW p \in Players, AcceptComplete(w, p) PROVE HandlerInv'
    <3>1. ~readOp[p] /\ \A v \in Workers : cur[v] # p
      BY <2>1 DEF SessionInv, AcceptComplete, NewInv, Untouched
    <3> QED
      BY <2>1, <3>1, <1>T DEF AcceptComplete, Step, HandlerInv
  <2>2. ASSUME NEW p \in Players, AcceptError(w, p) PROVE HandlerInv'
    BY <2>2, <1>T DEF AcceptError, Step, HandlerInv
  <2>3. CASE AddSession(w)
    <3>1. /\ cur' = cur /\ readOp' = readOp /\ at[w] = "addSession"
          /\ at' = [at EXCEPT ![w] = "start"]
      BY <2>3, AddSessionKeeps DEF AddSession, Step
    <3> QED
      BY <3>1, <1>T DEF HandlerInv
  <2>4. CASE Start(w) \/ EnterRoom(w) \/ Entered(w)
    BY <2>4, <1>T DEF Start, EnterRoom, Entered, Step, HandlerInv
  <2>5. CASE FirstRecv(w)
    BY <2>5, <1>T DEF FirstRecv, Step, HandlerInv
  <2>6. CASE DoAccept(w)
    BY <2>6, <1>T DEF DoAccept, Step, HandlerInv
  <2>7. ASSUME NEW p \in Players, NEW n \in 1..MaxChats, RecvComplete(w, p, n)
        PROVE  HandlerInv'
    BY <2>7, <1>T DEF RecvComplete, Step, HandlerInv
  <2>8. CASE HandleChat(w) \/ PushChat(w) \/ ChatHandled(w)
    BY <2>8, <1>T DEF HandleChat, PushChat, ChatHandled, Step, HandlerInv
  <2>9. CASE NextRecv(w)
    BY <2>9, <1>T DEF NextRecv, Step, HandlerInv
  <2>10. ASSUME NEW p \in Players, RecvClose(w, p) PROVE HandlerInv'
    BY <2>10, <1>T DEF RecvClose, HandlerInv
  <2> QED
    BY <1>2, <2>1, <2>2, <2>3, <2>4, <2>5, <2>6, <2>7, <2>8, <2>9, <2>10 DEF Worker
<1>3. ASSUME NEW c \in Consumers, Flush(c) \/ (SpuriousWakeup(c) /\ UNCHANGED svars)
      PROVE  HandlerInv'
  BY <1>3, <1>T, FlushLeaves DEF svars, HandlerInv
<1> QED
  BY <1>1, <1>2, <1>3 DEF ServerNext

\* A connection is known to nobody until it is accepted.
LEMMA StepNewInv ==
    ASSUME RoomAssumption, SessionInv, ServerNext PROVE NewInv'
<1> USE RoomAssumption DEF RoomAssumption, Untouched
<1>T. /\ conn \in [Players -> {"none", "backlog", "up", "closed"}]
      /\ cur \in [Workers -> Players \cup {NoObject}]
      /\ socket \in [Players -> {"null", "open", "closed"}]
      /\ hasPlayer \in [Players -> BOOLEAN] /\ readOp \in [Players -> BOOLEAN]
      /\ NewInv /\ HandlerInv
  BY DEF SessionInv, ServerTypeOK
<1>1. ASSUME NEW p \in Players, Client(p) PROVE NewInv'
  <2>1. CASE Connect(p)
    BY <2>1, <1>T DEF Connect, NewInv
  <2>2. CASE ClientChat(p)
    BY <2>2, <1>T DEF ClientChat, NewInv
  <2>3. CASE Disconnect(p)
    BY <2>3, <1>T DEF Disconnect, NewInv
  <2> QED
    BY <1>1, <2>1, <2>2, <2>3 DEF Client
<1>2. ASSUME NEW w \in Workers, Worker(w) PROVE NewInv'
  <2>1. ASSUME NEW p \in Players, AcceptComplete(w, p) PROVE NewInv'
    BY <2>1, <1>T DEF AcceptComplete, NewInv
  <2>2. ASSUME NEW p \in Players, AcceptError(w, p) PROVE NewInv'
    BY <2>2, <1>T DEF AcceptError, NewInv
  <2>3. CASE AddSession(w)
    <3>1. /\ cur' = cur /\ UNCHANGED <<conn, socket, hasPlayer, readOp>>
          /\ \A id \in DOMAIN sessions' :
                sessions'[id] = cur[w] \/ (id \in DOMAIN sessions /\ sessions'[id] = sessions[id])
      BY <2>3, AddSessionKeeps DEF AddSession
    <3> QED
      BY <3>1, <1>T DEF NewInv
  <2>4. CASE Start(w)
    BY <2>4, <1>T DEF Start, NewInv
  <2>5. CASE EnterRoom(w)
    BY <2>5, <1>T DEF EnterRoom, NewInv
  <2>6. CASE Entered(w) \/ HandleChat(w) \/ PushChat(w) \/ ChatHandled(w)
    BY <2>6, <1>T DEF Entered, HandleChat, PushChat, ChatHandled, NewInv
  <2>7. CASE FirstRecv(w)
    BY <2>7, <1>T DEF FirstRecv, NewInv
  <2>8. CASE DoAccept(w)
    BY <2>8, <1>T DEF DoAccept, NewInv
  <2>9. ASSUME NEW p \in Players, NEW n \in 1..MaxChats, RecvComplete(w, p, n) PROVE NewInv'
    BY <2>9, <1>T DEF RecvComplete, NewInv
  <2>10. CASE NextRecv(w)
    BY <2>10, <1>T DEF NextRecv, NewInv
  <2>11. ASSUME NEW p \in Players, RecvClose(w, p) PROVE NewInv'
    BY <2>11, <1>T DEF RecvClose, NewInv
  <2> QED
    BY <1>2, <2>1, <2>2, <2>3, <2>4, <2>5, <2>6, <2>7, <2>8, <2>9, <2>10, <2>11 DEF Worker
<1>3. ASSUME NEW c \in Consumers, Flush(c) \/ (SpuriousWakeup(c) /\ UNCHANGED svars)
      PROVE  NewInv'
  BY <1>3, <1>T, FlushLeaves DEF svars, NewInv
<1> QED
  BY <1>1, <1>2, <1>3 DEF ServerNext

\* A session is made, indexed, given its socket and let in, in this order.
LEMMA StepStartInv ==
    ASSUME RoomAssumption, SessionInv, ServerNext PROVE StartInv'
<1> USE RoomAssumption DEF RoomAssumption, Untouched, Indexed
<1>T. /\ at \in [Workers -> Accepting \cup Receiving \cup {"idle"}]
      /\ cur \in [Workers -> Players \cup {NoObject}]
      /\ obj \in [Workers -> Players \cup {NoObject}]
      /\ socket \in [Players -> {"null", "open", "closed"}]
      /\ hasPlayer \in [Players -> BOOLEAN] /\ readOp \in [Players -> BOOLEAN]
      /\ StartInv /\ HandlerInv
  BY DEF SessionInv, ServerTypeOK, TypeOK
<1>A. ASSUME NEW v \in Workers, NEW w \in Workers, at[w] \in BeforeRead, cur[v] = cur[w]
      PROVE  v = w
  BY <1>A, <1>T DEF HandlerInv
<1>S. ASSUME UNCHANGED <<sessions, socket, hasPlayer, readOp, obj, players>>,
             NEW w \in Workers,
             \A v \in Workers : v # w => at'[v] = at[v] /\ cur'[v] = cur[v],
             at'[w] \notin BeforeRead
      PROVE  StartInv'
  BY <1>S, <1>T DEF StartInv, BeforeRead
<1>1. ASSUME NEW p \in Players, Client(p) PROVE StartInv'
  BY <1>1, <1>T DEF Client, Connect, ClientChat, Disconnect, StartInv, vars
<1>2. ASSUME NEW w \in Workers, Worker(w) PROVE StartInv'
  <2>1. ASSUME NEW p \in Players, AcceptComplete(w, p) PROVE StartInv'
    <3>1. Untouched(p)
      BY <2>1 DEF SessionInv, AcceptComplete, NewInv
    <3> QED
      BY <2>1, <3>1, <1>T DEF AcceptComplete, Step, StartInv, vars
  <2>2. ASSUME NEW p \in Players, AcceptError(w, p) PROVE StartInv'
    BY <2>2, <1>T, <1>S DEF AcceptError, Step, BeforeRead, vars
  <2>3. CASE AddSession(w)
    <3>1. /\ cur' = cur /\ UNCHANGED <<socket, hasPlayer, readOp, obj, players>>
          /\ at' = [at EXCEPT ![w] = "start"] /\ at[w] = "addSession"
          /\ ClientNo \in DOMAIN sessions' /\ sessions'[ClientNo] = cur[w]
          /\ \A id \in DOMAIN sessions' :
                sessions'[id] = cur[w] \/ (id \in DOMAIN sessions /\ sessions'[id] = sessions[id])
          /\ \A id \in DOMAIN sessions : id \in DOMAIN sessions' /\ sessions'[id] = sessions[id]
      BY <2>3, AddSessionKeeps DEF AddSession, Step, vars
    <3>2. \A v \in Workers : v # w => cur[v] # cur[w]
      BY <3>1, <1>A DEF BeforeRead
    <3> QED
      BY <3>1, <3>2, <1>T DEF StartInv
  <2>4. CASE Start(w)
    <3>1. \A v \in Workers : v # w => cur[v] # cur[w]
      BY <2>4, <1>A DEF Start, Step, BeforeRead
    <3> QED
      BY <2>4, <3>1, <1>T DEF Start, Step, StartInv, vars, HandlerInv, BeforeRead
  <2>5. CASE EnterRoom(w)
    <3>1. \A v \in Workers : v # w => cur[v] # cur[w]
      BY <2>5, <1>A DEF EnterRoom, Step, BeforeRead
    <3> QED
      BY <2>5, <3>1, <1>T DEF EnterRoom, Step, StartInv, LockEnter, HandlerInv, BeforeRead
  <2>6. CASE Entered(w)
    BY <2>6, <1>T DEF Entered, EnterObject, Step, StartInv
  <2>7. CASE HandleChat(w) \/ PushChat(w) \/ ChatHandled(w)
    BY <2>7, <1>T, <1>S DEF HandleChat, PushChat, ChatHandled, LockPush, PushETCJob, NotifyOne,
       Step, BeforeRead
  <2>8. CASE FirstRecv(w)
    <3>1. \A v \in Workers : v # w => cur[v] # cur[w]
      BY <2>8, <1>A DEF FirstRecv, Step, BeforeRead
    <3> QED
      BY <2>8, <3>1, <1>T DEF FirstRecv, Step, StartInv, vars
  <2>9. CASE DoAccept(w)
    BY <2>9, <1>T, <1>S DEF DoAccept, Step, BeforeRead, vars
  <2>10. ASSUME NEW p \in Players, NEW n \in 1..MaxChats, RecvComplete(w, p, n) PROVE StartInv'
    BY <2>10, <1>T DEF RecvComplete, Step, StartInv, vars
  <2>11. CASE NextRecv(w)
    <3>1. at[w] = "process" /\ cur[w] \in Players
      BY <2>11, <1>T DEF NextRecv, Step, HandlerInv, Receiving
    <3>2. \A v \in Workers : at[v] \in BeforeRead => cur[v] # cur[w]
      BY <3>1, <1>A DEF BeforeRead
    <3> QED
      BY <2>11, <3>1, <3>2, <1>T DEF NextRecv, Step, StartInv, BeforeRead, vars
  <2>12. ASSUME NEW p \in Players, RecvClose(w, p) PROVE StartInv'
    BY <2>12, <1>T DEF RecvClose, StartInv, vars
  <2> QED
    BY <1>2, <2>1, <2>2, <2>3, <2>4, <2>5, <2>6, <2>7, <2>8, <2>9, <2>10, <2>11, <2>12 DEF Worker
<1>3. ASSUME NEW c \in Consumers, Flush(c) \/ (SpuriousWakeup(c) /\ UNCHANGED svars)
      PROVE  StartInv'
  BY <1>3, <1>T, FlushLeaves DEF svars, StartInv
<1> QED
  BY <1>1, <1>2, <1>3 DEF ServerNext

\* What the steps of the server do to the players a Flush thread can see.
LEMMA StepPlayers ==
    ASSUME SessionInv, ServerNext
    PROVE  /\ \A c \in Consumers : playersSnapshot'[c] \subseteq players'
           /\ players \subseteq players'
           /\ \A p \in players' : p \in players \/
                  \E w \in Workers : at[w] = "entering" /\ obj[w] = p
<1>T. /\ playersSnapshot \in [Consumers -> SUBSET Players]
      /\ \A c \in Consumers : playersSnapshot[c] \subseteq players
  BY DEF SessionInv, ServerTypeOK, TypeOK, ReadyInv
<1>1. ASSUME NEW p \in Players, Client(p) PROVE UNCHANGED <<players, playersSnapshot>>
  BY <1>1 DEF Client, Connect, ClientChat, Disconnect, vars
<1>2. ASSUME NEW w \in Workers, Worker(w)
      PROVE  /\ UNCHANGED playersSnapshot
             /\ \/ UNCHANGED players
                \/ at[w] = "entering" /\ players' = players \cup {obj[w]}
  BY <1>2 DEF Worker, AcceptComplete, AcceptError, AddSession, Start, EnterRoom, LockEnter,
     Entered, EnterObject, FirstRecv, DoAccept, RecvComplete, HandleChat, LockPush, PushChat,
     PushETCJob, ChatHandled, NotifyOne, NextRecv, RecvClose, Step, vars
<1>3. ASSUME NEW c \in Consumers, Flush(c) \/ (SpuriousWakeup(c) /\ UNCHANGED svars)
      PROVE  /\ UNCHANGED players
             /\ \A d \in Consumers : playersSnapshot'[d] \subseteq players
  <2>1. UNCHANGED players
    BY <1>3, FlushLeaves
  <2>2. CASE TakeSnapshot(c)
    BY <2>2, <1>T DEF TakeSnapshot
  <2>3. ASSUME NEW p \in Players, SendTo(c, p)
        PROVE  \A d \in Consumers : playersSnapshot'[d] \subseteq players
    BY <2>3, <1>T DEF SendTo
  <2>4. CASE UNCHANGED playersSnapshot
    BY <2>1, <2>4, <1>T
  <2> QED
    BY <1>3, <2>1, <2>2, <2>3, <2>4 DEF Flush, FlushStep, SpuriousWakeup, LockFlush,
       WaitForJobs, TakeJobs, LockBroadcast, BroadcastSerialized, LockSnapshot, EndFlush
<1> QED
  BY <1>1, <1>2, <1>3, <1>T DEF ServerNext

\* A session that may be read is in the room, and ids are not reused.
LEMMA StepReadyInv ==
    ASSUME RoomAssumption, SessionInv, ServerNext PROVE ReadyInv'
<1>T. /\ at \in [Workers -> Accepting \cup Receiving \cup {"idle"}]
      /\ hasPlayer \in [Players -> BOOLEAN] /\ readOp \in [Players -> BOOLEAN]
      /\ ClientNo \in Nat /\ DOMAIN sessions \in SUBSET Nat
      /\ ReadyInv /\ HandlerInv /\ StartInv /\ StartedBeforeUse
  BY DEF SessionInv, ServerTypeOK
<1>P. \A c \in Consumers : playersSnapshot'[c] \subseteq players'
  BY StepPlayers
<1>M. players \subseteq players'
  BY StepPlayers
<1>S. ASSUME UNCHANGED <<ClientNo, sessions>>,
             \A q \in Players : /\ hasPlayer[q] => hasPlayer'[q]
                                /\ readOp'[q] => readOp[q] \/ (hasPlayer[q] /\ q \in players)
      PROVE  ReadyInv'
  BY <1>S, <1>T, <1>P, <1>M DEF ReadyInv
<1>1. ASSUME NEW p \in Players, Client(p) PROVE ReadyInv'
  BY <1>1, <1>S DEF Client, Connect, ClientChat, Disconnect
<1>2. ASSUME NEW w \in Workers, Worker(w) PROVE ReadyInv'
  <2>1. ASSUME NEW p \in Players, AcceptComplete(w, p) \/ AcceptError(w, p) PROVE ReadyInv'
    BY <2>1, <1>S DEF AcceptComplete, AcceptError
  <2>2. CASE AddSession(w)
    <3>1. /\ UNCHANGED <<hasPlayer, readOp>> /\ ClientNo' = ClientNo + 1
          /\ DOMAIN sessions' = DOMAIN sessions \cup {ClientNo}
      BY <2>2, AddSessionKeeps DEF AddSession
    <3>2. \A id \in DOMAIN sessions' : id < ClientNo'
      BY <3>1, <1>T DEF ReadyInv
    <3> QED
      BY <3>1, <3>2, <1>T, <1>P, <1>M DEF ReadyInv
  <2>3. CASE Start(w) \/ Entered(w) \/ DoAccept(w) \/ HandleChat(w) \/ PushChat(w) \/ ChatHandled(w)
    BY <2>3, <1>S DEF Start, Entered, DoAccept, HandleChat, PushChat, ChatHandled
  <2>4. CASE EnterRoom(w)
    BY <2>4, <1>S, <1>T DEF EnterRoom
  <2>5. CASE FirstRecv(w)
    <3>1. hasPlayer[cur[w]] /\ cur[w] \in players
      BY <2>5, <1>T DEF FirstRecv, Step, StartInv
    <3> QED
      BY <2>5, <3>1, <1>S, <1>T DEF FirstRecv
  <2>6. ASSUME NEW p \in Players, NEW n \in 1..MaxChats, RecvComplete(w, p, n) PROVE ReadyInv'
    BY <2>6, <1>S, <1>T DEF RecvComplete
  <2>7. CASE NextRecv(w)
    <3>1. hasPlayer[cur[w]] /\ cur[w] \in players
      BY <2>7, <1>T DEF NextRecv, Step, StartedBeforeUse, Receiving
    <3> QED
      BY <2>7, <3>1, <1>S, <1>T DEF NextRecv
  <2>8. ASSUME NEW p \in Players, RecvClose(w, p) PROVE ReadyInv'
    BY <2>8, <1>S, <1>T DEF RecvClose
  <2> QED
    BY <1>2, <2>1, <2>2, <2>3, <2>4, <2>5, <2>6, <2>7, <2>8 DEF Worker
<1>3. ASSUME NEW c \in Consumers, Flush(c) \/ (SpuriousWakeup(c) /\ UNCHANGED svars)
      PROVE  ReadyInv'
  BY <1>3, <1>S, FlushLeaves DEF svars
<1> QED
  BY <1>1, <1>2, <1>3 DEF ServerNext

\* A read and a handler of the same session exclude each other.
LEMMA StepRecvExclusive ==
    ASSUME RoomAssumption, SessionInv, ServerNext PROVE RecvExclusive'
<1> DEFINE In(w, p) == at[w] \in Receiving /\ cur[w] = p
<1>T. /\ at \in [Workers -> Accepting \cup Receiving \cup {"idle"}]
      /\ cur \in [Workers -> Players \cup {NoObject}]
      /\ readOp \in [Players -> BOOLEAN]
      /\ RecvExclusive /\ HandlerInv
  BY DEF SessionInv, ServerTypeOK
<1>E. ASSUME NEW p \in Players
      PROVE  /\ readOp[p] => \A w \in Workers : ~In(w, p)
             /\ \A v, w \in Workers : In(v, p) /\ In(w, p) => v = w
  BY <1>T DEF RecvExclusive
<1>Q. ASSUME \A p \in Players :
                /\ readOp'[p] => \A w \in Workers : ~In(w, p)'
                /\ \A v, w \in Workers : In(v, p)' /\ In(w, p)' => v = w
      PROVE  RecvExclusive'
  BY <1>Q DEF RecvExclusive
<1>S. ASSUME \A p \in Players : readOp'[p] => readOp[p],
             \A w \in Workers, p \in Players : In(w, p)' => In(w, p)
      PROVE  RecvExclusive'
  BY <1>E, <1>Q, <1>S
<1>1. ASSUME NEW p \in Players, Client(p) PROVE RecvExclusive'
  BY <1>1, <1>S DEF Client, Connect, ClientChat, Disconnect
<1>2. ASSUME NEW w \in Workers, Worker(w) PROVE RecvExclusive'
  <2>1. ASSUME NEW p \in Players, AcceptComplete(w, p) \/ AcceptError(w, p) PROVE RecvExclusive'
    BY <2>1, <1>S, <1>T DEF AcceptComplete, AcceptError, Step, Receiving
  <2>2. CASE AddSession(w)
    BY <2>2, AddSessionKeeps, <1>S, <1>T DEF AddSession, Step, Receiving
  <2>3. CASE Start(w) \/ EnterRoom(w) \/ Entered(w) \/ DoAccept(w)
    BY <2>3, <1>S, <1>T DEF Start, EnterRoom, Entered, DoAccept, Step, Receiving
  <2>4. CASE FirstRecv(w)
    <3>1. at[w] \in BeforeRead /\ cur[w] \in Players /\ at[w] \notin Receiving
      BY <2>4, <1>T DEF FirstRecv, Step, HandlerInv, BeforeRead, Receiving
    <3>2. \A v \in Workers : ~In(v, cur[w])
      BY <3>1, <1>T DEF HandlerInv
    <3>3. \A v \in Workers, p \in Players : In(v, p)' => In(v, p)
      BY <2>4, <1>T DEF FirstRecv, Step, Receiving
    <3> QED
      BY <2>4, <3>1, <3>2, <3>3, <1>E, <1>Q, <1>T DEF FirstRecv
  <2>5. ASSUME NEW p \in Players, NEW n \in 1..MaxChats, RecvComplete(w, p, n)
        PROVE  RecvExclusive'
    <3>1. readOp[p] /\ ~readOp'[p] /\ \A q \in Players : readOp'[q] => readOp[q]
      BY <2>5, <1>T DEF RecvComplete
    <3>2. \A v \in Workers, q \in Players : In(v, q)' => In(v, q) \/ (v = w /\ q = p)
      BY <2>5, <1>T DEF RecvComplete, Step
    <3> QED
      BY <3>1, <3>2, <1>E, <1>Q
  <2>6. CASE HandleChat(w) \/ PushChat(w) \/ ChatHandled(w)
    BY <2>6, <1>S, <1>T DEF HandleChat, PushChat, ChatHandled, Step, Receiving
  <2>7. CASE NextRecv(w)
    <3>1. In(w, cur[w]) /\ cur[w] \in Players
      BY <2>7, <1>T DEF NextRecv, Step, HandlerInv, Receiving
    <3>2. \A v \in Workers, p \in Players : In(v, p)' => In(v, p) /\ v # w
      BY <2>7, <1>T DEF NextRecv, Step, Receiving
    <3>3. \A p \in Players : readOp'[p] => readOp[p] \/ p = cur[w]
      BY <2>7, <1>T DEF NextRecv
    <3> QED
      BY <3>1, <3>2, <3>3, <1>E, <1>Q
  <2>8. ASSUME NEW p \in Players, RecvClose(w, p) PROVE RecvExclusive'
    BY <2>8, <1>S, <1>T DEF RecvClose
  <2> QED
    BY <1>2, <2>1, <2>2, <2>3, <2>4, <2>5, <2>6, <2>7, <2>8 DEF Worker
<1>3. ASSUME NEW c \in Consumers, Flush(c) \/ (SpuriousWakeup(c) /\ UNCHANGED svars)
      PROVE  RecvExclusive'
  BY <1>3, <1>S, FlushLeaves DEF svars
<1> QED
  BY <1>1, <1>2, <1>3 DEF ServerNext

\* The chat a worker pushes stays in the buffer while it is at it.
LEMMA StepPushInv ==
    ASSUME RoomAssumption, SessionInv, ServerNext PROVE PushInv'
<1>T. /\ at \in [Workers -> Accepting \cup Receiving \cup {"idle"}]
      /\ cur \in [Workers -> Players \cup {NoObject}]
      /\ recvBuffer \in [Players -> Seq(Nat)]
      /\ PushInv /\ HandlerInv /\ RecvExclusive
  BY DEF SessionInv, ServerTypeOK
<1>E. ASSUME NEW v \in Workers, at[v] \in Receiving
      PROVE  /\ cur[v] \in Players /\ ~readOp[cur[v]]
             /\ \A x \in Workers : at[x] \in Receiving /\ cur[x] = cur[v] => x = v
  BY <1>E, <1>T DEF RecvExclusive, HandlerInv
<1>S. ASSUME \A v \in Workers : at'[v] = "pushing" =>
                at[v] = "pushing" /\ cur'[v] = cur[v] /\ recvBuffer'[cur[v]] = recvBuffer[cur[v]]
      PROVE  PushInv'
  BY <1>S, <1>T DEF PushInv
<1>1. ASSUME NEW p \in Players, Client(p) PROVE PushInv'
  BY <1>1, <1>S DEF Client, Connect, ClientChat, Disconnect
<1>2. ASSUME NEW w \in Workers, Worker(w) PROVE PushInv'
  <2>1. ASSUME NEW p \in Players, AcceptComplete(w, p) \/ AcceptError(w, p) PROVE PushInv'
    BY <2>1, <1>S, <1>T DEF AcceptComplete, AcceptError, Step
  <2>2. CASE AddSession(w)
    BY <2>2, AddSessionKeeps, <1>S, <1>T DEF AddSession, Step
  <2>3. CASE Start(w) \/ EnterRoom(w) \/ Entered(w) \/ FirstRecv(w) \/ DoAccept(w) \/ NextRecv(w)
    BY <2>3, <1>S, <1>T DEF Start, EnterRoom, Entered, FirstRecv, DoAccept, NextRecv, Step
  <2>4. ASSUME NEW p \in Players, NEW n \in 1..MaxChats, RecvComplete(w, p, n) PROVE PushInv'
    <3>1. readOp[p] /\ at' = [at EXCEPT ![w] = "process"] /\ cur' = [cur EXCEPT ![w] = p]
      BY <2>4 DEF RecvComplete, Step
    <3>2. \A q \in Players : q # p => recvBuffer'[q] = recvBuffer[q]
      BY <2>4, <1>T DEF RecvComplete
    <3>3. \A v \in Workers : at'[v] = "pushing" =>
             at[v] = "pushing" /\ cur'[v] = cur[v] /\ cur[v] # p /\ cur[v] \in Players
      BY <3>1, <1>E, <1>T DEF Receiving
    <3> QED
      BY <3>2, <3>3, <1>S
  <2>5. CASE HandleChat(w)
    BY <2>5, <1>T DEF HandleChat, Step, PushInv
  <2>6. CASE PushChat(w)
    BY <2>6, <1>S DEF PushChat
  <2>7. CASE ChatHandled(w)
    <3>1. at[w] \in Receiving
      BY <2>7 DEF ChatHandled, Step, Receiving
    <3>2. \A v \in Workers : at'[v] = "pushing" =>
             at[v] = "pushing" /\ cur'[v] = cur[v] /\ cur[v] # cur[w] /\ cur[v] \in Players
      BY <2>7, <3>1, <1>E, <1>T DEF ChatHandled, Step, Receiving
    <3>3. \A q \in Players : q # cur[w] => recvBuffer'[q] = recvBuffer[q]
      BY <2>7, <1>T DEF ChatHandled
    <3> QED
      BY <3>2, <3>3, <1>S
  <2>8. ASSUME NEW p \in Players, RecvClose(w, p) PROVE PushInv'
    BY <2>8, <1>S DEF RecvClose
  <2> QED
    BY <1>2, <2>1, <2>2, <2>3, <2>4, <2>5, <2>6, <2>7, <2>8 DEF Worker
<1>3. ASSUME NEW c \in Consumers, Flush(c) \/ (SpuriousWakeup(c) /\ UNCHANGED svars)
      PROVE  PushInv'
  BY <1>3, <1>S, FlushLeaves DEF svars
<1> QED
  BY <1>1, <1>2, <1>3 DEF ServerNext

\* A socket that has been set is never unset, nor is the player of a session.
LEMMA StepSocket ==
    ASSUME SessionInv, ServerNext
    PROVE  \A p \in Players : /\ socket[p] # "null" => socket'[p] # "null"
                              /\ hasPlayer[p] => hasPlayer'[p]
<1>T. /\ socket \in [Players -> {"null", "open", "closed"}]
      /\ hasPlayer \in [Players -> BOOLEAN]
  BY DEF SessionInv, ServerTypeOK
<1>1. ASSUME NEW p \in Players, Client(p) PROVE UNCHANGED <<socket, hasPlayer>>
  BY <1>1 DEF Client, Connect, ClientChat, Disconnect
<1>2. ASSUME NEW w \in Workers, Worker(w)
      PROVE  /\ \/ UNCHANGED socket
                \/ socket' = [socket EXCEPT ![cur[w]] = "open"]
                \/ \E p \in Players : socket' = [socket EXCEPT ![p] = "closed"]
             /\ \/ UNCHANGED hasPlayer
                \/ hasPlayer' = [hasPlayer EXCEPT ![cur[w]] = TRUE]
  BY <1>2 DEF Worker, AcceptComplete, AcceptError, AddSession, Start, EnterRoom, Entered,
     FirstRecv, DoAccept, RecvComplete, HandleChat, PushChat, ChatHandled, NextRecv, RecvClose
<1>3. ASSUME NEW c \in Consumers, Flush(c) \/ (SpuriousWakeup(c) /\ UNCHANGED svars)
      PROVE  UNCHANGED <<socket, hasPlayer>>
  BY <1>3, FlushLeaves DEF svars
<1> QED
  BY <1>1, <1>2, <1>3, <1>T DEF ServerNext

\* Nobody uses what Start has not set.
LEMMA StepStartedBeforeUse ==
    ASSUME RoomAssumption, SessionInv, ServerNext, TypeOK' PROVE StartedBeforeUse'
<1>T. /\ at \in [Workers -> Accepting \cup Receiving \cup {"idle"}]
      /\ cur \in [Workers -> Players \cup {NoObject}]
      /\ StartedBeforeUse /\ HandlerInv /\ ReadyInv /\ StartInv
  BY DEF SessionInv, ServerTypeOK
<1>P. /\ \A c \in Consumers : playersSnapshot'[c] \subseteq players'
      /\ players \subseteq players' /\ players' \subseteq Players
      /\ \A p \in players' : p \in players \/
             \E w \in Workers : at[w] = "entering" /\ obj[w] = p
  BY StepPlayers DEF TypeOK
<1>1. \A p \in players' : socket'[p] # "null"
  <2>1. \A p \in players' : socket[p] # "null"
    BY <1>P, <1>T DEF StartInv, StartedBeforeUse
  <2> QED
    BY <2>1, <1>P, StepSocket
<1>2. \A c \in Consumers : \A p \in playersSnapshot'[c] : socket'[p] # "null"
  BY <1>1, <1>P
<1>3. ASSUME NEW v \in Workers, at'[v] \in Receiving
      PROVE  hasPlayer'[cur'[v]] /\ cur'[v] \in players'
  <2>1. CASE at[v] \in Receiving /\ cur'[v] = cur[v]
    BY <2>1, <1>P, <1>T, StepSocket DEF StartedBeforeUse, HandlerInv
  <2>2. ASSUME NEW p \in Players, readOp[p], cur'[v] = p
        PROVE  hasPlayer'[cur'[v]] /\ cur'[v] \in players'
    BY <2>2, <1>P, <1>T, StepSocket DEF ReadyInv
  <2>3. ASSUME NEW p \in Players, Client(p) PROVE UNCHANGED <<at, cur>>
    BY <2>3 DEF Client, Connect, ClientChat, Disconnect
  <2>4. ASSUME NEW w \in Workers, Worker(w)
        PROVE  \/ at[v] \in Receiving /\ cur'[v] = cur[v]
               \/ \E p \in Players : readOp[p] /\ cur'[v] = p
    <3>1. ASSUME NEW p \in Players, AcceptComplete(w, p) \/ AcceptError(w, p)
          PROVE  at[v] \in Receiving /\ cur'[v] = cur[v]
      BY <1>3, <3>1, <1>T DEF AcceptComplete, AcceptError, Step, Receiving
    <3>2. CASE AddSession(w)
      BY <1>3, <3>2, <1>T, AddSessionKeeps DEF AddSession, Step, Receiving
    <3>3. CASE Start(w) \/ EnterRoom(w) \/ Entered(w) \/ FirstRecv(w) \/ DoAccept(w) \/ NextRecv(w)
      BY <1>3, <3>3, <1>T DEF Start, EnterRoom, Entered, FirstRecv, DoAccept, NextRecv, Step, Receiving
    <3>4. ASSUME NEW p \in Players, NEW n \in 1..MaxChats, RecvComplete(w, p, n)
          PROVE  \/ at[v] \in Receiving /\ cur'[v] = cur[v]
                 \/ readOp[p] /\ cur'[v] = p
      BY <1>3, <3>4, <1>T DEF RecvComplete, Step
    <3>5. CASE HandleChat(w) \/ PushChat(w) \/ ChatHandled(w)
      BY <1>3, <3>5, <1>T DEF HandleChat, PushChat, ChatHandled, Step, Receiving
    <3>6. ASSUME NEW p \in Players, RecvClose(w, p) PROVE at[v] \in Receiving /\ cur'[v] = cur[v]
      BY <1>3, <3>6 DEF RecvClose
    <3> QED
      BY <2>4, <3>1, <3>2, <3>3, <3>4, <3>5, <3>6 DEF Worker
  <2>5. ASSUME NEW c \in Consumers, Flush(c) \/ (SpuriousWakeup(c) /\ UNCHANGED svars)
        PROVE  UNCHANGED <<at, cur>>
    BY <2>5, FlushLeaves DEF svars
  <2> QED
    BY <1>3, <2>1, <2>2, <2>3, <2>4, <2>5 DEF ServerNext
<1> QED
  BY <1>1, <1>2, <1>3 DEF StartedBeforeUse

\* A session keeps its id, and an id its session.
LEMMA StepSessionsIndexed ==
    ASSUME RoomAssumption, SessionInv, ServerNext PROVE SessionsIndexed'
<1> DEFINE OnTheWay(p) == \E w \in Workers : cur[w] = p /\ at[w] \in {"addSession", "start"}
           Findable(p) == socket[p] # "null" /\ Indexed(p)
<1>T. /\ conn \in [Players -> {"none", "backlog", "up", "closed"}]
      /\ at \in [Workers -> Accepting \cup Receiving \cup {"idle"}]
      /\ cur \in [Workers -> Players \cup {NoObject}]
      /\ socket \in [Players -> {"null", "open", "closed"}]
      /\ SessionsIndexed /\ HandlerInv /\ StartInv
  BY DEF SessionInv, ServerTypeOK
<1>E. ASSUME NEW p \in Players, conn[p] = "up" PROVE OnTheWay(p) \/ Findable(p)
  BY <1>E, <1>T DEF SessionsIndexed, Indexed
<1>Q. ASSUME \A p \in Players : conn'[p] = "up" => OnTheWay(p)' \/ Findable(p)',
             \A i, j \in DOMAIN sessions' : sessions'[i] = sessions'[j] => i = j
      PROVE  SessionsIndexed'
  BY <1>Q DEF SessionsIndexed, Indexed
<1>S. ASSUME UNCHANGED sessions,
             \A q \in Players : conn'[q] = "up" => conn[q] = "up",
             \A v \in Workers : at[v] \in {"addSession", "start"} => at'[v] = at[v] /\ cur'[v] = cur[v]
      PROVE  SessionsIndexed'
  <2>1. ASSUME NEW q \in Players, conn'[q] = "up" PROVE OnTheWay(q)' \/ Findable(q)'
    <3>1. OnTheWay(q) \/ Findable(q)
      BY <2>1, <1>S, <1>E
    <3>2. OnTheWay(q) => OnTheWay(q)'
      BY <1>S
    <3>3. Findable(q) => Findable(q)'
      BY <1>S, StepSocket DEF Indexed
    <3> QED
      BY <3>1, <3>2, <3>3
  <2>2. \A i, j \in DOMAIN sessions' : sessions'[i] = sessions'[j] => i = j
    BY <1>S, <1>T DEF SessionsIndexed
  <2> QED
    BY <2>1, <2>2, <1>Q
<1>1. ASSUME NEW p \in Players, Client(p) PROVE SessionsIndexed'
  BY <1>1, <1>S, <1>T DEF Client, Connect, ClientChat, Disconnect
<1>2. ASSUME NEW w \in Workers, Worker(w) PROVE SessionsIndexed'
  <2>1. ASSUME NEW p \in Players, AcceptComplete(w, p) PROVE SessionsIndexed'
    <3>1. OnTheWay(p)'
      BY <2>1, <1>T DEF AcceptComplete, Step
    <3>2. ASSUME NEW q \in Players, q # p, conn'[q] = "up" PROVE OnTheWay(q)' \/ Findable(q)'
      <4>1. conn[q] = "up" /\ UNCHANGED <<sessions, socket>>
        BY <2>1, <3>2, <1>T DEF AcceptComplete
      <4>2. OnTheWay(q) => OnTheWay(q)'
        BY <2>1, <1>T DEF AcceptComplete, Step
      <4>3. Findable(q) => Findable(q)'
        BY <4>1 DEF Indexed
      <4> QED
        BY <4>1, <4>2, <4>3, <1>E
    <3>3. \A i, j \in DOMAIN sessions' : sessions'[i] = sessions'[j] => i = j
      BY <2>1, <1>T DEF AcceptComplete, SessionsIndexed
    <3> QED
      BY <3>1, <3>2, <3>3, <1>Q
  <2>2. ASSUME NEW p \in Players, AcceptError(w, p) PROVE SessionsIndexed'
    BY <2>2, <1>S, <1>T DEF AcceptError, Step
  <2>3. CASE AddSession(w)
    <3>1. /\ at[w] = "addSession" /\ at' = [at EXCEPT ![w] = "start"]
          /\ cur' = cur /\ UNCHANGED <<conn, socket>>
      BY <2>3, AddSessionKeeps DEF AddSession, Step
    <3>2. /\ DOMAIN sessions' = DOMAIN sessions \cup {ClientNo}
          /\ ClientNo \notin DOMAIN sessions /\ sessions'[ClientNo] = cur[w]
          /\ \A id \in DOMAIN sessions : sessions'[id] = sessions[id] /\ sessions[id] # cur[w]
      BY <2>3, <3>1, <1>T, AddSessionKeeps DEF StartInv, Untouched
    <3>3. ASSUME NEW q \in Players, conn'[q] = "up" PROVE OnTheWay(q)' \/ Findable(q)'
      <4>1. OnTheWay(q) => OnTheWay(q)'
        BY <3>1, <1>T
      <4>2. Findable(q) => Findable(q)'
        BY <3>1, <3>2 DEF Indexed
      <4> QED
        BY <3>1, <3>3, <4>1, <4>2, <1>E
    <3>4. \A i, j \in DOMAIN sessions' : sessions'[i] = sessions'[j] => i = j
      BY <3>2, <1>T DEF SessionsIndexed
    <3> QED
      BY <3>3, <3>4, <1>Q
  <2>4. CASE Start(w)
    <3>1. /\ at[w] = "start" /\ cur[w] \in Players /\ Indexed(cur[w])
          /\ at' = [at EXCEPT ![w] = "enterRoom"] /\ socket'[cur[w]] = "open"
          /\ UNCHANGED <<conn, cur, sessions>>
      BY <2>4, <1>T DEF Start, Step, HandlerInv, BeforeRead, StartInv
    <3>2. ASSUME NEW q \in Players, conn'[q] = "up" PROVE OnTheWay(q)' \/ Findable(q)'
      <4>1. CASE q = cur[w]
        BY <3>1, <4>1 DEF Indexed
      <4>2. CASE q # cur[w]
        <5>1. OnTheWay(q) => OnTheWay(q)'
          BY <3>1, <4>2, <1>T
        <5>2. Findable(q) => Findable(q)'
          BY <3>1, StepSocket DEF Indexed
        <5> QED
          BY <3>1, <3>2, <5>1, <5>2, <1>E
      <4> QED
        BY <4>1, <4>2
    <3>3. \A i, j \in DOMAIN sessions' : sessions'[i] = sessions'[j] => i = j
      BY <3>1, <1>T DEF SessionsIndexed
    <3> QED
      BY <3>2, <3>3, <1>Q
  <2>5. CASE EnterRoom(w) \/ Entered(w) \/ FirstRecv(w) \/ DoAccept(w) \/ HandleChat(w)
               \/ PushChat(w) \/ ChatHandled(w) \/ NextRecv(w)
    BY <2>5, <1>S, <1>T DEF EnterRoom, Entered, FirstRecv, DoAccept, HandleChat, PushChat,
       ChatHandled, NextRecv, Step
  <2>6. ASSUME NEW p \in Players, NEW n \in 1..MaxChats, RecvComplete(w, p, n)
        PROVE  SessionsIndexed'
    BY <2>6, <1>S, <1>T DEF RecvComplete, Step
  <2>7. ASSUME NEW p \in Players, RecvClose(w, p) PROVE SessionsIndexed'
    BY <2>7, <1>S, <1>T DEF RecvClose
  <2> QED
    BY <1>2, <2>1, <2>2, <2>3, <2>4, <2>5, <2>6, <2>7 DEF Worker
<1>3. ASSUME NEW c \in Consumers, Flush(c) \/ (SpuriousWakeup(c) /\ UNCHANGED svars)
      PROVE  SessionsIndexed'
  BY <1>3, <1>S, FlushLeaves DEF svars
<1> QED
  BY <1>1, <1>2, <1>3 DEF ServerNext

\* Before the first client comes there is nothing to keep.
LEMMA InitSessionInv == ASSUME RoomAssumption, ServerInit PROVE SessionInv
<1>1. RoomInvariant
  BY InitRoomInv DEF ServerInit
<1>2. DOMAIN <<>> = {}
  OBVIOUS
<1>3. /\ conn = [p \in Players |-> "none"] /\ acceptor = "listening" /\ ClientNo = 0
      /\ at = [w \in Workers |-> "idle"] /\ cur = [w \in Workers |-> NoObject]
      /\ DOMAIN sessions = {} /\ socket = [p \in Players |-> "null"]
      /\ hasPlayer = [p \in Players |-> FALSE] /\ readOp = [p \in Players |-> FALSE]
      /\ players = {} /\ playersSnapshot = [c \in Consumers |-> {}]
  BY <1>2 DEF ServerInit, Init
<1>4. ServerTypeOK
  <2>1. TypeOK
    BY <1>1 DEF RoomInvariant, TypeInv
  <2>2. author \in Seq(Players \X Nat) /\ recvBuffer \in [Players -> Seq(Nat)]
    BY DEF ServerInit
  <2> QED
    BY <1>3, <2>1, <2>2 DEF ServerInit, ServerTypeOK
<1>5. HandlerInv /\ NewInv /\ StartInv /\ ReadyInv /\ PushInv
  BY <1>3, RoomAssumption DEF RoomAssumption, HandlerInv, NewInv, Untouched, StartInv,
     ReadyInv, PushInv, BeforeRead, Receiving
<1>6. AcceptChain /\ RecvExclusive /\ StartedBeforeUse /\ SessionsIndexed
  BY <1>3 DEF AcceptChain, RecvExclusive, StartedBeforeUse, SessionsIndexed, Accepting, Receiving
<1> QED
  BY <1>1, <1>4, <1>5, <1>6 DEF SessionInv

\* Every step of the server keeps what is known of its sessions.
LEMMA StepSessionInv ==
    ASSUME RoomAssumption, SessionInv, [ServerNext]_allvars PROVE SessionInv'
<1>1. RoomInvariant'
  BY ServerRoomStep, StepRoomInv DEF SessionInv
<1>2. CASE ServerNext
  <2>1. TypeOK'
    BY <1>1 DEF RoomInvariant, TypeInv
  <2> QED
    BY <1>1, <1>2, <2>1, StepServerType, StepHandlerInv, StepNewInv, StepStartInv, StepReadyInv,
       StepPushInv, StepAcceptChain, StepRecvExclusive, StepStartedBeforeUse, StepSessionsIndexed
       DEF SessionInv
<1>3. CASE UNCHANGED allvars
  <2>1. UNCHANGED <<vars, svars>>
    BY <1>3 DEF allvars
  <2>2. ServerTypeOK'
    BY <1>1, <2>1 DEF SessionInv, RoomInvariant, TypeInv, ServerTypeOK, svars
  <2>3. (HandlerInv /\ NewInv /\ StartInv /\ ReadyInv /\ PushInv)'
    BY <2>1 DEF SessionInv, HandlerInv, NewInv, Untouched, StartInv, Indexed, ReadyInv, PushInv,
       svars, vars
  <2>4. (AcceptChain /\ RecvExclusive /\ StartedBeforeUse /\ SessionsIndexed)'
    BY <2>1 DEF SessionInv, AcceptChain, RecvExclusive, StartedBeforeUse, SessionsIndexed, svars, vars
  <2> QED
    BY <1>1, <2>2, <2>3, <2>4 DEF SessionInv
<1> QED
  BY <1>2, <1>3

\* SessionInv holds in every reachable state of the server.
THEOREM SessionInvariance == ServerSpec => []SessionInv
<1> USE RoomAssumption
<1>1. ServerInit => SessionInv
  BY InitSessionInv
<1>2. SessionInv /\ [ServerNext]_allvars => SessionInv'
  BY StepSessionInv
<1> QED
  BY <1>1, <1>2, PTL DEF ServerSpec

\* Every value the server keeps has its type, whatever the numbers of workers,
\* Flush threads and clients.
THEOREM ServerTypeCorrect == ServerSpec => []ServerTypeOK
<1>1. SessionInv => ServerTypeOK
  BY DEF SessionInv
<1> QED
  BY <1>1, SessionInvariance, PTL

\* The accept chain neither breaks nor forks (Listener.cpp 12-41).
THEOREM AcceptChainHolds == ServerSpec => []AcceptChain
<1>1. SessionInv => AcceptChain
  BY DEF SessionInv
<1> QED
  BY <1>1, SessionInvariance, PTL

\* A session has one read outstanding or one worker in ProcessRecv, never both
\* and never two, so recvBuffer needs no lock (Session.cpp 18-40).
THEOREM RecvBufferUnshared == ServerSpec => []RecvExclusive
<1>1. SessionInv => RecvExclusive
  BY DEF SessionInv
<1> QED
  BY <1>1, SessionInvariance, PTL

\* Nobody dereferences a player or a socket that Start has not set yet
\* (Session.cpp 11-16, 136-137, PacketHandler.cpp 16).
THEOREM NothingUsedBeforeStart == ServerSpec => []StartedBeforeUse
<1>1. SessionInv => StartedBeforeUse
  BY DEF SessionInv
<1> QED
  BY <1>1, SessionInvariance, PTL

\* A connection has a session of its own, which one id finds
\* (SessionManager.cpp 6-17).
THEOREM SessionsFound == ServerSpec => []SessionsIndexed
<1>1. SessionInv => SessionsIndexed
  BY DEF SessionInv
<1> QED
  BY <1>1, SessionInvariance, PTL

\* The server calls the room only as the room's specification allows, so that
\* everything proved of the room holds inside the server.
THEOREM ServerImplementsRoom == ServerSpec => Spec
<1>1. ServerInit => Init
  BY DEF ServerInit
<1>2. SessionInv /\ [ServerNext]_allvars => [Next]_vars
  BY ServerRoomStep DEF SessionInv
<1> QED
  BY <1>1, <1>2, SessionInvariance, PTL DEF ServerSpec, Spec

\* In particular no chat is lost and none is handed out twice, for any number of
\* Flush threads (Room.cpp 68-135).
THEOREM ServerKeepsChats == ServerSpec => []NothingLost /\ []NoDuplicates
  BY ServerImplementsRoom, NoChatLost, NoChatTwice, PTL

(***************************************************************************)
(* The order of one client's chats.                                        *)
(***************************************************************************)

\* What a read puts behind the buffer continues it.
LEMMA FollowsRead ==
    ASSUME NEW s \in Seq(Nat), NEW f \in Nat, NEW n \in Nat, Len(s) <= f, Follows(s, f - Len(s))
    PROVE  LET t == s \o [i \in 1..n |-> f + i]
           IN  /\ t \in Seq(Nat) /\ Len(t) = Len(s) + n
               /\ Follows(t, f - Len(s))
<1> DEFINE r == [i \in 1..n |-> f + i]
<1>1. r \in Seq(Nat) /\ Len(r) = n /\ Len(s) \in Nat
  OBVIOUS
<1>2. Follows(r, f)
  BY <1>1 DEF Follows
<1>3. (f - Len(s)) + Len(s) = f /\ f - Len(s) \in Int
  BY <1>1
<1>4. s \o r \in Seq(Nat) /\ Len(s \o r) = Len(s) + n
  BY <1>1
<1> HIDE DEF r
<1>5. Follows(s \o r, f - Len(s))
  BY <1>1, <1>2, <1>3, FollowsConcat
<1> QED
  BY <1>4, <1>5 DEF r

\* The pcs of workers that are not in the step stay.
LEMMA FlushLeavesWorkers ==
    ASSUME RoomAssumption, SessionInv, NEW c \in Consumers,
           Flush(c) \/ (SpuriousWakeup(c) /\ UNCHANGED svars)
    PROVE  \A w \in Workers : pc'[w] = pc[w]
<1>1. pc \in [Threads -> WorkerLabels \cup ConsumerLabels] /\ \A w \in Workers : w # c /\ w \in Threads
  BY RoomAssumption DEF RoomAssumption, SessionInv, RoomInvariant, TypeInv, TypeOK, Threads
<1>2. FlushStep(c) \/ SpuriousWakeup(c)
  BY DEF Flush
<1>3. UNCHANGED pc \/ \E l \in ConsumerLabels : pc' = [pc EXCEPT ![c] = l]
  BY <1>2 DEF FlushStep, SpuriousWakeup, LockFlush, WaitForJobs, TakeJobs, LockBroadcast,
     BroadcastSerialized, LockSnapshot, TakeSnapshot, SendTo, EndFlush, Goto, ConsumerLabels, ConsumerHolds
<1> QED
  BY <1>1, <1>3

\* The buffer goes on where the last handled chat ended.
LEMMA StepRecvBufferInv ==
    ASSUME RoomAssumption, ServerAssumption, SenderInv, ServerNext PROVE RecvBufferInv'
<1>T. /\ recvBuffer \in [Players -> Seq(Nat)] /\ fetched \in [Players -> Nat]
      /\ RecvBufferInv /\ HandlerInv /\ PushInv
  BY DEF SenderInv, SessionInv, ServerTypeOK
<1>S. ASSUME UNCHANGED <<recvBuffer, fetched>> PROVE RecvBufferInv'
  BY <1>S, <1>T DEF RecvBufferInv
<1>1. ASSUME NEW p \in Players, Client(p) PROVE RecvBufferInv'
  BY <1>1, <1>S DEF Client, Connect, ClientChat, Disconnect
<1>2. ASSUME NEW w \in Workers, Worker(w) PROVE RecvBufferInv'
  <2>1. ASSUME NEW p \in Players, NEW n \in 1..MaxChats, RecvComplete(w, p, n)
        PROVE  RecvBufferInv'
    <3>1. /\ fetched'[p] = fetched[p] + n
          /\ recvBuffer'[p] = recvBuffer[p] \o [i \in 1..n |-> fetched[p] + i]
          /\ \A q \in Players : q # p => fetched'[q] = fetched[q] /\ recvBuffer'[q] = recvBuffer[q]
      BY <2>1, <1>T DEF RecvComplete
    <3>2. /\ n \in Nat /\ fetched[p] \in Nat /\ recvBuffer[p] \in Seq(Nat) /\ Len(recvBuffer[p]) \in Nat
          /\ Len(recvBuffer[p]) <= fetched[p]
          /\ Follows(recvBuffer[p], fetched[p] - Len(recvBuffer[p]))
      BY <1>T, ServerAssumption DEF ServerAssumption, RecvBufferInv
    <3>3. /\ Len(recvBuffer'[p]) = Len(recvBuffer[p]) + n
          /\ Follows(recvBuffer'[p], fetched[p] - Len(recvBuffer[p]))
      BY <3>1, <3>2, FollowsRead
    <3>4. /\ fetched'[p] - Len(recvBuffer'[p]) = fetched[p] - Len(recvBuffer[p])
          /\ Len(recvBuffer'[p]) <= fetched'[p]
      BY <3>1, <3>2, <3>3
    <3> QED
      BY <3>1, <3>3, <3>4, <1>T DEF RecvBufferInv
  <2>2. CASE ChatHandled(w)
    <3>1. cur[w] \in Players /\ recvBuffer[cur[w]] # <<>>
      BY <2>2, <1>T DEF ChatHandled, Step, HandlerInv, PushInv, Receiving
    <3> DEFINE p == cur[w]
    <3>2. /\ fetched' = fetched /\ recvBuffer'[p] = Tail(recvBuffer[p])
          /\ \A q \in Players : q # p => recvBuffer'[q] = recvBuffer[q]
      BY <2>2, <3>1, <1>T DEF ChatHandled
    <3>3. /\ fetched[p] \in Nat /\ recvBuffer[p] \in Seq(Nat) /\ Len(recvBuffer[p]) \in Nat
          /\ Len(recvBuffer[p]) <= fetched[p]
          /\ Follows(recvBuffer[p], fetched[p] - Len(recvBuffer[p]))
      BY <1>T, <3>1 DEF RecvBufferInv
    <3>4. /\ Follows(Tail(recvBuffer[p]), (fetched[p] - Len(recvBuffer[p])) + 1)
          /\ Len(Tail(recvBuffer[p])) = Len(recvBuffer[p]) - 1
      <4>1. fetched[p] - Len(recvBuffer[p]) \in Int
        BY <3>3
      <4> QED
        BY <3>1, <3>3, <4>1, FollowsTail
    <3>5. /\ fetched[p] - (Len(recvBuffer[p]) - 1) = (fetched[p] - Len(recvBuffer[p])) + 1
          /\ Len(recvBuffer[p]) - 1 <= fetched[p]
      BY <3>3
    <3> QED
      BY <3>2, <3>4, <3>5, <1>T DEF RecvBufferInv
  <2>3. CASE UNCHANGED <<recvBuffer, fetched>>
    BY <2>3, <1>S
  <2> QED
    BY <1>2, <2>1, <2>2, <2>3 DEF Worker, AcceptComplete, AcceptError, AddSession, Start, EnterRoom,
       Entered, FirstRecv, DoAccept, HandleChat, PushChat, NextRecv, RecvClose
<1>3. ASSUME NEW c \in Consumers, Flush(c) \/ (SpuriousWakeup(c) /\ UNCHANGED svars)
      PROVE  RecvBufferInv'
  BY <1>3, <1>S, FlushLeaves DEF svars
<1> QED
  BY <1>1, <1>2, <1>3 DEF ServerNext

\* The log grows by one chat, the next of its author, and only in PushETCJob.
LEMMA PushInLog ==
    ASSUME RoomAssumption, SenderInv, NEW w \in Workers, PushChat(w)
    PROVE  Len(author') = pushed' /\ \A p \in Players : InLog(p)'
<1>0. PICK q \in Players : q = cur[w]
  BY DEF SenderInv, SessionInv, HandlerInv, PushChat, Receiving
<1> DEFINE b == fetched[q] - Len(recvBuffer[q])
<1>T. /\ author \in Seq(Players \X Nat) /\ pushed \in Nat /\ Len(author) = pushed
      /\ pc \in [Threads -> WorkerLabels \cup ConsumerLabels] /\ w \in Threads
      /\ at \in [Workers -> Accepting \cup Receiving \cup {"idle"}]
  BY DEF SenderInv, SessionInv, ServerTypeOK, TypeOK, Threads
<1>1. /\ at[w] = "pushing" /\ pc[w] = "push" /\ pc' = [pc EXCEPT ![w] = "notify"]
      /\ pushed' = pushed + 1
      /\ author' = Append(author, <<q, Head(recvBuffer[q])>>)
      /\ UNCHANGED <<fetched, recvBuffer, at, cur>>
  BY <1>0 DEF PushChat, PushETCJob, Goto
<1>2. /\ recvBuffer[q] \in Seq(Nat) /\ recvBuffer[q] # <<>> /\ fetched[q] \in Nat
      /\ Len(recvBuffer[q]) \in Nat /\ Len(recvBuffer[q]) <= fetched[q] /\ Follows(recvBuffer[q], b)
  BY <1>0, <1>1 DEF SenderInv, SessionInv, ServerTypeOK, PushInv, RecvBufferInv
<1>3. b \in Nat
  BY <1>2
<1>4. Head(recvBuffer[q]) = b + 1
  BY <1>2, <1>3, FollowsTail
<1>5. \A v \in Workers : at[v] = "pushing" /\ cur[v] = q => v = w
  BY <1>0, <1>1 DEF SenderInv, SessionInv, RecvExclusive, Receiving
<1>6. ~Announced(q) /\ Announced(q)'
  <2>1. ~Announced(q)
    BY <1>1, <1>5 DEF Announced
  <2>2. pc'[w] = "notify"
    BY <1>1, <1>T
  <2> QED
    BY <1>0, <1>1, <2>1, <2>2 DEF Announced
<1>7. Done(q) = b /\ Done(q)' = b + 1
  <2>1. Done(q) = b
    BY <1>3, <1>6 DEF Done
  <2>2. Done(q)' = b + 1
    BY <1>1, <1>3, <1>6 DEF Done
  <2> QED
    BY <2>1, <2>2
<1>8. ASSUME NEW p \in Players, p # q PROVE Done(p)' = Done(p)
  <2>1. Announced(p)' <=> Announced(p)
    BY <1>0, <1>1, <1>8, <1>T DEF Announced
  <2> QED
    BY <1>1, <2>1 DEF Done
<1> DEFINE new == pushed + 1
<1>9. /\ DOMAIN author = 1..pushed /\ DOMAIN author' = 1..new /\ Len(author') = new
      /\ author'[new] = <<q, b + 1>>
      /\ \A i \in 1..pushed : author'[i] = author[i]
  <2>1. <<q, b + 1>> \in Players \X Nat
    BY <1>3
  <2> QED
    BY <1>1, <1>4, <1>T, <2>1
<1>10. author'[new][1] = q /\ author'[new][2] = b + 1
  BY <1>9
<1> HIDE DEF b
<1>11. new \notin 1..pushed /\ new \in 1..new /\ \A i \in 1..new : i = new \/ i \in 1..pushed
  BY <1>T
<1> HIDE DEF new
<1>12. Mine(q)' = Mine(q) \cup {new}
  <2>1. \A i \in 1..new : author'[i][1] = q <=> i = new \/ (i \in 1..pushed /\ author[i][1] = q)
    BY <1>9, <1>10, <1>11
  <2>2. \A i \in 1..pushed : i \in 1..new
    BY <1>T DEF new
  <2>3. /\ Mine(q)' = {i \in 1..new : author'[i][1] = q}
        /\ Mine(q) = {i \in 1..pushed : author[i][1] = q}
    BY <1>9 DEF Mine
  <2> QED
    BY <2>1, <2>2, <2>3, <1>11
<1>13. \A i \in Mine(q) : i \in 1..pushed /\ i < new /\ author'[i] = author[i]
  BY <1>9, <1>T DEF Mine, new
<1>14. InLog(q)'
  <2>0. InLog(q)
    BY DEF SenderInv
  <2>1. \A i \in Mine(q) : author[i][2] \in 1..b
    BY <2>0, <1>7 DEF InLog
  <2>2. \A i \in Mine(q)' : author'[i][2] \in 1..(b + 1)
    BY <2>1, <1>3, <1>10, <1>12, <1>13
  <2>3. \A i, j \in Mine(q)' : i < j => author'[i][2] < author'[j][2]
    <3> SUFFICES ASSUME NEW i \in Mine(q)', NEW j \in Mine(q)', i < j
                 PROVE  author'[i][2] < author'[j][2]
      OBVIOUS
    <3>1. i \in Mine(q)
      <4>1. i = new => j \notin Mine(q) /\ j # new
        BY <1>13, <1>T DEF new
      <4> QED
        BY <4>1, <1>12
    <3>2. CASE j = new
      <4>1. author'[i][2] = author[i][2] /\ author[i][2] \in 1..b
        BY <3>1, <2>1, <1>13
      <4>2. author'[j][2] = b + 1
        BY <3>2, <1>10
      <4> QED
        BY <4>1, <4>2, <1>3
    <3>3. CASE j \in Mine(q)
      BY <3>1, <3>3, <2>0, <1>13 DEF InLog
    <3> QED
      BY <3>2, <3>3, <1>12
  <2>4. \A k \in 1..(b + 1) : \E j \in Mine(q)' : author'[j][2] = k
    <3> SUFFICES ASSUME NEW k \in 1..(b + 1) PROVE \E j \in Mine(q)' : author'[j][2] = k
      OBVIOUS
    <3>1. CASE k = b + 1
      BY <3>1, <1>10, <1>12
    <3>2. CASE k # b + 1
      <4>1. k \in 1..b
        BY <3>2, <1>3
      <4>2. PICK j \in Mine(q) : author[j][2] = k
        BY <4>1, <2>0, <1>7 DEF InLog
      <4> QED
        BY <4>2, <1>12, <1>13
    <3> QED
      BY <3>1, <3>2
  <2> QED
    BY <2>2, <2>3, <2>4, <1>7 DEF InLog
<1>15. ASSUME NEW p \in Players, p # q PROVE InLog(p)'
  <2>1. Mine(p)' = Mine(p) /\ \A i \in Mine(p) : author'[i] = author[i]
    <3>1. \A i \in 1..new : author'[i][1] = p <=> (i \in 1..pushed /\ author[i][1] = p)
      BY <1>9, <1>10, <1>11, <1>15
    <3>2. \A i \in 1..pushed : i \in 1..new
      BY <1>T DEF new
    <3>3. /\ Mine(p)' = {i \in 1..new : author'[i][1] = p}
          /\ Mine(p) = {i \in 1..pushed : author[i][1] = p}
      BY <1>9 DEF Mine
    <3> QED
      BY <3>1, <3>2, <3>3, <1>9
  <2>2. InLog(p)
    BY DEF SenderInv
  <2> QED
    BY <2>1, <2>2, <1>8, <1>15 DEF InLog
<1> QED
  BY <1>1, <1>9, <1>14, <1>15 DEF new

\* No other step touches the log, and none changes how far a client's chats are.
LEMMA StepInLog ==
    ASSUME RoomAssumption, ServerAssumption, SenderInv, ServerNext
    PROVE  Len(author') = pushed' /\ \A p \in Players : InLog(p)'
<1> DEFINE Ann(w, p) == at[w] = "pushing" /\ cur[w] = p /\ pc[w] = "notify"
           Goal == Len(author') = pushed' /\ \A p \in Players : InLog(p)'
<1>T. /\ at \in [Workers -> Accepting \cup Receiving \cup {"idle"}]
      /\ cur \in [Workers -> Players \cup {NoObject}]
      /\ pc \in [Threads -> WorkerLabels \cup ConsumerLabels] /\ Workers \subseteq Threads
      /\ recvBuffer \in [Players -> Seq(Nat)] /\ fetched \in [Players -> Nat]
  BY DEF SenderInv, SessionInv, ServerTypeOK, TypeOK, Threads
<1>I. SessionInv /\ Len(author) = pushed /\ \A q \in Players : InLog(q)
  BY DEF SenderInv
<1>S. ASSUME UNCHANGED <<author, pushed>>, \A q \in Players : Done(q)' = Done(q) PROVE Goal
  BY <1>S, <1>I DEF InLog, Mine
<1>D. ASSUME UNCHANGED <<fetched, recvBuffer>>, NEW q \in Players,
             \A v \in Workers : Ann(v, q)' <=> Ann(v, q)
      PROVE  Done(q)' = Done(q)
  <2>1. Announced(q)' <=> Announced(q)
    BY <1>D DEF Announced
  <2> QED
    BY <1>D, <2>1 DEF Done
<1>U. ASSUME UNCHANGED <<author, pushed, fetched, recvBuffer>>,
             \A v \in Workers, q \in Players : Ann(v, q)' <=> Ann(v, q)
      PROVE  Goal
  BY <1>S, <1>D, <1>U
<1>1. ASSUME NEW p \in Players, Client(p) PROVE Goal
  BY <1>1, <1>U DEF Client, Connect, ClientChat, Disconnect, vars
<1>2. ASSUME NEW w \in Workers, Worker(w) PROVE Goal
  <2>1. ASSUME NEW p \in Players, AcceptComplete(w, p) \/ AcceptError(w, p) PROVE Goal
    BY <2>1, <1>U, <1>T DEF AcceptComplete, AcceptError, Step, vars
  <2>2. CASE AddSession(w)
    BY <2>2, <1>U, <1>T, <1>I, AddSessionKeeps DEF AddSession, Step, vars
  <2>3. CASE Start(w) \/ FirstRecv(w) \/ DoAccept(w) \/ NextRecv(w)
    BY <2>3, <1>U, <1>T DEF Start, FirstRecv, DoAccept, NextRecv, Step, vars
  <2>4. CASE EnterRoom(w)
    BY <2>4, <1>U, <1>T DEF EnterRoom, LockEnter, Goto, Step
  <2>5. CASE Entered(w)
    BY <2>5, <1>U, <1>T DEF Entered, EnterObject, Goto, Step
  <2>6. CASE HandleChat(w)
    BY <2>6, <1>U, <1>T DEF HandleChat, LockPush, Goto, Step
  <2>7. CASE PushChat(w)
    BY <2>7, PushInLog
  <2>8. ASSUME NEW p \in Players, NEW n \in 1..MaxChats, RecvComplete(w, p, n) PROVE Goal
    <3>1. /\ UNCHANGED <<author, pushed, pc>> /\ at[w] = "idle"
          /\ at' = [at EXCEPT ![w] = "process"] /\ cur' = [cur EXCEPT ![w] = p]
          /\ fetched'[p] = fetched[p] + n
          /\ recvBuffer'[p] = recvBuffer[p] \o [i \in 1..n |-> fetched[p] + i]
          /\ \A q \in Players : q # p => fetched'[q] = fetched[q] /\ recvBuffer'[q] = recvBuffer[q]
      BY <2>8, <1>T DEF RecvComplete, Step, vars
    <3>2. /\ n \in Nat /\ fetched[p] \in Nat /\ recvBuffer[p] \in Seq(Nat) /\ Len(recvBuffer[p]) \in Nat
          /\ Len(recvBuffer[p]) <= fetched[p]
          /\ Follows(recvBuffer[p], fetched[p] - Len(recvBuffer[p]))
      BY <1>T, ServerAssumption DEF ServerAssumption, SenderInv, RecvBufferInv
    <3>3. Len(recvBuffer'[p]) = Len(recvBuffer[p]) + n
      BY <3>1, <3>2, FollowsRead
    <3>4. fetched'[p] - Len(recvBuffer'[p]) = fetched[p] - Len(recvBuffer[p])
      BY <3>1, <3>2, <3>3
    <3>5. \A q \in Players : Announced(q)' <=> Announced(q)
      BY <3>1, <1>T DEF Announced
    <3>6. \A q \in Players : Done(q)' = Done(q)
      BY <3>1, <3>4, <3>5 DEF Done
    <3> QED
      BY <3>1, <3>6, <1>S
  <2>9. CASE ChatHandled(w)
    <3>0. PICK p \in Players : p = cur[w]
      BY <2>9, <1>I DEF ChatHandled, Step, SessionInv, HandlerInv, Receiving
    <3>1. /\ UNCHANGED <<author, pushed, fetched, cur>> /\ at[w] = "pushing" /\ pc[w] = "notify"
          /\ at' = [at EXCEPT ![w] = "process"]
          /\ recvBuffer'[p] = Tail(recvBuffer[p])
          /\ \A q \in Players : q # p => recvBuffer'[q] = recvBuffer[q]
      BY <2>9, <3>0, <1>T DEF ChatHandled, NotifyOne, Step
    <3>2. \A v \in Workers : v # w => pc'[v] = pc[v]
      BY <2>9, <1>T, RoomAssumption DEF RoomAssumption, ChatHandled, NotifyOne
    <3>3. /\ recvBuffer[p] \in Seq(Nat) /\ recvBuffer[p] # <<>> /\ fetched[p] \in Nat
          /\ Len(recvBuffer[p]) \in Nat
      BY <3>0, <3>1, <1>I, <1>T DEF SessionInv, PushInv
    <3>4. Len(recvBuffer'[p]) = Len(recvBuffer[p]) - 1
      BY <3>1, <3>3
    <3>5. \A v \in Workers : at[v] = "pushing" /\ cur[v] = p => v = w
      BY <3>0, <3>1, <1>I DEF SessionInv, RecvExclusive, Receiving
    <3>6. Announced(p) /\ ~Announced(p)'
      <4>1. Announced(p)
        BY <3>0, <3>1 DEF Announced
      <4>2. ~Announced(p)'
        BY <3>0, <3>1, <3>5, <1>T DEF Announced
      <4> QED
        BY <4>1, <4>2
    <3>7. Done(p)' = Done(p)
      <4>1. Done(p) = fetched[p] - Len(recvBuffer[p]) + 1
        BY <3>6 DEF Done
      <4>2. Done(p)' = fetched[p] - (Len(recvBuffer[p]) - 1) + 0
        BY <3>1, <3>4, <3>6 DEF Done
      <4> QED
        BY <4>1, <4>2, <3>3
    <3>8. ASSUME NEW q \in Players, q # p PROVE Done(q)' = Done(q)
      <4>1. Announced(q)' <=> Announced(q)
        BY <3>0, <3>1, <3>2, <3>8, <1>T DEF Announced
      <4> QED
        BY <3>1, <3>8, <4>1 DEF Done
    <3> QED
      BY <3>1, <3>7, <3>8, <1>S
  <2>10. ASSUME NEW p \in Players, RecvClose(w, p) PROVE Goal
    BY <2>10, <1>U DEF RecvClose, vars
  <2> QED
    BY <1>2, <2>1, <2>2, <2>3, <2>4, <2>5, <2>6, <2>7, <2>8, <2>9, <2>10 DEF Worker
<1>3. ASSUME NEW c \in Consumers, Flush(c) \/ (SpuriousWakeup(c) /\ UNCHANGED svars) PROVE Goal
  <2>1. UNCHANGED <<author, pushed, fetched, recvBuffer, at, cur>>
    BY <1>3, FlushLeaves DEF svars
  <2>2. \A v \in Workers : pc'[v] = pc[v]
    BY <1>3, <1>I, FlushLeavesWorkers
  <2> QED
    BY <2>1, <2>2, <1>U
<1> QED
  BY <1>1, <1>2, <1>3 DEF ServerNext

\* SenderInv holds in every reachable state of the server.
LEMMA SenderInvariance == ServerSpec => []SenderInv
<1> USE RoomAssumption, ServerAssumption
<1>1. ServerInit => SenderInv
  <2> SUFFICES ASSUME ServerInit PROVE SenderInv
    OBVIOUS
  <2>1. SessionInv
    BY InitSessionInv
  <2>2. /\ recvBuffer = [p \in Players |-> <<>>] /\ fetched = [p \in Players |-> 0]
        /\ author = <<>> /\ pushed = 0 /\ at = [w \in Workers |-> "idle"] /\ Len(<<>>) = 0
    BY DEF ServerInit, Init
  <2>3. RecvBufferInv
    BY <2>2 DEF RecvBufferInv, Follows
  <2>4. \A p \in Players : Done(p) = 0 /\ Mine(p) = {}
    BY <2>2 DEF Done, Announced, Mine
  <2>5. \A p \in Players : InLog(p)
    BY <2>4 DEF InLog
  <2> QED
    BY <2>1, <2>2, <2>3, <2>5 DEF SenderInv
<1>2. SenderInv /\ [ServerNext]_allvars => SenderInv'
  <2> SUFFICES ASSUME SenderInv, [ServerNext]_allvars PROVE SenderInv'
    OBVIOUS
  <2>1. SessionInv'
    BY StepSessionInv DEF SenderInv
  <2>2. CASE ServerNext
    BY <2>1, <2>2, StepRecvBufferInv, StepInLog DEF SenderInv
  <2>3. CASE UNCHANGED allvars
    BY <2>1, <2>3 DEF SenderInv, RecvBufferInv, InLog, Mine, Done, Announced, allvars, vars, svars
  <2> QED
    BY <2>2, <2>3
<1> QED
  BY <1>1, <1>2, PTL DEF ServerSpec

\* The chats of one client are pushed in the order in which it wrote them, each
\* once, although different workers handle its reads (Session.cpp 54-85).
THEOREM SendersInOrder == ServerSpec => []PerSenderOrder
<1>1. ASSUME SenderInv PROVE PerSenderOrder
  <2>1. ASSUME NEW p \in Players
        PROVE  /\ \A i, j \in Mine(p) : i < j => author[i][2] < author[j][2]
               /\ \A i \in Mine(p) : \A k \in 1..(author[i][2] - 1) :
                      \E j \in Mine(p) : author[j][2] = k
    <3>1. InLog(p)
      BY <1>1 DEF SenderInv
    <3>2. ASSUME NEW i \in Mine(p), NEW k \in 1..(author[i][2] - 1)
          PROVE  \E j \in Mine(p) : author[j][2] = k
      <4>1. author[i][2] \in 1..Done(p) /\ Done(p) \in Int
        <5>1. recvBuffer[p] \in Seq(Nat) /\ fetched[p] \in Nat
          BY <1>1 DEF SenderInv, SessionInv, ServerTypeOK
        <5>2. Len(recvBuffer[p]) \in Nat
          BY <5>1
        <5> QED
          BY <3>1, <5>1, <5>2 DEF InLog, Done
      <4>2. k \in 1..Done(p)
        BY <4>1
      <4> QED
        BY <3>1, <4>2 DEF InLog
    <3> QED
      BY <3>1, <3>2 DEF InLog
  <2> QED
    BY <2>1 DEF PerSenderOrder, Mine
<1> QED
  BY <1>1, SenderInvariance, PTL

\* With one Flush thread every session is handed the chats of one client in the
\* order in which that client wrote them: from the client's socket to the calls of
\* Session::Send.
THEOREM ChatsHeardInOrder ==
    ASSUME NEW c, Consumers = {c} PROVE ServerSpec => []HeardInOrder
<1>1. ASSUME SenderInv, UniqueInv, SameOrder PROVE HeardInOrder
  <2> SUFFICES ASSUME NEW q \in Players, NEW i \in DOMAIN sent[q], NEW j \in DOMAIN sent[q],
                      i < j, author[sent[q][i]][1] = author[sent[q][j]][1]
               PROVE  author[sent[q][i]][2] < author[sent[q][j]][2]
    BY DEF HeardInOrder
  <2>1. sent[q] \in Seq(Nat) /\ pushed \in Nat /\ author \in Seq(Players \X Nat)
        /\ Len(author) = pushed
    BY <1>1 DEF SenderInv, SessionInv, ServerTypeOK, TypeOK
  <2>2. sent[q][i] \in 1..pushed /\ sent[q][j] \in 1..pushed
    BY <1>1 DEF UniqueInv, ServedInv, Numbered, Values
  <2>3. sent[q][i] < sent[q][j]
    <3>1. /\ i \in Nat /\ j \in Nat /\ sent[q][1] \in Nat
      <4>1. DOMAIN sent[q] = 1..Len(sent[q]) /\ Len(sent[q]) \in Nat
        BY <2>1
      <4>2. i \in 1..Len(sent[q]) /\ j \in 1..Len(sent[q])
        BY <4>1
      <4>3. 1 \in 1..Len(sent[q]) /\ i \in Nat /\ j \in Nat
        BY <4>1, <4>2
      <4>4. 1 \in DOMAIN sent[q]
        BY <4>1, <4>3
      <4>5. sent[q][1] \in 1..pushed
        BY <4>4, <1>1 DEF UniqueInv, ServedInv, Numbered, Values
      <4> QED
        BY <4>3, <4>5
    <3>2. sent[q][i] = sent[q][1] + i - 1 /\ sent[q][j] = sent[q][1] + j - 1
      BY <1>1 DEF SameOrder
    <3> QED
      BY <3>1, <3>2
  <2>4. PICK p \in Players : p = author[sent[q][i]][1]
    <3>1. sent[q][i] \in DOMAIN author
      BY <2>1, <2>2
    <3>2. author[sent[q][i]] \in Players \X Nat
      <4> DEFINE E == Players \X Nat
      <4>1. author \in Seq(E)
        BY <2>1
      <4> HIDE DEF E
      <4>2. author[sent[q][i]] \in E
        BY <3>1, <4>1
      <4> QED
        BY <4>2 DEF E
    <3> QED
      BY <3>2
  <2>5. sent[q][i] \in Mine(p) /\ sent[q][j] \in Mine(p)
    BY <2>1, <2>2, <2>4 DEF Mine
  <2>6. InLog(p)
    BY <1>1 DEF SenderInv
  <2> QED
    BY <2>3, <2>5, <2>6 DEF InLog
<1>2. Spec => []SameOrder
  BY OneOrder
<1> QED
  BY <1>1, <1>2, SenderInvariance, ServerImplementsRoom, UniqueInvariance, PTL

\* With one Flush thread the whole server, accept and read handlers included,
\* implements the broadcast log: the clients see one order of all chats.
THEOREM ServerImplementsBroadcast ==
    ASSUME NEW c, Consumers = {c} PROVE ServerSpec => ImplementsBroadcast
<1>1. Spec => ImplementsBroadcast
  BY RoomImplementsBroadcast
<1> QED
  BY <1>1, ServerImplementsRoom, PTL
==============================================================================
