----------------------------- MODULE ChatServer -----------------------------
(***************************************************************************)
(* The server: Listener, SessionManager, Session and the io_context worker *)
(* threads around the room.                                                *)
(*                                                                         *)
(* A worker takes one completion handler at a time from the io_context and *)
(* runs it to its end: the handler of the one outstanding async_accept, or *)
(* the handler of a session's outstanding async_read_some.  The handlers   *)
(* are split into steps where another worker or a Flush thread could see   *)
(* a difference; calls into the room are the room's own actions, taken by  *)
(* the worker that makes the call, so this module composes Room and does   *)
(* not repeat it.                                                          *)
(*                                                                         *)
(* One accepted connection has one tcp::socket, one Session and one        *)
(* Player; a member of Players stands for all of them.  The receive buffer *)
(* is abstracted to the chats it holds (SessionRecv shows that framing     *)
(* keeps them whole and in order).                                         *)
(*                                                                         *)
(* Nothing calls Room::ExitObject or SessionManager::RemoveSession, so no  *)
(* player leaves and no session expires here.                              *)
(***************************************************************************)
EXTENDS Room, StdMap, FiniteSets

CONSTANTS
    MaxChats        \* bound: chats one client writes

ASSUME ServerAssumption ==
    /\ MaxChats \in Nat
    /\ IsFiniteSet(Players)
    /\ MaxPush >= MaxChats * Cardinality(Players)

VARIABLES
    conn,        \* client side: "none", "backlog", "up" or "closed"
    wrote,       \* chats the client has written into its stream
    fetched,     \* chats async_read_some has taken out of the stream
    acceptor,    \* "listening": an async_accept is outstanding; or "handling"
    at,          \* where worker w is in the handler it runs
    cur,         \* the session worker w's handler is about
    ClientNo,    \* SessionManager::ClientNo
    sessions,    \* SessionManager::sessions: id -> session
    socket,      \* Session::socket: "null", "open" or "closed"
    hasPlayer,   \* Session::player is set
    readOp,      \* an async_read_some of the session is outstanding
    recvBuffer,  \* Session::recvBuffer: the chats in it
    author       \* history: author[n] is the <<client, chat>> of push n

clients == <<conn, wrote, fetched>>
index   == <<ClientNo, sessions>>
started == <<socket, hasPlayer>>
session == <<started, readOp, recvBuffer>>

svars == <<clients, acceptor, at, cur, index, session, author>>

allvars == <<vars, svars>>

\* Positions in the accept handler and in the read handler.
Accepting == {"addSession", "start", "enterRoom", "entering", "registerRecv", "doAccept"}
Receiving == {"process", "pushing"}

ServerTypeOK ==
    /\ TypeOK
    /\ conn \in [Players -> {"none", "backlog", "up", "closed"}]
    /\ wrote \in [Players -> Nat]
    /\ fetched \in [Players -> Nat]
    /\ acceptor \in {"listening", "handling"}
    /\ at \in [Workers -> Accepting \cup Receiving \cup {"idle"}]
    /\ cur \in [Workers -> Players \cup {NoObject}]
    /\ ClientNo \in Nat
    /\ DOMAIN sessions \in SUBSET Nat
    /\ \A id \in DOMAIN sessions : sessions[id] \in Players
    /\ socket \in [Players -> {"null", "open", "closed"}]
    /\ hasPlayer \in [Players -> BOOLEAN]
    /\ readOp \in [Players -> BOOLEAN]
    /\ recvBuffer \in [Players -> Seq(Nat)]
    /\ author \in Seq(Players \X Nat)

\* main: PacketHandler::Init, Listener::Start and Room::Init have run before the
\* first worker calls io_context.run().
ServerInit ==
    /\ Init
    /\ conn = [p \in Players |-> "none"]
    /\ wrote = [p \in Players |-> 0]
    /\ fetched = [p \in Players |-> 0]
    /\ acceptor = "listening"
    /\ at = [w \in Workers |-> "idle"]
    /\ cur = [w \in Workers |-> NoObject]
    /\ ClientNo = 0
    /\ sessions = <<>>
    /\ socket = [p \in Players |-> "null"]
    /\ hasPlayer = [p \in Players |-> FALSE]
    /\ readOp = [p \in Players |-> FALSE]
    /\ recvBuffer = [p \in Players |-> <<>>]
    /\ author = <<>>

Step(w, from, to) ==
    /\ at[w] = from
    /\ at' = [at EXCEPT ![w] = to]

-----------------------------------------------------------------------------
(* Clients. *)

Connect(p) ==
    /\ conn[p] = "none"
    /\ conn' = [conn EXCEPT ![p] = "backlog"]
    /\ UNCHANGED <<vars, wrote, fetched, acceptor, at, cur, index, session,
                   author>>

\* A client may write before the server has accepted its connection.
ClientChat(p) ==
    /\ conn[p] \in {"backlog", "up"}
    /\ wrote[p] < MaxChats
    /\ wrote' = [wrote EXCEPT ![p] = @ + 1]
    /\ UNCHANGED <<vars, conn, fetched, acceptor, at, cur, index, session,
                   author>>

\* The client closes its socket, loses the connection, or ends its stream with
\* a frame that is larger than the server's buffer.
Disconnect(p) ==
    /\ conn[p] = "up"
    /\ conn' = [conn EXCEPT ![p] = "closed"]
    /\ UNCHANGED <<vars, wrote, fetched, acceptor, at, cur, index, session,
                   author>>

-----------------------------------------------------------------------------
(* The accept handler (Listener::DoAccept). *)

AcceptComplete(w, p) ==
    /\ acceptor = "listening"
    /\ conn[p] = "backlog"
    /\ Step(w, "idle", "addSession")
    /\ acceptor' = "handling"
    /\ conn' = [conn EXCEPT ![p] = "up"]
    /\ cur' = [cur EXCEPT ![w] = p]
    /\ UNCHANGED <<vars, wrote, fetched, index, session, author>>

\* Faulty variant: DoAccept is not called after an error.
AcceptErrorStops(w, p) ==
    /\ acceptor = "listening"
    /\ conn[p] = "backlog"
    /\ at[w] = "idle"
    /\ acceptor' = "handling"
    /\ \E end \in {"closed", "backlog"} : conn' = [conn EXCEPT ![p] = end]
    /\ UNCHANGED <<vars, wrote, fetched, at, cur, index, session, author>>

\* The connection was aborted before it was accepted, or the accept failed for
\* another reason and the client still waits.
AcceptError(w, p) ==
    /\ acceptor = "listening"
    /\ conn[p] = "backlog"
    /\ Step(w, "idle", "doAccept")
    /\ acceptor' = "handling"
    /\ \E end \in {"closed", "backlog"} : conn' = [conn EXCEPT ![p] = end]
    /\ UNCHANGED <<vars, wrote, fetched, cur, index, session, author>>

\* Faulty variant: the id is read but not advanced.
AddSessionSameId(w) ==
    /\ Step(w, "addSession", "start")
    /\ sessions' = Emplace(sessions, ClientNo, cur[w])
    /\ cur' = [cur EXCEPT ![w] = sessions'[ClientNo]]
    /\ UNCHANGED <<vars, clients, acceptor, ClientNo, session, author>>

\* Faulty variant: the map is given a shared_ptr that has been moved from.
AddSessionMoved(w) ==
    /\ Step(w, "addSession", "start")
    /\ ClientNo' = ClientNo + 1
    /\ sessions' = Emplace(sessions, ClientNo, NoObject)
    /\ UNCHANGED <<vars, clients, acceptor, cur, session, author>>

\* emplace keeps an entry that is there; AddSession returns the entry.
AddSession(w) ==
    /\ Step(w, "addSession", "start")
    /\ ClientNo' = ClientNo + 1
    /\ sessions' = Emplace(sessions, ClientNo, cur[w])
    /\ cur' = [cur EXCEPT ![w] = sessions'[ClientNo]]
    /\ UNCHANGED <<vars, clients, acceptor, session, author>>

\* Faulty variant: RegisterRecv comes before EnterRoom.
StartReadsFirst(w) ==
    /\ Step(w, "start", "enterRoom")
    /\ socket' = [socket EXCEPT ![cur[w]] = "open"]
    /\ readOp' = [readOp EXCEPT ![cur[w]] = TRUE]
    /\ UNCHANGED <<vars, clients, acceptor, cur, index, hasPlayer, recvBuffer,
                   author>>

Start(w) ==
    /\ Step(w, "start", "enterRoom")
    /\ socket' = [socket EXCEPT ![cur[w]] = "open"]
    /\ UNCHANGED <<vars, clients, acceptor, cur, index, hasPlayer, readOp,
                   recvBuffer, author>>

\* EnterRoom makes the player (the session is new, so it has none) and calls
\* Room::EnterObject.
EnterRoom(w) ==
    /\ Step(w, "enterRoom", "entering")
    /\ ~hasPlayer[cur[w]]
    /\ LockEnter(w, cur[w])
    /\ hasPlayer' = [hasPlayer EXCEPT ![cur[w]] = TRUE]
    /\ UNCHANGED <<clients, acceptor, cur, index, socket, readOp, recvBuffer,
                   author>>

Entered(w) ==
    /\ Step(w, "entering", "registerRecv")
    /\ EnterObject(w)
    /\ UNCHANGED <<clients, acceptor, cur, index, session, author>>

\* Start's RegisterRecv; the socket has just been opened.
FirstRecv(w) ==
    /\ Step(w, "registerRecv", "doAccept")
    /\ readOp' = [readOp EXCEPT ![cur[w]] = TRUE]
    /\ UNCHANGED <<vars, clients, acceptor, cur, index, started, recvBuffer,
                   author>>

DoAccept(w) ==
    /\ Step(w, "doAccept", "idle")
    /\ acceptor' = "listening"
    /\ cur' = [cur EXCEPT ![w] = NoObject]
    /\ UNCHANGED <<vars, clients, index, session, author>>

-----------------------------------------------------------------------------
(* The read handler (Session::RegisterRecv, ProcessRecv, Handle_C_CHAT). *)

\* Faulty variant: the next read is issued before ProcessRecv.
RecvCompleteRearms(w, p, n) ==
    /\ readOp[p]
    /\ fetched[p] + n <= wrote[p]
    /\ Step(w, "idle", "process")
    /\ cur' = [cur EXCEPT ![w] = p]
    /\ fetched' = [fetched EXCEPT ![p] = @ + n]
    /\ recvBuffer' = [recvBuffer EXCEPT ![p] = @ \o [i \in 1..n |-> fetched[p] + i]]
    /\ UNCHANGED <<vars, conn, wrote, acceptor, index, started, readOp,
                   author>>

\* A read completes with data that makes n more chats whole.  (Reads that end in
\* the middle of a frame are in SessionRecv.)
RecvComplete(w, p, n) ==
    /\ readOp[p]
    /\ fetched[p] + n <= wrote[p]
    /\ Step(w, "idle", "process")
    /\ readOp' = [readOp EXCEPT ![p] = FALSE]
    /\ cur' = [cur EXCEPT ![w] = p]
    /\ fetched' = [fetched EXCEPT ![p] = @ + n]
    /\ recvBuffer' = [recvBuffer EXCEPT ![p] = @ \o [i \in 1..n |-> fetched[p] + i]]
    /\ UNCHANGED <<vars, conn, wrote, acceptor, index, started, author>>

\* Handle_C_CHAT calls the room's PushETCJob.
HandleChat(w) ==
    /\ Step(w, "process", "pushing")
    /\ recvBuffer[cur[w]] # <<>>
    /\ LockPush(w)
    /\ UNCHANGED <<clients, acceptor, cur, index, session, author>>

PushChat(w) ==
    /\ at[w] = "pushing"
    /\ PushETCJob(w)
    /\ author' = Append(author, <<cur[w], Head(recvBuffer[cur[w]])>>)
    /\ UNCHANGED <<clients, acceptor, at, cur, index, session>>

\* Faulty variant: the read position is not advanced.
ChatHandledAgain(w) ==
    /\ Step(w, "pushing", "process")
    /\ NotifyOne(w)
    /\ UNCHANGED <<clients, acceptor, cur, index, session, author>>

\* notify_one, and back in ProcessRecv SetReadPos and Clear.
ChatHandled(w) ==
    /\ Step(w, "pushing", "process")
    /\ NotifyOne(w)
    /\ recvBuffer' = [recvBuffer EXCEPT ![cur[w]] = Tail(@)]
    /\ UNCHANGED <<clients, acceptor, cur, index, started, readOp, author>>

\* The loop ends and RegisterRecv issues the next read.
NextRecv(w) ==
    /\ Step(w, "process", "idle")
    /\ recvBuffer[cur[w]] = <<>>
    /\ readOp' = [readOp EXCEPT ![cur[w]] = TRUE]
    /\ cur' = [cur EXCEPT ![w] = NoObject]
    /\ UNCHANGED <<vars, clients, acceptor, index, started, recvBuffer,
                   author>>

\* The read fails because the client has gone, or completes with length 0
\* because its last frame does not fit: Session::Close, and no further read.
RecvClose(w, p) ==
    /\ readOp[p]
    /\ conn[p] = "closed"
    /\ at[w] = "idle"
    /\ readOp' = [readOp EXCEPT ![p] = FALSE]
    /\ socket' = [socket EXCEPT ![p] = "closed"]
    /\ UNCHANGED <<vars, clients, acceptor, at, cur, index, hasPlayer,
                   recvBuffer, author>>

-----------------------------------------------------------------------------

Client(p) == Connect(p) \/ ClientChat(p) \/ Disconnect(p)

\* A worker with a handler to run, or in the middle of one.
Worker(w) ==
    \/ \E p \in Players : AcceptComplete(w, p) \/ AcceptError(w, p)
    \/ AddSession(w)
    \/ Start(w)
    \/ EnterRoom(w)
    \/ Entered(w)
    \/ FirstRecv(w)
    \/ DoAccept(w)
    \/ \E p \in Players, n \in 1..MaxChats : RecvComplete(w, p, n)
    \/ HandleChat(w)
    \/ PushChat(w)
    \/ ChatHandled(w)
    \/ NextRecv(w)
    \/ \E p \in Players : RecvClose(w, p)

Flush(c) == FlushStep(c) /\ UNCHANGED svars

ServerNext ==
    \/ \E p \in Players : Client(p)
    \/ \E w \in Workers : Worker(w)
    \/ \E c \in Consumers : Flush(c)
    \/ \E c \in Consumers : SpuriousWakeup(c) /\ UNCHANGED svars

ServerSpec == ServerInit /\ [][ServerNext]_allvars

\* Threads that run keep running, and an idle worker takes a handler that is
\* ready.  Clients owe nothing.  cv.wait may return spuriously and accepts may fail,
\* but not forever.
ServerFairness ==
    /\ \A w \in Workers : WF_allvars(Worker(w))
    /\ \A c \in Consumers : WF_allvars(Flush(c))
    /\ <>[][\A c \in Consumers : ~SpuriousWakeup(c)]_allvars
    /\ <>[][\A w \in Workers, p \in Players : ~AcceptError(w, p)]_allvars

FairServerSpec == ServerSpec /\ ServerFairness

-----------------------------------------------------------------------------
(* Properties. *)

\* The accept chain neither breaks nor forks: either one async_accept is
\* outstanding or exactly one worker is on its way to the next DoAccept
\* (Listener.cpp 12-41), whatever the other workers do.
AcceptChain ==
    LET in == {w \in Workers : at[w] \in Accepting}
    IN  IF acceptor = "listening" THEN in = {} ELSE \E w \in Workers : in = {w}

\* recvBuffer has no lock.  It needs none because a session has at most one read
\* outstanding or one worker in ProcessRecv, never both (Session.cpp 18-40).
RecvExclusive ==
    \A p \in Players :
        LET in == {w \in Workers : at[w] \in Receiving /\ cur[w] = p}
        IN  /\ readOp[p] => in = {}
            /\ \A v, w \in in : v = w

\* Nobody dereferences a pointer that Start has not set yet (Session.cpp 11-16):
\* a worker in Handle_C_CHAT finds the session's player in the room
\* (PacketHandler.cpp 16), and a Flush thread finds a socket in the session of
\* every player it can see (Session.cpp 136-137).
StartedBeforeUse ==
    /\ \A w \in Workers : at[w] \in Receiving =>
            hasPlayer[cur[w]] /\ cur[w] \in players
    /\ \A p \in players : socket[p] # "null"
    /\ \A c \in Consumers : \A p \in playersSnapshot[c] : socket[p] # "null"

\* Once AddSession and Start have run for a connection, it has a session of its
\* own with a socket, which an id of SessionManager::sessions finds, and only one
\* (SessionManager.cpp 6-17): emplace would hand a second connection the first
\* one's session if an id came twice.
SessionsIndexed ==
    /\ \A p \in Players :
            conn[p] = "up" => \/ \E w \in Workers : cur[w] = p /\ at[w] \in {"addSession", "start"}
                             \/ /\ socket[p] # "null"
                                /\ \E id \in DOMAIN sessions : sessions[id] = p
    /\ \A i, j \in DOMAIN sessions : sessions[i] = sessions[j] => i = j

\* The chats of one client are pushed in the order in which it wrote them, each
\* once (Session.cpp 54-85, Room.cpp 68-77): reads of one session may be handled
\* by different workers, but never out of turn.
PerSenderOrder ==
    \A p \in Players :
        LET mine == {i \in DOMAIN author : author[i][1] = p}
        IN  /\ \A i, j \in mine : i < j => author[i][2] < author[j][2]
            /\ \A i \in mine : \A k \in 1..(author[i][2] - 1) :
                    \E j \in mine : author[j][2] = k

\* With one Flush thread every session is handed the chats of one client in the
\* order in which the client wrote them (Session.cpp 54-85, Room.cpp 68-135): no
\* worker, queue, batch or snapshot between the read and the call of Session::Send
\* lets one chat of a client overtake another.
HeardInOrder ==
    \A q \in Players : \A i, j \in DOMAIN sent[q] :
        LET m == author[sent[q][i]]
            n == author[sent[q][j]]
        IN  i < j /\ m[1] = n[1] => m[2] < n[2]

\* A client in the backlog is accepted and its player enters the room, or the
\* connection is aborted (Listener.cpp 12-41): the acceptor is rearmed after
\* every completion, failed ones included, so a client whose accept failed gets
\* its turn.
EveryClientEnters ==
    \A p \in Players :
        conn[p] = "backlog" ~> (p \in players \/ conn[p] = "closed")

\* A chat a client has written reaches the session of every player in the room,
\* its own included, unless its connection goes first: read handler, job queue,
\* Flush and Send together (Session.cpp 18-86, PacketHandler.cpp 14-38, Room.cpp
\* 58-135).
EveryChatReachesAll ==
    \A p, q \in Players : \A k \in 1..MaxChats :
        (wrote[p] >= k /\ q \in players /\ fetched[p] < k)
            ~> \/ conn[p] = "closed"
               \/ \E n \in DOMAIN author : author[n] = <<p, k>> /\ n \in Values(sent[q])

\* main.cpp 6 notes of disconnected clients that "the destructor is being
\* called".  The destructor of a Session runs when the last shared_ptr to it is
\* gone; SessionManager::sessions holds one, and so do the handlers in progress.
Released(p) ==
    /\ \A id \in DOMAIN sessions : sessions[id] # p
    /\ ~readOp[p]
    /\ \A w \in Workers : cur[w] # p

ClosedSessionsReleased ==
    \A p \in Players : socket[p] = "closed" ~> Released(p)
==============================================================================
