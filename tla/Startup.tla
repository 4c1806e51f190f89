------------------------------ MODULE Startup ------------------------------
(***************************************************************************)
(* How the server comes up: main, PacketHandler::Init, Listener::Start,    *)
(* Room::Init with InitObjectTable, and the workers that begin to run      *)
(* completion handlers as soon as they are started.  The tables of         *)
(* functions a handler calls through (GPacketHandler and the room's object *)
(* tables) have no lock: they are right because they are filled before     *)
(* anyone reads them.                                                      *)
(*                                                                         *)
(* The members _insertObjectTable[3] and _eraseObjectTable[3] are adjacent *)
(* in a Room, and ObjectType starts at 1, so index 3 of the first is index *)
(* 0 of the second; index 3 of the second lies past both, where _lock is.  *)
(***************************************************************************)
EXTENDS Integers, Sequences, StdMap

CONSTANTS
    Workers,   \* the threads that call io_context.run(); 17 in the code
    Conns,     \* connections clients make
    NoConn

ASSUME StartupAssumption == NoConn \notin Conns

VARIABLES
    phase,     \* the part of main the main thread is in
    stored,    \* stores InitObjectTable has made
    cells,     \* the six std::function of the two tables, in memory order
    handlers,  \* ids with a function in GPacketHandler
    accepting, \* an async_accept is outstanding
    backlog,   \* connections that wait to be accepted
    reads,     \* sessions with a read outstanding
    closed,    \* sessions whose socket has been closed
    at, cur,   \* what worker w does, and for which connection
    nextId,    \* Object::nextId
    players    \* Room::_players: id -> player

tables == <<stored, cells, handlers>>
net    == <<accepting, backlog, reads, closed>>
room   == <<nextId, players>>

vars == <<phase, tables, net, at, cur, room>>

\* Faulty variant: the workers start before the room is initialised.
PhasesRoomLast == <<"handlers", "listen", "workers", "tables", "join">>

\* main, in order.
Phases == <<"handlers", "listen", "tables", "workers", "join">>

After(ph) == Phases[1 + CHOOSE n \in 1..(Len(Phases) - 1) : Phases[n] = ph]

\* enum ObjectType, and the length of each table.
OBJECT_TYPE_PLAYER == 1
OBJECT_TYPE_PROJECTILE == 2
OBJECT_TYPE_DUST == 3
TableLen == 3

C_CHAT == 1

\* Where an entry of a table is in memory.
Insert(type) == type
Erase(type) == TableLen + type

\* The six assignments of InitObjectTable.
Stores == <<
    [table |-> "insert", index |-> OBJECT_TYPE_PLAYER,     fn |-> "insertPlayer"],
    [table |-> "insert", index |-> OBJECT_TYPE_PROJECTILE, fn |-> "insertProjectile"],
    [table |-> "insert", index |-> OBJECT_TYPE_DUST,       fn |-> "insertDust"],
    [table |-> "erase",  index |-> OBJECT_TYPE_PLAYER,     fn |-> "erasePlayer"],
    [table |-> "erase",  index |-> OBJECT_TYPE_PROJECTILE, fn |-> "eraseProjectile"],
    [table |-> "erase",  index |-> OBJECT_TYPE_DUST,       fn |-> "eraseDust"]>>

Cell(s) == IF s.table = "insert" THEN Insert(s.index) ELSE Erase(s.index)

\* Where a worker is: not started, in run(), in the accept handler, or in a read
\* handler that has data, a length of 0 or an error.
AcceptHandler == {"start", "recv", "doAccept"}
ReadHandler == {"process", "empty", "failed", "next"}
Places == {"new", "run"} \cup AcceptHandler \cup ReadHandler

TypeOK ==
    /\ phase \in {Phases[n] : n \in DOMAIN Phases}
    /\ stored \in 0..Len(Stores)
    /\ cells \in [0..(2 * TableLen - 1) -> {"empty"} \cup {Stores[n].fn : n \in DOMAIN Stores}]
    /\ handlers \subseteq {C_CHAT}
    /\ accepting \in BOOLEAN
    /\ backlog \subseteq Conns
    /\ reads \subseteq Conns
    /\ closed \subseteq Conns
    /\ at \in [Workers -> Places]
    /\ cur \in [Workers -> Conns \cup {NoConn}]
    /\ nextId \in Nat
    /\ DOMAIN players \subseteq Nat

Init ==
    /\ phase = "handlers"
    /\ stored = 0
    /\ cells = [n \in 0..(2 * TableLen - 1) |-> "empty"]
    /\ handlers = {}
    /\ accepting = FALSE
    /\ backlog = {}
    /\ reads = {}
    /\ closed = {}
    /\ at = [w \in Workers |-> "new"]
    /\ cur = [w \in Workers |-> NoConn]
    /\ nextId = 0
    /\ players = <<>>

-----------------------------------------------------------------------------
(* The main thread. *)

\* PacketHandler::Init
InitHandlers ==
    /\ phase = "handlers"
    /\ phase' = After(phase)
    /\ handlers' = {C_CHAT}
    /\ UNCHANGED <<stored, cells, net, at, cur, room>>

\* Listener::Start; from now on clients can connect.
Listen ==
    /\ phase = "listen"
    /\ phase' = After(phase)
    /\ accepting' = TRUE
    /\ UNCHANGED <<tables, backlog, reads, closed, at, cur, room>>

\* Room::Init: one assignment of InitObjectTable.  The last store goes past both
\* tables and is not represented in cells.
InitObjectTable ==
    /\ phase = "tables"
    /\ stored' = stored + 1
    /\ LET s == Stores[stored']
       IN  cells' = IF Cell(s) \in DOMAIN cells THEN [cells EXCEPT ![Cell(s)] = s.fn] ELSE cells
    /\ phase' = IF stored' = Len(Stores) THEN After(phase) ELSE phase
    /\ UNCHANGED <<handlers, net, at, cur, room>>

\* The next worker thread is started; after the last one main waits in join.
StartWorker(w) ==
    /\ phase = "workers"
    /\ at[w] = "new"
    /\ at' = [at EXCEPT ![w] = "run"]
    /\ phase' = IF \A v \in Workers : at'[v] # "new" THEN After(phase) ELSE phase
    /\ UNCHANGED <<tables, net, cur, room>>

Main == InitHandlers \/ Listen \/ InitObjectTable \/ \E w \in Workers : StartWorker(w)

-----------------------------------------------------------------------------
(* The workers. *)

Step(w, from, to) ==
    /\ at[w] = from
    /\ at' = [at EXCEPT ![w] = to]

\* A connection is accepted.
Accept(w, c) ==
    /\ accepting
    /\ c \in backlog
    /\ Step(w, "run", "start")
    /\ cur' = [cur EXCEPT ![w] = c]
    /\ accepting' = FALSE
    /\ backlog' = backlog \ {c}
    /\ UNCHANGED <<phase, tables, reads, closed, room>>

\* Faulty variant: the handler returns after an error.
AcceptErrorStops(w) ==
    /\ accepting
    /\ Step(w, "run", "run")
    /\ accepting' = FALSE
    /\ \E b \in {backlog} \cup {backlog \ {c} : c \in backlog} : backlog' = b
    /\ UNCHANGED <<phase, tables, reads, closed, cur, room>>

\* async_accept fails: a connection was aborted in the backlog, or the error has
\* nothing to do with the clients that wait.  The handler goes on to DoAccept.
AcceptError(w) ==
    /\ accepting
    /\ Step(w, "run", "doAccept")
    /\ accepting' = FALSE
    /\ \E b \in {backlog} \cup {backlog \ {c} : c \in backlog} : backlog' = b
    /\ UNCHANGED <<phase, tables, reads, closed, cur, room>>

\* Faulty variant: SetId is not called.
SetIdNever == 0

\* Faulty variant: one less than fetch_add returns.
SetIdBefore == nextId - 1

\* Object::SetId: fetch_add returns the value before.
SetId == nextId

\* Session::EnterRoom and Room::EnterObject: a player with a new id is given to
\* the function at its type's index.  (An empty function would throw.)
EnterRoom(w) ==
    /\ Step(w, "start", "recv")
    /\ cells[Insert(OBJECT_TYPE_PLAYER)] = "insertPlayer"
    /\ nextId' = nextId + 1
    /\ players' = Assign(players, SetId, cur[w])
    /\ UNCHANGED <<phase, tables, net, cur>>

\* Session::RegisterRecv, from Start or at the end of a read handler: no read is
\* issued on a socket that has been closed.
RegisterRecv(w) ==
    /\ \/ Step(w, "recv", "doAccept") /\ UNCHANGED cur
       \/ Step(w, "next", "run") /\ cur' = [cur EXCEPT ![w] = NoConn]
    /\ reads' = IF cur[w] \in closed THEN reads ELSE reads \cup {cur[w]}
    /\ UNCHANGED <<phase, tables, accepting, backlog, closed, room>>

\* The end of the accept handler.
DoAccept(w) ==
    /\ Step(w, "doAccept", "run")
    /\ accepting' = TRUE
    /\ cur' = [cur EXCEPT ![w] = NoConn]
    /\ UNCHANGED <<phase, tables, backlog, reads, closed, room>>

\* A read completes: with a chat, with a length of 0 (the buffer is full), or with
\* an error (the client has gone).
Recv(w, c) ==
    /\ c \in reads
    /\ \E result \in {"process", "empty", "failed"} : Step(w, "run", result)
    /\ cur' = [cur EXCEPT ![w] = c]
    /\ reads' = reads \ {c}
    /\ UNCHANGED <<phase, tables, accepting, backlog, closed, room>>

\* ProcessRecv calls the handler it finds for the id (what that does to the room
\* is in Room and ChatServer).
ProcessRecv(w) ==
    /\ Step(w, "process", "next")
    /\ UNCHANGED <<phase, tables, net, cur, room>>

\* Session::Close.  After an error the handler ends with it; after a length of 0
\* ProcessRecv returns and RegisterRecv is called all the same.
Close(w) ==
    /\ \/ Step(w, "failed", "run") /\ cur' = [cur EXCEPT ![w] = NoConn]
       \/ Step(w, "empty", "next") /\ UNCHANGED cur
    /\ closed' = closed \cup {cur[w]}
    /\ UNCHANGED <<phase, tables, accepting, backlog, reads, room>>

Worker(w) ==
    \/ \E c \in Conns : Accept(w, c) \/ Recv(w, c)
    \/ AcceptError(w)
    \/ EnterRoom(w)
    \/ RegisterRecv(w)
    \/ DoAccept(w)
    \/ ProcessRecv(w)
    \/ Close(w)

\* A client connects; before Listen it is refused.  A connection that was aborted
\* may be tried again; one whose session has been closed is over.
Connect(c) ==
    /\ phase \notin {"handlers", "listen"}
    /\ c \notin backlog \cup reads \cup closed
    /\ \A w \in Workers : cur[w] # c
    /\ backlog' = backlog \cup {c}
    /\ UNCHANGED <<phase, tables, accepting, reads, closed, at, cur, room>>

-----------------------------------------------------------------------------

Next ==
    \/ Main
    \/ \E w \in Workers : Worker(w)
    \/ \E c \in Conns : Connect(c)

Spec == Init /\ [][Next]_vars

-----------------------------------------------------------------------------
(* Properties. *)

\* Nobody reads a table of functions before it is filled (main.cpp 17-38, Room.cpp
\* 22, 153-176): a worker that is about to let a player in finds the function
\* that inserts players, and one that has a chat finds its handler, although
\* clients connect and write while the server is still coming up.
TablesReady ==
    \A w \in Workers :
        /\ at[w] = "start" => cells[Insert(OBJECT_TYPE_PLAYER)] = "insertPlayer"
        /\ at[w] = "process" => C_CHAT \in handlers

\* Every connection that has been let in is in the room and stays there under an
\* id of its own (Object.cpp 4-8, Room.cpp 156-158): a later player with the same
\* id would silently take its place, and it would never hear a chat again.
NobodyReplaced ==
    \A c \in Conns :
        c \in reads \/ (\E w \in Workers : cur[w] = c /\ at[w] # "start")
            => \E id \in DOMAIN players : players[id] = c

\* From the moment the first worker calls run() the io_context is never out of
\* work (main.cpp 21-38, Listener.cpp 16-40, Session.cpp 18-52): when an accept has
\* failed, or every session has been closed and no read is outstanding, run() would
\* otherwise return in every worker, and with it the server.
NeverOutOfWork ==
    \A w \in Workers : at[w] = "run" =>
        \/ accepting
        \/ reads # {}
        \/ \E v \in Workers : at[v] \notin {"new", "run"}

\* InitObjectTable has two parts, "// Insert" and "// Erase" (Room.cpp 155, 166),
\* one for each table: once it is done, each table holds the functions of its
\* part and no others.
EntriesOf(table) == {Stores[n].fn : n \in {m \in DOMAIN Stores : Stores[m].table = table}}

TablesAsCommented ==
    stored = Len(Stores) =>
        /\ {cells[Insert(n)] : n \in 0..(TableLen - 1)} \ {"empty"} = EntriesOf("insert")
        /\ {cells[Erase(n)] : n \in 0..(TableLen - 1)} \ {"empty"} = EntriesOf("erase")
==============================================================================
