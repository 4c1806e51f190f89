---------------------------- MODULE StartupProofs ----------------------------
(***************************************************************************)
(* Theorems about how the server comes up, for any numbers of workers and  *)
(* connections.                                                            *)
(***************************************************************************)
EXTENDS Startup, TLAPS

USE DEF tables, net, room, Places, AcceptHandler, ReadHandler

(***************************************************************************)
(* The inductive invariant.                                                *)
(***************************************************************************)

\* What main has done before each of its parts; no worker runs before the last.
MainInv ==
    /\ phase \in {"handlers", "listen"} => stored = 0
    /\ phase = "tables" => stored < 6
    /\ phase \in {"workers", "join"} => stored = 6
    /\ phase # "handlers" => handlers = {C_CHAT}
    /\ phase \notin {"workers", "join"} => \A w \in Workers : at[w] = "new"

\* The first store fills the entry for players, and none of the later ones,
\* which go to the other cells or past them, takes it away.
TableInv == stored >= 1 => cells[Insert(OBJECT_TYPE_PLAYER)] = "insertPlayer"

\* A handler has its connection.
HandlerInv ==
    \A w \in Workers :
        /\ at[w] \in {"start", "recv"} \cup ReadHandler => cur[w] \in Conns
        /\ at[w] \in {"new", "run"} => cur[w] = NoConn

\* Ids in the room have been given out.
IdInv == \A id \in DOMAIN players : id < nextId

\* From Listen on, an accept is outstanding or its handler leads to the next.
ChainInv ==
    phase \in {"tables", "workers", "join"} =>
        accepting \/ \E w \in Workers : at[w] \in AcceptHandler

StartupInv ==
    TypeOK /\ MainInv /\ TableInv /\ HandlerInv /\ IdInv /\ ChainInv /\ NobodyReplaced

(***************************************************************************)
(* main's parts and stores.                                                *)
(***************************************************************************)

\* The names of the parts.
LEMMA PhaseNames ==
    {Phases[n] : n \in DOMAIN Phases} = {"handlers", "listen", "tables", "workers", "join"}
<1>1. DOMAIN Phases = 1..5
  BY DEF Phases
<1>2. /\ Phases[1] = "handlers" /\ Phases[2] = "listen" /\ Phases[3] = "tables"
      /\ Phases[4] = "workers" /\ Phases[5] = "join"
  BY DEF Phases
<1>3. 1..5 = {1, 2, 3, 4, 5}
  OBVIOUS
<1> QED
  BY <1>1, <1>2, <1>3

\* Their order.
LEMMA PhaseOrder ==
    /\ After("handlers") = "listen" /\ After("listen") = "tables"
    /\ After("tables") = "workers" /\ After("workers") = "join"
<1>1. /\ Phases[1] = "handlers" /\ Phases[2] = "listen" /\ Phases[3] = "tables"
      /\ Phases[4] = "workers" /\ Phases[5] = "join" /\ Len(Phases) = 5
  BY DEF Phases
<1>2. ASSUME NEW m \in 1..4 PROVE After(Phases[m]) = Phases[m + 1]
  <2> DEFINE k == CHOOSE n \in 1..(Len(Phases) - 1) : Phases[n] = Phases[m]
  <2>1. k \in 1..4 /\ Phases[k] = Phases[m]
    BY <1>1
  <2> HIDE DEF k
  <2>2. k = m
    BY <1>1, <2>1
  <2>3. After(Phases[m]) = Phases[1 + k]
    BY Zenon DEF After, k
  <2> QED
    BY <2>2, <2>3
<1>3. /\ After(Phases[1]) = Phases[1 + 1] /\ After(Phases[2]) = Phases[2 + 1]
      /\ After(Phases[3]) = Phases[3 + 1] /\ After(Phases[4]) = Phases[4 + 1]
  BY <1>2
<1> QED
  BY <1>1, <1>3

\* Where the six stores of InitObjectTable go, and what they store.
LEMMA StoreCells ==
    ASSUME NEW n \in 1..6
    PROVE  /\ Len(Stores) = 6
           /\ Stores[n].fn \in {Stores[m].fn : m \in DOMAIN Stores}
           /\ n = 1 => Cell(Stores[n]) = 1 /\ Stores[n].fn = "insertPlayer"
           /\ n # 1 => Cell(Stores[n]) \in 2..6
<1>1. Len(Stores) = 6 /\ DOMAIN Stores = 1..6
  BY DEF Stores
<1>2. Stores[n].fn \in {Stores[m].fn : m \in DOMAIN Stores}
  BY <1>1
<1>3. n \in {1, 2, 3, 4, 5, 6}
  OBVIOUS
<1>4. CASE n = 1
  BY <1>1, <1>2, <1>4 DEF Stores, Cell, Insert, OBJECT_TYPE_PLAYER
<1>5. CASE n \in {2, 3}
  BY <1>1, <1>2, <1>5 DEF Stores, Cell, Insert, OBJECT_TYPE_PROJECTILE, OBJECT_TYPE_DUST
<1>6. CASE n \in {4, 5, 6}
  BY <1>1, <1>2, <1>6 DEF Stores, Cell, Erase, TableLen, OBJECT_TYPE_PLAYER,
     OBJECT_TYPE_PROJECTILE, OBJECT_TYPE_DUST
<1> QED
  BY <1>3, <1>4, <1>5, <1>6

(***************************************************************************)
(* The steps.                                                              *)
(***************************************************************************)

\* Nothing has been done when main begins.
LEMMA InitStartupInv == ASSUME Init PROVE StartupInv
<1>1. TypeOK
  <2>1. phase \in {Phases[n] : n \in DOMAIN Phases}
    BY PhaseNames DEF Init
  <2>2. stored \in 0..Len(Stores)
    BY StoreCells DEF Init
  <2>3. cells \in [0..(2 * TableLen - 1) -> {"empty"} \cup {Stores[n].fn : n \in DOMAIN Stores}]
    BY DEF Init
  <2>4. DOMAIN players = {}
    BY DEF Init
  <2> QED
    BY <2>1, <2>2, <2>3, <2>4 DEF Init, TypeOK
<1>2. MainInv /\ TableInv /\ HandlerInv /\ ChainInv /\ NobodyReplaced
  BY StartupAssumption DEF StartupAssumption, Init, MainInv, TableInv, HandlerInv, ChainInv, NobodyReplaced
<1>3. IdInv
  <2>1. DOMAIN players = {}
    BY DEF Init
  <2> QED
    BY <2>1 DEF IdInv
<1> QED
  BY <1>1, <1>2, <1>3 DEF StartupInv

\* PacketHandler::Init and Listener::Start.
LEMMA FirstParts ==
    ASSUME StartupInv, InitHandlers \/ Listen PROVE StartupInv'
<1>T. TypeOK /\ MainInv /\ TableInv /\ HandlerInv /\ IdInv /\ NobodyReplaced
  BY DEF StartupInv
<1>1. CASE InitHandlers
  <2>1. phase = "handlers" /\ phase' = "listen" /\ handlers' = {C_CHAT}
        /\ UNCHANGED <<stored, cells, accepting, backlog, reads, closed, at, cur, nextId, players>>
    BY <1>1, PhaseOrder DEF InitHandlers
  <2>2. TypeOK'
    BY <2>1, <1>T, PhaseNames DEF TypeOK
  <2> QED
    BY <2>1, <2>2, <1>T DEF StartupInv, MainInv, TableInv, HandlerInv, IdInv, ChainInv, NobodyReplaced
<1>2. CASE Listen
  <2>1. phase = "listen" /\ phase' = "tables" /\ accepting' = TRUE
        /\ UNCHANGED <<stored, cells, handlers, backlog, reads, closed, at, cur, nextId, players>>
    BY <1>2, PhaseOrder DEF Listen
  <2>2. TypeOK'
    BY <2>1, <1>T, PhaseNames DEF TypeOK
  <2> QED
    BY <2>1, <2>2, <1>T DEF StartupInv, MainInv, TableInv, HandlerInv, IdInv, ChainInv, NobodyReplaced
<1> QED
  BY <1>1, <1>2

\* One assignment of InitObjectTable.
LEMMA TableParts ==
    ASSUME StartupInv, InitObjectTable PROVE StartupInv'
<1>T. TypeOK /\ MainInv /\ TableInv /\ HandlerInv /\ IdInv /\ ChainInv /\ NobodyReplaced
  BY DEF StartupInv
<1>1. PICK n \in 1..6 : n = stored + 1
  <2>1. Len(Stores) = 6
    BY StoreCells
  <2>2. stored \in 0..6 /\ stored < 6
    BY <2>1, <1>T DEF InitObjectTable, TypeOK, MainInv
  <2> QED
    BY <2>2
<1>2. /\ phase = "tables" /\ stored' = n
      /\ cells' = IF Cell(Stores[n]) \in DOMAIN cells
                    THEN [cells EXCEPT ![Cell(Stores[n])] = Stores[n].fn] ELSE cells
      /\ phase' = IF n = 6 THEN "workers" ELSE "tables"
      /\ UNCHANGED <<handlers, accepting, backlog, reads, closed, at, cur, nextId, players>>
  BY <1>1, PhaseOrder, StoreCells DEF InitObjectTable
<1>3. cells' \in [0..(2 * TableLen - 1) -> {"empty"} \cup {Stores[m].fn : m \in DOMAIN Stores}]
  BY <1>2, <1>T, StoreCells DEF TypeOK
<1>4. cells'[1] = "insertPlayer"
  <2>1. DOMAIN cells = 0..5 /\ 1 \in 0..5
    BY <1>T DEF TypeOK, TableLen
  <2>2. CASE n = 1
    <3>1. Cell(Stores[n]) = 1 /\ Stores[n].fn = "insertPlayer"
      BY <2>2, StoreCells
    <3> QED
      BY <3>1, <2>1, <1>2
  <2>3. CASE n # 1
    <3>1. Cell(Stores[n]) # 1 /\ stored >= 1
      BY <2>3, <1>1, <1>T, StoreCells DEF TypeOK
    <3>2. cells[1] = "insertPlayer"
      BY <3>1, <1>T DEF TableInv, Insert, OBJECT_TYPE_PLAYER
    <3> QED
      BY <3>1, <3>2, <2>1, <1>2
  <2> QED
    BY <2>2, <2>3
<1>5. TableInv'
  BY <1>4 DEF TableInv, Insert, OBJECT_TYPE_PLAYER
<1>6. TypeOK'
  <2>0. Len(Stores) = 6
    BY StoreCells
  <2>1. stored' \in 0..Len(Stores)
    BY <1>2, <2>0
  <2>2. phase' \in {Phases[m] : m \in DOMAIN Phases}
    BY <1>2, PhaseNames
  <2> QED
    BY <2>1, <2>2, <1>2, <1>3, <1>T DEF TypeOK
<1>7. MainInv'
  BY <1>2, <1>T DEF MainInv
<1> QED
  BY <1>2, <1>5, <1>6, <1>7, <1>T DEF StartupInv, HandlerInv, IdInv, ChainInv, NobodyReplaced

\* A worker is started.
LEMMA WorkersStart ==
    ASSUME StartupInv, NEW w \in Workers, StartWorker(w) PROVE StartupInv'
<1>T. TypeOK /\ MainInv /\ TableInv /\ HandlerInv /\ IdInv /\ ChainInv /\ NobodyReplaced
  BY DEF StartupInv
<1>1. /\ phase = "workers" /\ phase' \in {"workers", "join"} /\ at[w] = "new"
      /\ at' = [at EXCEPT ![w] = "run"]
      /\ UNCHANGED <<stored, cells, handlers, accepting, backlog, reads, closed, cur, nextId, players>>
  BY PhaseOrder DEF StartWorker
<1>2. TypeOK'
  BY <1>1, <1>T, PhaseNames DEF TypeOK
<1>3. at \in [Workers -> Places]
  BY <1>T DEF TypeOK
<1>4. MainInv' /\ TableInv' /\ IdInv'
  BY <1>1, <1>T DEF MainInv, TableInv, IdInv
<1>5. HandlerInv' /\ ChainInv'
  BY <1>1, <1>3, <1>T DEF HandlerInv, ChainInv
<1>6. NobodyReplaced'
  BY <1>1, <1>3, <1>T DEF NobodyReplaced
<1> QED
  BY <1>2, <1>4, <1>5, <1>6 DEF StartupInv

\* A connection is accepted.
LEMMA AcceptStep ==
    ASSUME StartupInv, NEW w \in Workers, NEW c \in Conns, Accept(w, c) PROVE StartupInv'
<1>T. /\ TypeOK /\ MainInv /\ TableInv /\ HandlerInv /\ IdInv /\ NobodyReplaced
      /\ at \in [Workers -> Places]
      /\ cur \in [Workers -> Conns \cup {NoConn}]
  BY DEF StartupInv, TypeOK
<1>1. /\ at[w] = "run" /\ at' = [at EXCEPT ![w] = "start"] /\ cur' = [cur EXCEPT ![w] = c]
      /\ accepting' = FALSE /\ backlog' \subseteq backlog
      /\ UNCHANGED <<phase, stored, cells, handlers, reads, closed, nextId, players>>
  BY DEF Accept, Step
<1>2. TypeOK'
  BY <1>1, <1>T DEF TypeOK
<1>3. MainInv' /\ TableInv' /\ IdInv'
  BY <1>1, <1>T DEF MainInv, TableInv, IdInv
<1>4. HandlerInv' /\ ChainInv'
  BY <1>1, <1>T DEF HandlerInv, ChainInv
<1>5. NobodyReplaced'
  BY <1>1, <1>T DEF NobodyReplaced
<1> QED
  BY <1>2, <1>3, <1>4, <1>5 DEF StartupInv

\* An accept fails: the handler has no connection and goes on to DoAccept.
LEMMA AcceptErrorStep ==
    ASSUME StartupInv, NEW w \in Workers, AcceptError(w) PROVE StartupInv'
<1>T. /\ TypeOK /\ MainInv /\ TableInv /\ HandlerInv /\ IdInv /\ NobodyReplaced
      /\ at \in [Workers -> Places]
      /\ cur \in [Workers -> Conns \cup {NoConn}] /\ NoConn \notin Conns
  BY StartupAssumption DEF StartupInv, TypeOK, StartupAssumption
<1>1. /\ at[w] = "run" /\ at' = [at EXCEPT ![w] = "doAccept"]
      /\ accepting' = FALSE /\ backlog' \subseteq backlog
      /\ UNCHANGED <<phase, stored, cells, handlers, reads, closed, cur, nextId, players>>
  BY DEF AcceptError, Step
<1>2. TypeOK'
  BY <1>1, <1>T DEF TypeOK
<1>3. MainInv' /\ TableInv' /\ IdInv'
  BY <1>1, <1>T DEF MainInv, TableInv, IdInv
<1>4. HandlerInv' /\ ChainInv'
  BY <1>1, <1>T DEF HandlerInv, ChainInv
<1>5. NobodyReplaced'
  <2>1. cur[w] \notin Conns
    BY <1>1, <1>T DEF HandlerInv
  <2> QED
    BY <2>1, <1>1, <1>T DEF NobodyReplaced
<1> QED
  BY <1>2, <1>3, <1>4, <1>5 DEF StartupInv

\* A player enters under an id that nobody has, so it replaces nobody.
LEMMA EnterStep ==
    ASSUME StartupInv, NEW w \in Workers, EnterRoom(w) PROVE StartupInv'
<1>T. /\ TypeOK /\ MainInv /\ TableInv /\ HandlerInv /\ IdInv /\ ChainInv /\ NobodyReplaced
      /\ at \in [Workers -> Places]
      /\ cur \in [Workers -> Conns \cup {NoConn}] /\ nextId \in Nat /\ DOMAIN players \subseteq Nat
  BY DEF StartupInv, TypeOK
<1>1. /\ at[w] = "start" /\ at' = [at EXCEPT ![w] = "recv"] /\ nextId' = nextId + 1
      /\ players' = Assign(players, nextId, cur[w])
      /\ UNCHANGED <<phase, stored, cells, handlers, accepting, backlog, reads, closed, cur>>
  BY DEF EnterRoom, Step, SetId
<1>2. nextId \notin DOMAIN players
  BY <1>T DEF IdInv
<1>3. /\ DOMAIN players' = DOMAIN players \cup {nextId} /\ players'[nextId] = cur[w]
      /\ \A id \in DOMAIN players : players'[id] = players[id]
  BY <1>1, <1>2 DEF Assign
<1>4. TypeOK'
  BY <1>1, <1>3, <1>T DEF TypeOK
<1>5. MainInv' /\ TableInv'
  BY <1>1, <1>T DEF MainInv, TableInv
<1>6. IdInv'
  BY <1>1, <1>3, <1>T DEF IdInv
<1>7. HandlerInv' /\ ChainInv'
  BY <1>1, <1>T DEF HandlerInv, ChainInv
<1>8. NobodyReplaced'
  <2> SUFFICES ASSUME NEW c \in Conns,
                      c \in reads \/ \E v \in Workers : cur[v] = c /\ at'[v] # "start"
               PROVE  \E id \in DOMAIN players' : players'[id] = c
    BY <1>1 DEF NobodyReplaced
  <2>1. CASE c = cur[w]
    BY <2>1, <1>3
  <2>2. CASE c # cur[w]
    <3>1. c \in reads \/ \E v \in Workers : cur[v] = c /\ at[v] # "start"
      BY <2>2, <1>1, <1>T
    <3>2. PICK id \in DOMAIN players : players[id] = c
      BY <3>1, <1>T DEF NobodyReplaced
    <3> QED
      BY <3>2, <1>3
  <2> QED
    BY <2>1, <2>2
<1> QED
  BY <1>4, <1>5, <1>6, <1>7, <1>8 DEF StartupInv

\* The rest of the handlers: reads are registered and complete, sessions closed,
\* accepts rearmed.
LEMMA HandlerStep ==
    ASSUME StartupInv, NEW w \in Workers,
           \/ RegisterRecv(w) \/ DoAccept(w) \/ ProcessRecv(w) \/ Close(w)
           \/ \E c \in Conns : Recv(w, c)
    PROVE  StartupInv'
<1>T. /\ TypeOK /\ MainInv /\ TableInv /\ HandlerInv /\ IdInv /\ ChainInv /\ NobodyReplaced
      /\ at \in [Workers -> Places]
      /\ cur \in [Workers -> Conns \cup {NoConn}] /\ reads \subseteq Conns /\ NoConn \notin Conns
  BY StartupAssumption DEF StartupInv, TypeOK, StartupAssumption
<1>1. CASE RegisterRecv(w)
  <2>1. /\ \/ at[w] = "recv" /\ at' = [at EXCEPT ![w] = "doAccept"] /\ cur' = cur
           \/ at[w] = "next" /\ at' = [at EXCEPT ![w] = "run"] /\ cur' = [cur EXCEPT ![w] = NoConn]
        /\ reads' \subseteq reads \cup {cur[w]}
        /\ UNCHANGED <<phase, stored, cells, handlers, accepting, backlog, closed, nextId, players>>
    BY <1>1 DEF RegisterRecv, Step
  <2>2. TypeOK' /\ MainInv'
    BY <2>1, <1>T DEF TypeOK, HandlerInv, MainInv
  <2>3. HandlerInv' /\ ChainInv'
    BY <2>1, <1>T DEF HandlerInv, ChainInv
  <2>4. NobodyReplaced'
    BY <2>1, <1>T DEF NobodyReplaced
  <2> QED
    BY <2>1, <2>2, <2>3, <2>4, <1>T DEF StartupInv, TableInv, IdInv
<1>2. CASE DoAccept(w)
  <2>1. /\ at[w] = "doAccept" /\ at' = [at EXCEPT ![w] = "run"] /\ accepting' = TRUE
        /\ cur' = [cur EXCEPT ![w] = NoConn]
        /\ UNCHANGED <<phase, stored, cells, handlers, backlog, reads, closed, nextId, players>>
    BY <1>2 DEF DoAccept, Step
  <2>2. TypeOK' /\ MainInv'
    BY <2>1, <1>T DEF TypeOK, HandlerInv, MainInv
  <2>3. HandlerInv' /\ ChainInv'
    BY <2>1, <1>T DEF HandlerInv, ChainInv
  <2>4. NobodyReplaced'
    BY <2>1, <1>T DEF NobodyReplaced
  <2> QED
    BY <2>1, <2>2, <2>3, <2>4, <1>T DEF StartupInv, TableInv, IdInv
<1>3. ASSUME NEW c \in Conns, Recv(w, c) PROVE StartupInv'
  <2>1. /\ at[w] = "run" /\ c \in reads
        /\ \E result \in ReadHandler : at' = [at EXCEPT ![w] = result]
        /\ reads' = reads \ {c} /\ cur' = [cur EXCEPT ![w] = c]
        /\ UNCHANGED <<phase, stored, cells, handlers, accepting, backlog, closed, nextId, players>>
    BY <1>3 DEF Recv, Step
  <2>2. TypeOK' /\ MainInv'
    BY <2>1, <1>T DEF TypeOK, HandlerInv, MainInv
  <2>3. HandlerInv' /\ ChainInv'
    BY <2>1, <1>T DEF HandlerInv, ChainInv
  <2>4. NobodyReplaced'
    BY <2>1, <1>T DEF NobodyReplaced
  <2> QED
    BY <2>1, <2>2, <2>3, <2>4, <1>T DEF StartupInv, TableInv, IdInv
<1>4. CASE ProcessRecv(w)
  <2>1. /\ at[w] = "process" /\ at' = [at EXCEPT ![w] = "next"]
        /\ UNCHANGED <<phase, stored, cells, handlers, accepting, backlog, reads, closed, cur, nextId, players>>
    BY <1>4 DEF ProcessRecv, Step
  <2>2. TypeOK' /\ MainInv'
    BY <2>1, <1>T DEF TypeOK, HandlerInv, MainInv
  <2>3. HandlerInv' /\ ChainInv'
    BY <2>1, <1>T DEF HandlerInv, ChainInv
  <2>4. NobodyReplaced'
    BY <2>1, <1>T DEF NobodyReplaced
  <2> QED
    BY <2>1, <2>2, <2>3, <2>4, <1>T DEF StartupInv, TableInv, IdInv
<1>5. CASE Close(w)
  <2>1. /\ \/ at[w] = "failed" /\ at' = [at EXCEPT ![w] = "run"] /\ cur' = [cur EXCEPT ![w] = NoConn]
           \/ at[w] = "empty" /\ at' = [at EXCEPT ![w] = "next"] /\ cur' = cur
        /\ closed' = closed \cup {cur[w]}
        /\ UNCHANGED <<phase, stored, cells, handlers, accepting, backlog, reads, nextId, players>>
    BY <1>5 DEF Close, Step
  <2>2. TypeOK' /\ MainInv'
    BY <2>1, <1>T DEF TypeOK, HandlerInv, MainInv
  <2>3. HandlerInv' /\ ChainInv'
    BY <2>1, <1>T DEF HandlerInv, ChainInv
  <2>4. NobodyReplaced'
    BY <2>1, <1>T DEF NobodyReplaced
  <2> QED
    BY <2>1, <2>2, <2>3, <2>4, <1>T DEF StartupInv, TableInv, IdInv
<1> QED
  BY <1>1, <1>2, <1>3, <1>4, <1>5

\* A client connects.
LEMMA ConnectStep ==
    ASSUME StartupInv, NEW c \in Conns, Connect(c) PROVE StartupInv'
<1>T. TypeOK /\ MainInv /\ TableInv /\ HandlerInv /\ IdInv /\ ChainInv /\ NobodyReplaced
  BY DEF StartupInv
<1>1. /\ backlog' = backlog \cup {c}
      /\ UNCHANGED <<phase, stored, cells, handlers, accepting, reads, closed, at, cur, nextId, players>>
  BY DEF Connect
<1>2. TypeOK'
  BY <1>1, <1>T DEF TypeOK
<1> QED
  BY <1>1, <1>2, <1>T DEF StartupInv, MainInv, TableInv, HandlerInv, IdInv, ChainInv, NobodyReplaced

\* StartupInv holds in every reachable state.
THEOREM StartupInvariance == Spec => []StartupInv
<1>1. Init => StartupInv
  BY InitStartupInv
<1>2. StartupInv /\ [Next]_vars => StartupInv'
  <2> SUFFICES ASSUME StartupInv, [Next]_vars PROVE StartupInv'
    OBVIOUS
  <2>1. CASE UNCHANGED vars
    BY <2>1 DEF StartupInv, TypeOK, MainInv, TableInv, HandlerInv, IdInv, ChainInv, NobodyReplaced, vars
  <2>2. CASE Next
    BY <2>2, FirstParts, TableParts, WorkersStart, AcceptStep, AcceptErrorStep, EnterStep,
       HandlerStep, ConnectStep DEF Next, Main, Worker
  <2> QED
    BY <2>1, <2>2
<1> QED
  BY <1>1, <1>2, PTL DEF Spec

\* Every value has its type while the server comes up and runs.
THEOREM StartupTypeCorrect == Spec => []TypeOK
<1>1. StartupInv => TypeOK
  BY DEF StartupInv
<1> QED
  BY <1>1, StartupInvariance, PTL

\* Nobody reads a table of functions before it is filled, however many workers
\* and early clients there are (main.cpp 17-38, Room.cpp 22, 153-176).
THEOREM TablesFilledFirst == Spec => []TablesReady
<1>1. ASSUME StartupInv PROVE TablesReady
  <2> SUFFICES ASSUME NEW w \in Workers, at[w] \in {"start", "process"}
               PROVE  /\ cells[Insert(OBJECT_TYPE_PLAYER)] = "insertPlayer"
                      /\ C_CHAT \in handlers
    BY DEF TablesReady
  <2>1. phase \in {"workers", "join"}
    BY <1>1 DEF StartupInv, MainInv
  <2> QED
    BY <1>1, <2>1 DEF StartupInv, MainInv, TableInv
<1> QED
  BY <1>1, StartupInvariance, PTL

\* A connection that has been let in stays in the room under an id of its own
\* (Object.cpp 4-8, Room.cpp 156-158).
THEOREM PlayersStay == Spec => []NobodyReplaced
<1>1. StartupInv => NobodyReplaced
  BY DEF StartupInv
<1> QED
  BY <1>1, StartupInvariance, PTL

\* A worker in run() always has work, or work is coming (main.cpp 21-38,
\* Listener.cpp 16-40, Session.cpp 18-52), so run() does not return: neither failed
\* accepts nor the end of every session leaves the io_context without an accept.
THEOREM RunKeepsRunning == Spec => []NeverOutOfWork
<1>1. ASSUME StartupInv PROVE NeverOutOfWork
  <2> SUFFICES ASSUME NEW w \in Workers, at[w] = "run"
               PROVE  accepting \/ \E v \in Workers : at[v] \notin {"new", "run"}
    BY DEF NeverOutOfWork
  <2>1. phase \in {"workers", "join"}
    BY <1>1 DEF StartupInv, MainInv
  <2> QED
    BY <1>1, <2>1 DEF StartupInv, ChainInv
<1> QED
  BY <1>1, StartupInvariance, PTL
==============================================================================
