------------------------- MODULE DummyClientProofs -------------------------
(***************************************************************************)
(* Theorems about the C++ load client, for any numbers of clients and io   *)
(* threads.                                                                *)
(***************************************************************************)
EXTENDS DummyClient, TLAPS

USE DEF main, conns, reads, ios, input

(***************************************************************************)
(* The inductive invariant.                                                *)
(***************************************************************************)

\* The completions of client c in a queue r.
Waits(r, c) == {n \in DOMAIN r : r[n].client = c}

AtMostOne(S) == \A m, n \in S : m = n

Running(t, c) == io[t] = "handler" /\ cur[t].client = c

\* The chain of reads of client c is in one place at most.
Chain(c) ==
    /\ reading[c] => Waits(ready, c) = {} /\ \A t \in IoThreads : ~Running(t, c)
    /\ AtMostOne(Waits(ready, c))
    /\ \A s, t \in IoThreads : Running(s, c) /\ Running(t, c) => s = t
    /\ Waits(ready, c) = {} \/ \A t \in IoThreads : ~Running(t, c)

ChainInv == \A c \in Clients : Chain(c)

NoRead(c) == ~reading[c] /\ Waits(ready, c) = {}

\* The first reads are registered one after the other, before any io thread runs.
FirstInv ==
    /\ phase = "connect" => \A c \in Clients : NoRead(c)
    /\ phase = "startRecv" => \A c \in Clients : c >= i => NoRead(c)
    /\ phase \in {"connect", "startRecv", "startIo"} <=> \E t \in IoThreads : io[t] = "new"
    /\ (\E t \in IoThreads : io[t] = "new") => \A t \in IoThreads : io[t] = "new"

\* Once run() has returned in one thread there is no work, and there never is
\* again; main returns when it has returned in all.
QuietInv ==
    /\ (\E t \in IoThreads : io[t] = "exit") => OutOfWork
    /\ phase = "return" => \A t \in IoThreads : io[t] = "exit"

ClientInv == TypeOK /\ ChainInv /\ FirstInv /\ QuietInv

(***************************************************************************)
(* main's parts.                                                           *)
(***************************************************************************)

\* The names of the parts.
LEMMA PhaseNames ==
    {Phases[n] : n \in DOMAIN Phases} =
        {"connect", "startRecv", "startIo", "test", "send", "cleanup", "join", "return"}
<1>1. DOMAIN Phases = 1..8
  BY DEF Phases
<1>2. /\ Phases[1] = "connect" /\ Phases[2] = "startRecv" /\ Phases[3] = "startIo"
      /\ Phases[4] = "test" /\ Phases[5] = "send" /\ Phases[6] = "cleanup"
      /\ Phases[7] = "join" /\ Phases[8] = "return"
  BY DEF Phases
<1>3. 1..8 = {1, 2, 3, 4, 5, 6, 7, 8}
  OBVIOUS
<1> QED
  BY <1>1, <1>2, <1>3

\* Their order.
LEMMA PhaseOrder ==
    /\ After("connect") = "startRecv" /\ After("startRecv") = "startIo"
    /\ After("startIo") = "test" /\ After("cleanup") = "join" /\ After("join") = "return"
<1>1. /\ Phases[1] = "connect" /\ Phases[2] = "startRecv" /\ Phases[3] = "startIo"
      /\ Phases[4] = "test" /\ Phases[5] = "send" /\ Phases[6] = "cleanup"
      /\ Phases[7] = "join" /\ Phases[8] = "return" /\ Len(Phases) = 8 /\ DOMAIN Phases = 1..8
  BY DEF Phases
<1>2. ASSUME NEW m \in 1..7 PROVE After(Phases[m]) = Phases[m + 1]
  <2> DEFINE Follow(ph) == \E n \in 2..Len(Phases) : Phases[n] = ph /\ Phases[n - 1] = Phases[m]
  <2>1. \A n \in 2..8 : Phases[n - 1] = Phases[m] => n = m + 1
    BY <1>1
  <2>2. Follow(Phases[m + 1]) /\ Phases[m + 1] \in {Phases[n] : n \in DOMAIN Phases}
    <3>1. m + 1 \in 2..Len(Phases) /\ (m + 1) - 1 = m /\ m + 1 \in DOMAIN Phases
      BY <1>1
    <3> QED
      BY <3>1
  <2>3. ASSUME NEW ph, Follow(ph) PROVE ph = Phases[m + 1]
    BY <1>1, <2>1, <2>3
  <2> HIDE DEF Follow
  <2>4. (CHOOSE next \in {Phases[n] : n \in DOMAIN Phases} : Follow(next)) = Phases[m + 1]
    BY <2>2, <2>3
  <2> QED
    BY <2>4, Zenon DEF After, Follow
<1>3. /\ After(Phases[1]) = Phases[1 + 1] /\ After(Phases[2]) = Phases[2 + 1]
      /\ After(Phases[3]) = Phases[3 + 1] /\ After(Phases[6]) = Phases[6 + 1]
      /\ After(Phases[7]) = Phases[7 + 1]
  BY <1>2
<1> QED
  BY <1>1, <1>3

(***************************************************************************)
(* The queue of completions.                                               *)
(***************************************************************************)

\* A completion that is queued is behind the others.
LEMMA WaitsAppend ==
    ASSUME NEW r \in Seq(Completions), NEW x \in Completions, NEW c \in Clients
    PROVE  /\ x.client # c => Waits(Append(r, x), c) = Waits(r, c)
           /\ x.client = c => Waits(Append(r, x), c) = Waits(r, c) \cup {Len(r) + 1}
<1>1. /\ DOMAIN r = 1..Len(r) /\ Len(r) \in Nat
      /\ DOMAIN Append(r, x) = 1..(Len(r) + 1)
      /\ \A n \in 1..Len(r) : Append(r, x)[n] = r[n]
      /\ Append(r, x)[Len(r) + 1] = x
  OBVIOUS
<1>2. 1..(Len(r) + 1) = 1..Len(r) \cup {Len(r) + 1}
  BY <1>1
<1> QED
  BY <1>1, <1>2 DEF Waits

\* Taking the first completion leaves the others; of a client that has one at
\* most, none is left when it was the first.
LEMMA WaitsTail ==
    ASSUME NEW r \in Seq(Completions), r # <<>>, NEW c \in Clients, AtMostOne(Waits(r, c))
    PROVE  /\ AtMostOne(Waits(Tail(r), c))
           /\ Waits(r, c) = {} => Waits(Tail(r), c) = {} /\ Head(r).client # c
           /\ Head(r).client = c => Waits(Tail(r), c) = {} /\ Waits(r, c) # {}
<1>1. /\ DOMAIN r = 1..Len(r) /\ Len(r) \in Nat \ {0} /\ Head(r) = r[1]
      /\ DOMAIN Tail(r) = 1..(Len(r) - 1)
      /\ \A n \in 1..(Len(r) - 1) : Tail(r)[n] = r[n + 1]
  OBVIOUS
<1>2. \A n \in 1..(Len(r) - 1) : n + 1 \in 1..Len(r) /\ n + 1 # 1
  BY <1>1
<1>3. 1 \in 1..Len(r)
  BY <1>1
<1>4. \A n \in Waits(Tail(r), c) : n \in 1..(Len(r) - 1) /\ n + 1 \in Waits(r, c)
  BY <1>1, <1>2 DEF Waits
<1>5. AtMostOne(Waits(Tail(r), c))
  BY <1>1, <1>4 DEF AtMostOne
<1>6. Head(r).client = c => 1 \in Waits(r, c)
  BY <1>1, <1>3 DEF Waits
<1>7. Head(r).client = c => Waits(Tail(r), c) = {}
  BY <1>2, <1>4, <1>6 DEF AtMostOne
<1> QED
  BY <1>4, <1>5, <1>6, <1>7

\* What async_read_some does to the reads of a client that has none, and to the
\* others.
LEMMA ReadSomeEffect ==
    ASSUME TypeOK, NEW c \in Clients, ReadSome(c), NoRead(c)
    PROVE  /\ reading' \in [Clients -> BOOLEAN] /\ ready' \in Seq(Completions)
           /\ reading'[c] => Waits(ready', c) = {}
           /\ AtMostOne(Waits(ready', c))
           /\ \A d \in Clients : d # c => reading'[d] = reading[d] /\ Waits(ready', d) = Waits(ready, d)
<1>1. reading \in [Clients -> BOOLEAN] /\ ready \in Seq(Completions)
  BY DEF TypeOK
<1>2. PICK x \in Completions : x = [client |-> c, ec |-> TRUE]
  BY DEF Completions
<1>3. x.client = c
  BY <1>2
<1>4. /\ reading' = [reading EXCEPT ![c] = (sock[c] = "up")]
      /\ ready' = IF sock[c] = "up" THEN ready ELSE Append(ready, x)
  BY <1>2 DEF ReadSome
<1>5. CASE sock[c] = "up"
  <2>1. ready' = ready /\ reading' = [reading EXCEPT ![c] = TRUE]
    BY <1>4, <1>5
  <2> QED
    BY <1>1, <2>1 DEF NoRead, AtMostOne
<1>6. CASE sock[c] # "up"
  <2>1. ready' = Append(ready, x) /\ reading' = [reading EXCEPT ![c] = FALSE]
    BY <1>4, <1>6
  <2>2. /\ Waits(ready', c) = {Len(ready) + 1}
        /\ \A d \in Clients : d # c => Waits(ready', d) = Waits(ready, d)
    BY <1>1, <1>3, <2>1, WaitsAppend DEF NoRead
  <2>3. ready' \in Seq(Completions)
    BY <1>1, <2>1
  <2> QED
    BY <1>1, <2>1, <2>2, <2>3 DEF AtMostOne
<1> QED
  BY <1>5, <1>6

(***************************************************************************)
(* The steps.                                                              *)
(***************************************************************************)

\* The client begins with no sockets and no reads.
LEMMA InitClientInv == ASSUME ClientAssumption, Init PROVE ClientInv
<1>1. /\ ready = <<>> /\ DOMAIN <<>> = {} /\ phase = "connect"
      /\ reading = [c \in Clients |-> FALSE] /\ io = [t \in IoThreads |-> "new"]
  BY DEF Init
<1>2. \A c \in Clients : Waits(ready, c) = {}
  BY <1>1 DEF Waits
<1>3. TypeOK
  <2>1. phase \in {Phases[n] : n \in DOMAIN Phases}
    BY <1>1, PhaseNames
  <2>2. [client |-> 1, ec |-> FALSE] \in Completions /\ 1 \in Clients
    BY ClientAssumption DEF ClientAssumption, Completions, Clients
  <2>3. 0 \in 0..Window
    BY ClientAssumption DEF ClientAssumption
  <2>4. /\ i \in Clients
        /\ sock \in [Clients -> {"none", "up", "unconnected", "closed"}]
        /\ peer \in [Clients -> {"up", "closed"}]
        /\ toServer \in [Clients -> 0..Window]
        /\ arrived \in [Clients -> 0..Window]
    BY <2>2, <2>3 DEF Init
  <2>5. reading \in [Clients -> BOOLEAN] /\ ready \in Seq(Completions)
    BY <1>1
  <2>6. /\ io \in [IoThreads -> {"new", "run", "handler", "exit"}]
        /\ waiter \in {"new", "getline", "exit"} /\ stop \in BOOLEAN
    BY <1>1 DEF Init
  <2>7. cur \in [IoThreads -> Completions]
    <3>1. PICK x \in Completions : x = [client |-> 1, ec |-> FALSE]
      BY <2>2
    <3>2. cur = [t \in IoThreads |-> x]
      BY <3>1 DEF Init
    <3> QED
      BY <3>2
  <2> QED
    BY <2>1, <2>4, <2>5, <2>6, <2>7 DEF TypeOK
<1>4. ChainInv
  BY <1>1, <1>2 DEF ChainInv, Chain, AtMostOne, Running
<1>5. FirstInv /\ QuietInv
  BY <1>1, <1>2, ClientAssumption DEF ClientAssumption, FirstInv, NoRead, QuietInv
<1> QED
  BY <1>3, <1>4, <1>5 DEF ClientInv

\* A step that leaves the reads and the io threads alone changes no chain.
LEMMA ReadsKept ==
    ASSUME ChainInv, UNCHANGED <<reads, ios>>
    PROVE  ChainInv' /\ \A c \in Clients : NoRead(c)' <=> NoRead(c)
  BY DEF ChainInv, Chain, NoRead, Running

\* connect
LEMMA ConnectStep ==
    ASSUME ClientAssumption, ClientInv, Connect PROVE ClientInv'
<1>T. TypeOK /\ ChainInv /\ FirstInv /\ QuietInv /\ N \in Nat \ {0} /\ i \in Clients
  BY DEF ClientInv, TypeOK, ClientAssumption
<1>1. /\ phase = "connect" /\ UNCHANGED <<peer, toServer, arrived, reads, ios, input>>
      /\ sock' \in [Clients -> {"none", "up", "unconnected", "closed"}]
      /\ phase' \in {"connect", "startRecv"} /\ i' \in Clients
  <2>1. phase = "connect" /\ UNCHANGED <<peer, toServer, arrived, reads, ios, input>>
    BY DEF Connect, Turn
  <2>2. sock' \in [Clients -> {"none", "up", "unconnected", "closed"}]
    BY <1>T DEF Connect, TypeOK
  <2>3. phase' \in {"connect", "startRecv"} /\ i' \in Clients
    BY <1>T, <2>1, PhaseOrder DEF Connect, Turn, Clients
  <2> QED
    BY <2>1, <2>2, <2>3
<1>2. TypeOK'
  BY <1>1, <1>T, PhaseNames DEF TypeOK
<1>3. FirstInv'
  BY <1>1, <1>T, ReadsKept DEF FirstInv
<1>4. QuietInv'
  BY <1>1, <1>T DEF QuietInv, OutOfWork
<1> QED
  BY <1>1, <1>2, <1>3, <1>4, <1>T, ReadsKept DEF ClientInv

\* The first read of the next client.
LEMMA StartRecvStep ==
    ASSUME ClientAssumption, ClientInv, StartRecv PROVE ClientInv'
<1>T. /\ TypeOK /\ ChainInv /\ FirstInv /\ QuietInv /\ N \in Nat \ {0} /\ i \in Clients
      /\ Clients = 1..N
  BY DEF ClientInv, TypeOK, ClientAssumption, Clients
<1>1. /\ phase = "startRecv" /\ UNCHANGED <<conns, ios, input>> /\ ReadSome(i)
      /\ IF i < N THEN i' = i + 1 /\ phase' = phase ELSE i' = 1 /\ phase' = "startIo"
  BY PhaseOrder DEF StartRecv, Turn
<1>2. PICK c \in Clients : c = i
  BY <1>T
<1>3. NoRead(c) /\ \A t \in IoThreads : io[t] = "new"
  BY <1>1, <1>2, <1>T DEF FirstInv
<1>4. /\ reading' \in [Clients -> BOOLEAN] /\ ready' \in Seq(Completions)
      /\ reading'[c] => Waits(ready', c) = {}
      /\ AtMostOne(Waits(ready', c))
      /\ \A d \in Clients : d # c => reading'[d] = reading[d] /\ Waits(ready', d) = Waits(ready, d)
  BY <1>1, <1>2, <1>3, <1>T, ReadSomeEffect
<1>5. i' \in Clients /\ phase' \in {"startRecv", "startIo"}
  BY <1>1, <1>T
<1>6. TypeOK'
  BY <1>1, <1>4, <1>5, <1>T, PhaseNames DEF TypeOK
<1>7. ChainInv'
  BY <1>1, <1>3, <1>4, <1>T DEF ChainInv, Chain, Running
<1>8. FirstInv'
  <2>1. phase' = "startRecv" => \A d \in Clients : d >= i' => NoRead(d)'
    <3>1. ASSUME NEW d \in Clients, phase' = "startRecv", d >= i' PROVE NoRead(d)'
      <4>1. d # c /\ d >= i
        BY <3>1, <1>1, <1>2, <1>T
      <4>2. NoRead(d)
        BY <4>1, <1>1, <1>T DEF FirstInv
      <4> QED
        BY <4>1, <4>2, <1>4 DEF NoRead
    <3> QED
      BY <3>1
  <2> QED
    BY <2>1, <1>1, <1>3, <1>5, ClientAssumption DEF FirstInv, ClientAssumption
<1>9. QuietInv'
  BY <1>1, <1>3, <1>5 DEF QuietInv
<1> QED
  BY <1>6, <1>7, <1>8, <1>9 DEF ClientInv

\* The threads start, the loop is tested, a chat is sent, or Enter is pressed.
LEMMA MainStep ==
    ASSUME ClientAssumption, ClientInv, StartThreads \/ TestStop \/ SendChat \/ Enter
    PROVE  ClientInv'
<1>T. /\ TypeOK /\ ChainInv /\ FirstInv /\ QuietInv /\ N \in Nat \ {0} /\ Window \in Nat
      /\ i \in Clients /\ Clients = 1..N /\ IoThreads # {}
  BY DEF ClientInv, TypeOK, ClientAssumption, Clients
<1>1. CASE StartThreads
  <2>1. /\ phase = "startIo" /\ phase' = "test" /\ io' = [t \in IoThreads |-> "run"]
        /\ waiter' = "getline" /\ UNCHANGED <<i, conns, reads, cur, stop>>
        /\ \A t \in IoThreads : io[t] = "new"
    BY <1>1, <1>T, PhaseOrder DEF StartThreads, FirstInv
  <2>2. TypeOK'
    BY <2>1, <1>T, PhaseNames DEF TypeOK
  <2>3. ChainInv'
    BY <2>1, <1>T DEF ChainInv, Chain, Running
  <2>4. FirstInv' /\ QuietInv'
    BY <2>1, <1>T DEF FirstInv, QuietInv
  <2> QED
    BY <2>2, <2>3, <2>4 DEF ClientInv
<1>2. CASE TestStop \/ Enter
  <2>1. /\ UNCHANGED <<i, conns, reads, ios>> /\ waiter' \in {"new", "getline", "exit"} /\ stop' \in BOOLEAN
        /\ \/ phase' = phase
           \/ phase = "test" /\ phase' \in {"send", "cleanup"}
    BY <1>2, <1>T DEF TestStop, Enter, TypeOK
  <2>2. TypeOK'
    BY <2>1, <1>T, PhaseNames DEF TypeOK
  <2>3. FirstInv' /\ QuietInv'
    BY <2>1, <1>T, ReadsKept DEF FirstInv, QuietInv, OutOfWork
  <2> QED
    BY <2>1, <2>2, <2>3, <1>T, ReadsKept DEF ClientInv
<1>3. CASE SendChat
  <2>1. /\ UNCHANGED <<sock, peer, arrived, reads, ios, input>> /\ i' \in Clients
        /\ phase = "send" /\ phase' \in {"send", "test"}
    BY <1>3, <1>T DEF SendChat, Turn
  <2>2. toServer' \in [Clients -> 0..Window]
    <3>1. toServer \in [Clients -> 0..Window]
      BY <1>T DEF TypeOK
    <3>2. \/ toServer' = [toServer EXCEPT ![i] = @ + 1] /\ toServer[i] < Window
          \/ toServer' = toServer
      BY <1>3 DEF SendChat
    <3>3. toServer[i] < Window => toServer[i] + 1 \in 0..Window
      BY <3>1, <1>T
    <3> QED
      BY <3>1, <3>2, <3>3, <1>T
  <2>3. TypeOK'
    BY <2>1, <2>2, <1>T, PhaseNames DEF TypeOK
  <2>4. FirstInv' /\ QuietInv'
    BY <2>1, <1>T, ReadsKept DEF FirstInv, QuietInv, OutOfWork
  <2> QED
    BY <2>1, <2>3, <2>4, <1>T, ReadsKept DEF ClientInv
<1> QED
  BY <1>1, <1>2, <1>3

\* A socket is closed, and its outstanding read aborted.
LEMMA CleanupStep ==
    ASSUME ClientAssumption, ClientInv, Cleanup PROVE ClientInv'
<1>T. /\ TypeOK /\ ChainInv /\ FirstInv /\ QuietInv /\ N \in Nat \ {0} /\ Window \in Nat
      /\ i \in Clients /\ Clients = 1..N /\ IoThreads # {}
      /\ reading \in [Clients -> BOOLEAN] /\ ready \in Seq(Completions)
  BY DEF ClientInv, TypeOK, ClientAssumption, Clients
<1>1. PICK c \in Clients : c = i
  BY <1>T
<1>2. PICK x \in Completions : x = [client |-> c, ec |-> TRUE]
  BY DEF Completions
<1>3. /\ phase = "cleanup" /\ phase' \in {"cleanup", "join"} /\ i' \in Clients
      /\ UNCHANGED <<peer, toServer, ios, input>>
  BY <1>T, PhaseOrder DEF Cleanup, Turn
<1>4. /\ reading' = [reading EXCEPT ![c] = FALSE]
      /\ ready' = IF reading[c] THEN Append(ready, x) ELSE ready
  BY <1>1, <1>2 DEF Cleanup
<1>5. x.client = c
  BY <1>2
<1>6. TypeOK'
  <2>1. /\ sock' \in [Clients -> {"none", "up", "unconnected", "closed"}]
        /\ arrived' \in [Clients -> 0..Window]
    BY <1>T DEF Cleanup, TypeOK
  <2>2. reading' \in [Clients -> BOOLEAN] /\ ready' \in Seq(Completions)
    BY <1>4, <1>T
  <2> QED
    BY <2>1, <2>2, <1>3, <1>T, PhaseNames DEF TypeOK
<1>7. ChainInv'
  <2>1. ASSUME NEW d \in Clients, d # c PROVE Chain(d)'
    <3>1. reading'[d] = reading[d] /\ Waits(ready', d) = Waits(ready, d)
      BY <2>1, <1>4, <1>5, <1>T, WaitsAppend
    <3>2. Chain(d)
      BY <1>T DEF ChainInv
    <3> QED
      BY <3>1, <3>2, <1>3 DEF Chain, Running
  <2>2. Chain(c)'
    <3>1. Chain(c)
      BY <1>T DEF ChainInv
    <3>2. ~reading'[c]
      BY <1>4, <1>T
    <3>3. CASE reading[c]
      <4>1. Waits(ready', c) = {Len(ready) + 1} /\ \A t \in IoThreads : ~Running(t, c)
        BY <3>1, <3>3, <1>4, <1>5, <1>T, WaitsAppend DEF Chain
      <4> QED
        BY <4>1, <3>2, <1>3 DEF Chain, Running, AtMostOne
    <3>4. CASE ~reading[c]
      <4>1. ready' = ready
        BY <3>4, <1>4
      <4> QED
        BY <4>1, <3>1, <3>2, <1>3 DEF Chain, Running
    <3> QED
      BY <3>3, <3>4
  <2> QED
    BY <2>1, <2>2 DEF ChainInv
<1>8. FirstInv'
  BY <1>3, <1>T DEF FirstInv
<1>9. QuietInv'
  <2>1. ASSUME NEW t \in IoThreads, io[t] = "exit" PROVE OutOfWork'
    <3>1. OutOfWork
      BY <2>1, <1>T DEF QuietInv
    <3>2. ready' = ready /\ \A d \in Clients : ~reading'[d]
      BY <3>1, <1>4, <1>T DEF OutOfWork
    <3> QED
      BY <3>1, <3>2, <1>3 DEF OutOfWork
  <2> QED
    BY <2>1, <1>3 DEF QuietInv
<1> QED
  BY <1>6, <1>7, <1>8, <1>9 DEF ClientInv

\* The threads are joined.
LEMMA JoinStep ==
    ASSUME ClientAssumption, ClientInv, Join PROVE ClientInv'
<1>T. TypeOK /\ ChainInv /\ FirstInv /\ QuietInv
  BY DEF ClientInv
<1>1. /\ phase = "join" /\ phase' = "return" /\ UNCHANGED <<i, conns, reads, ios, input>>
      /\ \A t \in IoThreads : io[t] = "exit"
  BY PhaseOrder DEF Join
<1>2. TypeOK'
  BY <1>1, <1>T, PhaseNames DEF TypeOK
<1>3. FirstInv'
  BY <1>1, <1>T DEF FirstInv
<1>4. QuietInv'
  BY <1>1, <1>T DEF QuietInv, OutOfWork
<1> QED
  BY <1>1, <1>2, <1>3, <1>4, <1>T, ReadsKept DEF ClientInv

\* What FirstInv and QuietInv say while a thread runs: main is past the first
\* reads, and has not returned.
LEMMA WhileRunning ==
    ASSUME ClientInv, NEW t \in IoThreads, io[t] \in {"run", "handler"}
    PROVE  /\ phase \notin {"connect", "startRecv", "startIo", "return"}
           /\ \A s \in IoThreads : io[s] # "new"
           /\ io[t] = "handler" \/ ready # <<>> => \A s \in IoThreads : io[s] # "exit"
<1>1. FirstInv /\ QuietInv /\ io[t] # "new" /\ io[t] # "exit"
  BY DEF ClientInv
<1>2. \A s \in IoThreads : io[s] # "new"
  BY <1>1 DEF FirstInv
<1>3. phase \notin {"connect", "startRecv", "startIo", "return"}
  BY <1>1, <1>2 DEF FirstInv, QuietInv
<1>4. io[t] = "handler" \/ ready # <<>> => \A s \in IoThreads : io[s] # "exit"
  BY <1>1 DEF QuietInv, OutOfWork
<1> QED
  BY <1>2, <1>3, <1>4

\* An io thread takes a completion.
LEMMA DispatchStep ==
    ASSUME ClientAssumption, ClientInv, NEW t \in IoThreads, Dispatch(t) PROVE ClientInv'
<1>T. /\ TypeOK /\ ChainInv /\ ready \in Seq(Completions) /\ ready # <<>> /\ io[t] = "run"
      /\ io \in [IoThreads -> {"new", "run", "handler", "exit"}]
      /\ cur \in [IoThreads -> Completions]
  BY DEF ClientInv, TypeOK, Dispatch
<1>1. PICK x \in Completions : x = Head(ready)
  BY <1>T
<1>2. /\ io' = [io EXCEPT ![t] = "handler"] /\ cur' = [cur EXCEPT ![t] = x]
      /\ ready' = Tail(ready) /\ UNCHANGED <<main, conns, reading, input>>
  BY <1>1 DEF Dispatch
<1>3. /\ phase \notin {"connect", "startRecv", "startIo", "return"}
      /\ \A s \in IoThreads : io[s] # "new" /\ io[s] # "exit"
  BY <1>T, WhileRunning
<1>4. TypeOK'
  <2>1. ready' \in Seq(Completions)
    BY <1>2, <1>T
  <2>2. /\ io' \in [IoThreads -> {"new", "run", "handler", "exit"}]
        /\ cur' \in [IoThreads -> Completions]
    BY <1>2, <1>T
  <2> QED
    BY <2>1, <2>2, <1>2, <1>T DEF TypeOK
<1>5. ChainInv'
  <2>1. ASSUME NEW d \in Clients PROVE Chain(d)'
    <3>1. Chain(d)
      BY <1>T DEF ChainInv
    <3>2. /\ AtMostOne(Waits(ready', d))
          /\ Waits(ready, d) = {} => Waits(ready', d) = {} /\ x.client # d
          /\ x.client = d => Waits(ready', d) = {} /\ Waits(ready, d) # {}
      BY <3>1, <1>1, <1>2, <1>T, WaitsTail DEF Chain
    <3>3. \A s \in IoThreads : IF s = t THEN Running(s, d)' <=> x.client = d
                                       ELSE Running(s, d)' <=> Running(s, d)
      BY <1>2, <1>T DEF Running
    <3>4. \A s \in IoThreads : s = t => ~Running(s, d)
      BY <1>T DEF Running
    <3>5. reading'[d] = reading[d]
      BY <1>2
    <3>6. CASE x.client = d
      <4>1. \A s \in IoThreads : ~Running(s, d)
        BY <3>1, <3>2, <3>6 DEF Chain
      <4> QED
        BY <4>1, <3>1, <3>2, <3>3, <3>5, <3>6 DEF Chain
    <3>7. CASE x.client # d
      <4>1. \A s \in IoThreads : Running(s, d)' <=> Running(s, d)
        BY <3>3, <3>4, <3>7
      <4> QED
        BY <4>1, <3>1, <3>2, <3>5 DEF Chain
    <3> QED
      BY <3>6, <3>7
  <2> QED
    BY <2>1 DEF ChainInv
<1>6. FirstInv' /\ QuietInv'
  <2>1. \A s \in IoThreads : io'[s] # "new" /\ io'[s] # "exit"
    BY <1>2, <1>3, <1>T
  <2> QED
    BY <2>1, <1>2, <1>3 DEF FirstInv, QuietInv
<1> QED
  BY <1>4, <1>5, <1>6 DEF ClientInv

\* A handler ends, and has registered the next read or none.
LEMMA HandlerStep ==
    ASSUME ClientAssumption, ClientInv, NEW t \in IoThreads, Handler(t) PROVE ClientInv'
<1>T. /\ TypeOK /\ ChainInv /\ ready \in Seq(Completions) /\ io[t] = "handler"
      /\ reading \in [Clients -> BOOLEAN]
      /\ io \in [IoThreads -> {"new", "run", "handler", "exit"}]
      /\ cur \in [IoThreads -> Completions]
  BY DEF ClientInv, TypeOK, Handler
<1>1. PICK c \in Clients : c = cur[t].client
  BY <1>T DEF Completions
<1>2. /\ io' = [io EXCEPT ![t] = "run"] /\ UNCHANGED <<main, conns, cur, input>>
      /\ UNCHANGED reads \/ ReadSome(c)
  BY <1>1 DEF Handler
<1>3. /\ phase \notin {"connect", "startRecv", "startIo", "return"}
      /\ \A s \in IoThreads : io[s] # "new" /\ io[s] # "exit"
  BY <1>T, WhileRunning
<1>4. Chain(c) /\ Running(t, c)
  BY <1>1, <1>T DEF ChainInv, Running
<1>5. NoRead(c) /\ \A s \in IoThreads : Running(s, c) => s = t
  BY <1>4 DEF Chain, NoRead
<1>6. /\ reading' \in [Clients -> BOOLEAN] /\ ready' \in Seq(Completions)
      /\ reading'[c] => Waits(ready', c) = {}
      /\ AtMostOne(Waits(ready', c))
      /\ \A d \in Clients : d # c => reading'[d] = reading[d] /\ Waits(ready', d) = Waits(ready, d)
  <2>1. CASE ReadSome(c)
    BY <2>1, <1>5, <1>T, ReadSomeEffect
  <2>2. CASE UNCHANGED reads
    BY <2>2, <1>5, <1>T DEF NoRead, AtMostOne
  <2> QED
    BY <2>1, <2>2, <1>2
<1>7. TypeOK'
  <2>1. io' \in [IoThreads -> {"new", "run", "handler", "exit"}]
    BY <1>2, <1>T
  <2> QED
    BY <2>1, <1>2, <1>6, <1>T DEF TypeOK
<1>8. \A d \in Clients : \A s \in IoThreads : Running(s, d)' <=> Running(s, d) /\ s # t
  BY <1>2, <1>T DEF Running
<1>9. ChainInv'
  <2>1. Chain(c)'
    BY <1>5, <1>6, <1>8 DEF Chain
  <2>2. ASSUME NEW d \in Clients, d # c PROVE Chain(d)'
    <3>1. Chain(d)
      BY <1>T DEF ChainInv
    <3> QED
      BY <2>2, <3>1, <1>6, <1>8 DEF Chain
  <2> QED
    BY <2>1, <2>2 DEF ChainInv
<1>10. FirstInv' /\ QuietInv'
  <2>1. \A s \in IoThreads : io'[s] # "new" /\ io'[s] # "exit"
    BY <1>2, <1>3, <1>T
  <2> QED
    BY <2>1, <1>2, <1>3 DEF FirstInv, QuietInv
<1> QED
  BY <1>7, <1>9, <1>10 DEF ClientInv

\* run() returns in an io thread.
LEMMA RunReturnsStep ==
    ASSUME ClientAssumption, ClientInv, NEW t \in IoThreads, RunReturns(t) PROVE ClientInv'
<1>T. /\ TypeOK /\ ChainInv /\ io[t] = "run" /\ OutOfWork
      /\ io \in [IoThreads -> {"new", "run", "handler", "exit"}]
      /\ io' = [io EXCEPT ![t] = "exit"] /\ UNCHANGED <<main, conns, reads, cur, input>>
  BY DEF ClientInv, TypeOK, RunReturns
<1>1. /\ phase \notin {"connect", "startRecv", "startIo", "return"}
      /\ \A s \in IoThreads : io[s] # "new"
  BY <1>T, WhileRunning
<1>2. TypeOK'
  <2>1. io' \in [IoThreads -> {"new", "run", "handler", "exit"}]
    BY <1>T
  <2> QED
    BY <2>1, <1>T DEF TypeOK
<1>3. \A s \in IoThreads : io'[s] # "handler" /\ io'[s] # "new"
  BY <1>1, <1>T DEF OutOfWork
<1>4. ChainInv'
  BY <1>3, <1>T DEF ChainInv, Chain, Running
<1>5. OutOfWork'
  BY <1>3, <1>T DEF OutOfWork
<1>6. FirstInv' /\ QuietInv'
  BY <1>1, <1>3, <1>5, <1>T DEF FirstInv, QuietInv
<1> QED
  BY <1>2, <1>4, <1>6 DEF ClientInv

\* A read completes.
LEMMA ReadCompletesStep ==
    ASSUME ClientAssumption, ClientInv, NEW c \in Clients, ReadCompletes(c) PROVE ClientInv'
<1>T. /\ TypeOK /\ ChainInv /\ FirstInv /\ QuietInv /\ reading[c] /\ IoThreads # {}
      /\ reading \in [Clients -> BOOLEAN] /\ ready \in Seq(Completions)
      /\ arrived \in [Clients -> 0..Window] /\ Window \in Nat
  BY DEF ClientInv, TypeOK, ReadCompletes, ClientAssumption
<1>1. PICK n \in 0..arrived[c] :
          /\ arrived' = [arrived EXCEPT ![c] = @ - n]
          /\ ready' = Append(ready, [client |-> c, ec |-> n = 0])
  BY DEF ReadCompletes
<1>2. PICK x \in Completions : x = [client |-> c, ec |-> n = 0]
  <2>1. PICK b \in BOOLEAN : b = (n = 0)
    OBVIOUS
  <2>2. [client |-> c, ec |-> b] \in Completions
    BY DEF Completions
  <2> QED
    BY <2>1, <2>2
<1>3. /\ ready' = Append(ready, x) /\ x.client = c /\ reading' = [reading EXCEPT ![c] = FALSE]
      /\ UNCHANGED <<main, sock, peer, toServer, ios, input>>
  BY <1>1, <1>2 DEF ReadCompletes
<1>4. /\ Waits(ready', c) = Waits(ready, c) \cup {Len(ready) + 1}
      /\ \A d \in Clients : d # c => Waits(ready', d) = Waits(ready, d)
  BY <1>3, <1>T, WaitsAppend
<1>5. TypeOK'
  <2>1. arrived' \in [Clients -> 0..Window]
    <3>1. arrived[c] \in 0..Window
      BY <1>T
    <3>2. arrived[c] - n \in 0..Window
      BY <3>1, <1>T
    <3> QED
      BY <3>2, <1>1, <1>T
  <2>2. ready' \in Seq(Completions) /\ reading' \in [Clients -> BOOLEAN]
    BY <1>3, <1>T
  <2> QED
    BY <2>1, <2>2, <1>3, <1>T DEF TypeOK
<1>6. ChainInv'
  <2>1. Chain(c)'
    <3>1. /\ Waits(ready, c) = {} /\ \A t \in IoThreads : ~Running(t, c)
      BY <1>T DEF ChainInv, Chain
    <3>2. \A t \in IoThreads : ~Running(t, c)'
      BY <3>1, <1>3 DEF Running
    <3>3. AtMostOne(Waits(ready', c)) /\ ~reading'[c]
      BY <3>1, <1>3, <1>4, <1>T DEF AtMostOne
    <3> QED
      BY <3>2, <3>3 DEF Chain
  <2>2. ASSUME NEW d \in Clients, d # c PROVE Chain(d)'
    <3>1. Chain(d)
      BY <1>T DEF ChainInv
    <3>2. reading'[d] = reading[d] /\ Waits(ready', d) = Waits(ready, d)
      BY <2>2, <1>3, <1>4, <1>T
    <3> QED
      BY <3>1, <3>2, <1>3 DEF Chain, Running
  <2> QED
    BY <2>1, <2>2 DEF ChainInv
<1>7. FirstInv'
  <2>1. \A d \in Clients : NoRead(d) => NoRead(d)'
    BY <1>3, <1>4, <1>T DEF NoRead
  <2> QED
    BY <2>1, <1>3, <1>T DEF FirstInv
<1>8. QuietInv'
  <2>1. \A t \in IoThreads : io[t] # "exit"
    BY <1>T DEF QuietInv, OutOfWork
  <2> QED
    BY <2>1, <1>3, <1>T DEF QuietInv
<1> QED
  BY <1>5, <1>6, <1>7, <1>8 DEF ClientInv

\* The server reads, sends or closes.
LEMMA ServerStep ==
    ASSUME ClientAssumption, ClientInv, NEW c \in Clients,
           ServerReads(c) \/ ServerSends(c) \/ ServerCloses(c)
    PROVE  ClientInv'
<1>T. /\ TypeOK /\ ChainInv /\ FirstInv /\ QuietInv /\ Window \in Nat
      /\ arrived \in [Clients -> 0..Window] /\ toServer \in [Clients -> 0..Window]
  BY DEF ClientInv, TypeOK, ClientAssumption
<1>1. /\ UNCHANGED <<main, sock, reads, ios, input>>
      /\ peer' \in [Clients -> {"up", "closed"}]
  BY <1>T DEF ServerReads, ServerSends, ServerCloses, TypeOK
<1>2. arrived' \in [Clients -> 0..Window] /\ toServer' \in [Clients -> 0..Window]
  <2>1. arrived[c] \in 0..Window /\ toServer[c] \in 0..Window
    BY <1>T
  <2>2. CASE ServerReads(c)
    <3>1. toServer[c] - 1 \in 0..Window
      BY <2>1, <2>2, <1>T DEF ServerReads
    <3> QED
      BY <2>2, <3>1, <1>T DEF ServerReads
  <2>3. CASE ServerSends(c)
    <3>1. arrived[c] + 1 \in 0..Window
      BY <2>1, <2>3, <1>T DEF ServerSends
    <3> QED
      BY <2>3, <3>1, <1>T DEF ServerSends
  <2>4. CASE ServerCloses(c)
    BY <2>4, <1>T DEF ServerCloses
  <2> QED
    BY <2>2, <2>3, <2>4
<1>3. TypeOK'
  BY <1>1, <1>2, <1>T DEF TypeOK
<1>4. FirstInv' /\ QuietInv'
  BY <1>1, <1>T, ReadsKept DEF FirstInv, QuietInv, OutOfWork
<1> QED
  BY <1>1, <1>3, <1>4, <1>T, ReadsKept DEF ClientInv

\* Every step keeps the invariant.
LEMMA ClientStep == ASSUME ClientAssumption, ClientInv, [Next]_vars PROVE ClientInv'
<1>1. CASE Main
  BY <1>1, ConnectStep, StartRecvStep, MainStep, CleanupStep, JoinStep DEF Main
<1>2. ASSUME NEW t \in IoThreads, Io(t) PROVE ClientInv'
  BY <1>2, DispatchStep, HandlerStep, RunReturnsStep DEF Io
<1>3. CASE Enter
  BY <1>3, MainStep
<1>4. ASSUME NEW c \in Clients,
             ReadCompletes(c) \/ ServerReads(c) \/ ServerSends(c) \/ ServerCloses(c)
      PROVE  ClientInv'
  BY <1>4, ReadCompletesStep, ServerStep
<1>5. CASE UNCHANGED vars
  <2>1. TypeOK /\ ChainInv /\ FirstInv /\ QuietInv
    BY DEF ClientInv
  <2>2. UNCHANGED <<main, conns, reads, ios, input>>
    BY <1>5 DEF vars
  <2>3. TypeOK'
    BY <2>1, <2>2 DEF TypeOK
  <2>4. FirstInv' /\ QuietInv'
    BY <2>1, <2>2, ReadsKept DEF FirstInv, QuietInv, OutOfWork
  <2> QED
    BY <2>1, <2>2, <2>3, <2>4, ReadsKept DEF ClientInv
<1> QED
  BY <1>1, <1>2, <1>3, <1>4, <1>5 DEF Next

(***************************************************************************)
(* Theorems.                                                               *)
(***************************************************************************)

\* ClientInv holds in every state of the load client (main.cpp 40-223).
THEOREM ClientInvariance == Spec => []ClientInv
<1>1. Init => ClientInv
  BY InitClientInv, ClientAssumption
<1>2. ClientInv /\ [Next]_vars => ClientInv'
  BY ClientStep, ClientAssumption
<1> QED
  BY <1>1, <1>2, PTL DEF Spec

\* The state of the load client has its type.
THEOREM ClientTypeCorrect == Spec => []TypeOK
<1>1. ClientInv => TypeOK
  BY DEF ClientInv
<1> QED
  BY <1>1, ClientInvariance, PTL

\* main returns, and destroys the io_context, only when no read is outstanding, no
\* completion waits and no handler runs (main.cpp 208-223): however many clients
\* and io threads there are, and whatever the server did to the connections.
THEOREM ReturnsQuiet == Spec => []QuietAtReturn
<1>1. ClientInv => QuietAtReturn
  BY ClientAssumption DEF ClientAssumption, ClientInv, QuietInv, QuietAtReturn
<1> QED
  BY <1>1, ClientInvariance, PTL

\* The chain of reads of a client never forks (main.cpp 85-109), so its receive
\* buffer needs no lock although any io thread may run its handler and the main
\* thread closes its socket.
THEOREM ReadsNeverFork == Spec => []OneRead
<1>1. ChainInv => OneRead
  BY DEF ChainInv, Chain, Waits, AtMostOne, Running, OneRead
<1>2. ClientInv => ChainInv
  BY DEF ClientInv
<1> QED
  BY <1>1, <1>2, ClientInvariance, PTL
==============================================================================
