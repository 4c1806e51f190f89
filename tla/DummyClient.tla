---------------------------- MODULE DummyClient ----------------------------
(***************************************************************************)
(* The C++ load client (TopViewDummyCLient/main.cpp): the main thread that *)
(* connects N sockets, sends a chat on each of them round after round and  *)
(* shuts down; the io threads that run the completion handlers of the      *)
(* sockets' reads; and the waiter thread that turns Enter into stop.       *)
(*                                                                         *)
(* The main thread closes sockets while io threads run handlers that read  *)
(* from them, with no lock and no strand.  Whichever comes first, a read   *)
(* on a closed socket completes with an error.                             *)
(*                                                                         *)
(* The server is the environment: it reads what it is sent, sends when it  *)
(* likes, and may close a connection.                                      *)
(***************************************************************************)
EXTENDS Naturals, Sequences

CONSTANTS
    N,          \* clientCount; 1000 in the code
    IoThreads,  \* the threads of ioThreads; 2 in the code
    Window      \* bound: messages one direction of a connection holds

ASSUME ClientAssumption ==
    /\ N \in Nat \ {0}
    /\ IoThreads # {}
    /\ Window \in Nat \ {0}

Clients == 1..N

VARIABLES
    phase,     \* the part of main the main thread is in
    i,         \* the index of the loop it is in
    sock,      \* sockets[i]: "none", "up", "unconnected" (connect failed), "closed"
    peer,      \* the server's end: "up" or "closed"
    toServer,  \* messages written and not yet read by the server
    arrived,   \* messages that wait to be read by the client
    reading,   \* an async_read_some is outstanding
    ready,     \* io_context's queue of completed reads: [client, ec]
    io,        \* io thread t: "new", "run", "handler" or "exit"
    cur,       \* the completion whose handler io thread t runs
    waiter,    \* "new", "getline" or "exit"
    stop       \* the atomic flag

main  == <<phase, i>>
conns == <<sock, peer, toServer, arrived>>
reads == <<reading, ready>>
ios   == <<io, cur>>
input == <<waiter, stop>>

vars == <<main, conns, reads, ios, input>>

Completions == [client : Clients, ec : BOOLEAN]

\* Faulty variant: the io threads start before the first reads.
PhasesIoFirst == <<"connect", "startIo", "startRecv", "test", "send", "cleanup", "join", "return">>

\* main, in order; "test" is the condition of the send loop.
Phases == <<"connect", "startRecv", "startIo", "test", "send", "cleanup", "join", "return">>

After(ph) == CHOOSE next \in {Phases[n] : n \in DOMAIN Phases} :
                 \E n \in 2..Len(Phases) : Phases[n] = next /\ Phases[n - 1] = ph

TypeOK ==
    /\ phase \in {Phases[n] : n \in DOMAIN Phases}
    /\ i \in Clients
    /\ sock \in [Clients -> {"none", "up", "unconnected", "closed"}]
    /\ peer \in [Clients -> {"up", "closed"}]
    /\ toServer \in [Clients -> 0..Window]
    /\ arrived \in [Clients -> 0..Window]
    /\ reading \in [Clients -> BOOLEAN]
    /\ ready \in Seq(Completions)
    /\ io \in [IoThreads -> {"new", "run", "handler", "exit"}]
    /\ cur \in [IoThreads -> Completions]
    /\ waiter \in {"new", "getline", "exit"}
    /\ stop \in BOOLEAN

Init ==
    /\ phase = "connect"
    /\ i = 1
    /\ sock = [c \in Clients |-> "none"]
    /\ peer = [c \in Clients |-> "up"]
    /\ toServer = [c \in Clients |-> 0]
    /\ arrived = [c \in Clients |-> 0]
    /\ reading = [c \in Clients |-> FALSE]
    /\ ready = <<>>
    /\ io = [t \in IoThreads |-> "new"]
    /\ cur = [t \in IoThreads |-> [client |-> 1, ec |-> FALSE]]
    /\ waiter = "new"
    /\ stop = FALSE

\* sock->is_open(): a failed connect leaves the socket open.
IsOpen(c) == sock[c] \in {"up", "unconnected"}

-----------------------------------------------------------------------------
(* The main thread. *)

\* Faulty variant: one turn too many.
TurnPast(ph, next) ==
    /\ phase = ph
    /\ IF i <= N THEN i' = i + 1 /\ UNCHANGED phase
                 ELSE i' = 1 /\ phase' = next

\* One turn of a loop over the clients; after the last one the next part.
Turn(ph, next) ==
    /\ phase = ph
    /\ IF i < N THEN i' = i + 1 /\ UNCHANGED phase
                ELSE i' = 1 /\ phase' = next

Connect ==
    /\ Turn("connect", After("connect"))
    /\ \E s \in {"up", "unconnected"} : sock' = [sock EXCEPT ![i] = s]
    /\ UNCHANGED <<peer, toServer, arrived, reads, ios, input>>

\* async_read_some by whoever calls it: outstanding, or complete with an error
\* when the socket is not connected or has been closed.
ReadSome(c) ==
    /\ reading' = [reading EXCEPT ![c] = sock[c] = "up"]
    /\ ready' = IF sock[c] = "up" THEN ready
                                  ELSE Append(ready, [client |-> c, ec |-> TRUE])

StartRecv ==
    /\ Turn("startRecv", After("startRecv"))
    /\ ReadSome(i)
    /\ UNCHANGED <<conns, ios, input>>

\* Both io threads and the waiter are started.
StartThreads ==
    /\ phase = "startIo"
    /\ phase' = After("startIo")
    /\ io' = [t \in IoThreads |-> "run"]
    /\ waiter' = "getline"
    /\ UNCHANGED <<i, conns, reads, cur, stop>>

\* while (!stop)
TestStop ==
    /\ phase = "test"
    /\ phase' = IF stop THEN "cleanup" ELSE "send"
    /\ UNCHANGED <<i, conns, reads, ios, input>>

\* Faulty variant: a read is registered with every write.
SendChatReads ==
    /\ Turn("send", "test")
    /\ sock[i] = "up" /\ toServer[i] < Window
    /\ toServer' = [toServer EXCEPT ![i] = @ + 1]
    /\ ReadSome(i)
    /\ UNCHANGED <<sock, peer, arrived, ios, input>>

\* One client's turn: a blocking write, which waits for room unless the
\* connection is broken.  The loop ends in the sleep, and the test again.
SendChat ==
    /\ Turn("send", "test")
    /\ \/ /\ sock[i] = "up" /\ toServer[i] < Window
          /\ toServer' = [toServer EXCEPT ![i] = @ + 1]
       \/ /\ sock[i] # "up" \/ peer[i] = "closed"
          /\ UNCHANGED toServer
    /\ UNCHANGED <<sock, peer, arrived, reads, ios, input>>

\* close() aborts the outstanding read.
Cleanup ==
    /\ Turn("cleanup", After("cleanup"))
    /\ sock' = [sock EXCEPT ![i] = IF IsOpen(i) THEN "closed" ELSE @]
    /\ arrived' = [arrived EXCEPT ![i] = 0]
    /\ reading' = [reading EXCEPT ![i] = FALSE]
    /\ ready' = IF reading[i] THEN Append(ready, [client |-> i, ec |-> TRUE]) ELSE ready
    /\ UNCHANGED <<peer, toServer, ios, input>>

\* Faulty variant: the io threads are not joined.
JoinWaiterOnly ==
    /\ phase = "join"
    /\ waiter = "exit"
    /\ phase' = After("join")
    /\ UNCHANGED <<i, conns, reads, ios, input>>

\* join returns once a thread has ended; the waiter first, then the io threads.
Join ==
    /\ phase = "join"
    /\ waiter = "exit"
    /\ \A t \in IoThreads : io[t] = "exit"
    /\ phase' = After("join")
    /\ UNCHANGED <<i, conns, reads, ios, input>>

Main == Connect \/ StartRecv \/ StartThreads \/ TestStop \/ SendChat \/ Cleanup \/ Join

-----------------------------------------------------------------------------
(* The io threads: io_context::run, and the waiter. *)

\* A thread takes the next completion.
Dispatch(t) ==
    /\ io[t] = "run"
    /\ ready # <<>>
    /\ io' = [io EXCEPT ![t] = "handler"]
    /\ cur' = [cur EXCEPT ![t] = Head(ready)]
    /\ ready' = Tail(ready)
    /\ UNCHANGED <<main, conns, reading, input>>

\* Faulty variant: the next read is registered after an error as well.
HandlerAlwaysRearms(t) ==
    /\ io[t] = "handler"
    /\ ReadSome(cur[t].client)
    /\ io' = [io EXCEPT ![t] = "run"]
    /\ UNCHANGED <<main, conns, cur, input>>

\* The handler of a read: the next read, unless there was an error.
Handler(t) ==
    /\ io[t] = "handler"
    /\ IF cur[t].ec THEN UNCHANGED reads ELSE ReadSome(cur[t].client)
    /\ io' = [io EXCEPT ![t] = "run"]
    /\ UNCHANGED <<main, conns, cur, input>>

\* run() returns when the io_context is out of work.
OutOfWork ==
    /\ \A c \in Clients : ~reading[c]
    /\ ready = <<>>
    /\ \A t \in IoThreads : io[t] # "handler"

RunReturns(t) ==
    /\ io[t] = "run"
    /\ OutOfWork
    /\ io' = [io EXCEPT ![t] = "exit"]
    /\ UNCHANGED <<main, conns, reads, cur, input>>

Io(t) == Dispatch(t) \/ Handler(t) \/ RunReturns(t)

\* The user presses Enter, or the input ends.
Enter ==
    /\ waiter = "getline"
    /\ waiter' = "exit"
    /\ stop' = TRUE
    /\ UNCHANGED <<main, conns, reads, ios>>

-----------------------------------------------------------------------------
(* The network and the server. *)

\* A read completes with data, or at the end of the stream.
ReadCompletes(c) ==
    /\ reading[c]
    /\ arrived[c] > 0 \/ peer[c] = "closed"
    /\ \E n \in 0..arrived[c] :
        /\ n = 0 <=> arrived[c] = 0
        /\ arrived' = [arrived EXCEPT ![c] = @ - n]
        /\ ready' = Append(ready, [client |-> c, ec |-> n = 0])
    /\ reading' = [reading EXCEPT ![c] = FALSE]
    /\ UNCHANGED <<main, sock, peer, toServer, ios, input>>

ServerReads(c) ==
    /\ toServer[c] > 0
    /\ toServer' = [toServer EXCEPT ![c] = @ - 1]
    /\ UNCHANGED <<main, sock, peer, arrived, reads, ios, input>>

ServerSends(c) ==
    /\ sock[c] = "up" /\ peer[c] = "up"
    /\ arrived[c] < Window
    /\ arrived' = [arrived EXCEPT ![c] = @ + 1]
    /\ UNCHANGED <<main, sock, peer, toServer, reads, ios, input>>

ServerCloses(c) ==
    /\ sock[c] = "up" /\ peer[c] = "up"
    /\ peer' = [peer EXCEPT ![c] = "closed"]
    /\ UNCHANGED <<main, sock, toServer, arrived, reads, ios, input>>

-----------------------------------------------------------------------------

Next ==
    \/ Main
    \/ \E t \in IoThreads : Io(t)
    \/ Enter
    \/ \E c \in Clients : ReadCompletes(c) \/ ServerReads(c) \/ ServerSends(c) \/ ServerCloses(c)

Spec == Init /\ [][Next]_vars

\* Threads that can run do run, TCP completes reads, and the server reads what it
\* is sent (its workers never wait for a client).  Nobody has to press Enter.
FairSpec ==
    /\ Spec
    /\ WF_vars(Main)
    /\ \A t \in IoThreads : WF_vars(Io(t))
    /\ \A c \in Clients : WF_vars(ReadCompletes(c)) /\ WF_vars(ServerReads(c))

-----------------------------------------------------------------------------
(* Properties. *)

\* main returns, and destroys the io_context, only when no read is outstanding,
\* no completion waits and no handler runs (main.cpp 208-223), although the
\* sockets were closed under the handlers' feet.
QuietAtReturn == phase = "return" => OutOfWork

\* A client's receive buffer has no lock: the chain of reads never forks, and it
\* ends only for good (main.cpp 85-109).
OneRead ==
    \A c \in Clients :
        LET queued  == {n \in DOMAIN ready : ready[n].client = c}
            running == {t \in IoThreads : io[t] = "handler" /\ cur[t].client = c}
        IN  /\ reading[c] => queued = {} /\ running = {}
            /\ \A m, n \in queued : m = n
            /\ \A s, t \in running : s = t
            /\ queued = {} \/ running = {}

\* Enter stops the client (main.cpp 134-140, 159, 208-223): the round in progress
\* ends although its writes block, closing the sockets ends every chain of reads,
\* the io threads run out of work and main returns.
Terminates == stop ~> phase = "return"

\* As long as a connection is up the client goes on reading (main.cpp 85-125): a
\* full window opens again, so the server's writes to it never pile up for good.
KeepsReading ==
    \A c \in Clients : arrived[c] = Window ~> arrived[c] < Window
==============================================================================
