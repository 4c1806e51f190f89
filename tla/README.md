# A verification project for TopViewMultiGame

TLA+ modules, TLC configurations and TLAPS proofs for the chat server of
TopViewMultiGame (`src/Server`) and its two load clients. The server is a
C++/Boost.Asio program: clients connect over TCP, send `C_CHAT` packets, and every
chat is broadcast to every player in the one room.

## 1. The system

| Part | State | Operations | Works with |
|---|---|---|---|
| `main.cpp` | 17 worker threads (`tWorkerThread`), the io_context | set up packet table, listener, room, then run the workers | all |
| `Listener` | the acceptor; one outstanding `async_accept` | `Start`, `DoAccept` and its completion handler | `SessionManager`, `Session` |
| `SessionManager` | `ClientNo`, `sessions` under a mutex | `AddSession`, `RemoveSession`, `FindSession`, `Broadcast` | `Listener` |
| `Session` | socket, player, `recvBuffer`, `sendlock` | `Start`, `EnterRoom`, `RegisterRecv`, `ProcessRecv`, `Send`, `Close` | `Room`, packet table |
| `RecvBuffer` | 40960 bytes, `readPos`, `writePos` | positions, sizes, `Clear` | `Session` |
| `PacketHandler` | `GPacketHandler`, a table of handlers by packet id | `Init`, `HandlePacket`, `Handle_C_CHAT` | `Session`, `Room` |
| `Room` | `_players`, `ETCQueue`, `_pendingMSG` under `_lock`; `cv` | `EnterObject`, `ExitObject`, `PushETCJob`, `BroadcastSerialized`, `Flush` | `Player`, `Session` |
| `Player`, `Object` | id, weak pointers to room and session | getters and setters, `SetId` | `Room`, `Session` |
| C++ load client | sockets, two io threads, a stop flag | connect, send in a loop, close, join | the server, over TCP |
| C# load client | sessions over ServerCore (not in the repository) | connect, send | the server, over TCP |

How a chat travels: a worker runs the completion handler of the session's read,
`ProcessRecv` cuts frames out of `recvBuffer`, `Handle_C_CHAT` serializes the
answer and pushes a job on `ETCQueue`, and notifies `cv`. A `Flush` thread
swaps `ETCQueue` out, executes the jobs (each appends to `_pendingMSG`), swaps
`_pendingMSG` out together with a snapshot of `_players`, and hands the batch to
`Session::Send` of every player in the snapshot, without the lock.

What is hard here: the three critical sections of `Flush` with the gaps between
them; a notification given outside the lock; jobs that take the lock `Flush` has
just released; a snapshot that is stale when used; a receive buffer without a
lock that is handed from one worker to the next; an accept chain that must
survive errors; a TCP stream that splits frames anywhere and a buffer that can
fill; writes started on a socket while earlier ones are outstanding, and a socket
closed under them; tables of functions without a lock, filled while the program
comes up; a load client whose main thread closes the sockets its io threads read
from; two load clients and a server that do not agree on the numbers of messages.
`PROJECT.json` lists these hazards with their lines.

What makes each part correct:

- **Room**: nothing lost, nothing twice, one order for all, everything arrives.
- **Session, receive path**: frames are cut exactly as they were built; a session
  is closed only for cause; it never wedges.
- **Listener, SessionManager, Session, workers**: one accept chain; one user of a
  receive buffer; nothing used before it is set; a session per connection;
  the chats of a client stay in order; every client gets in; every chat reaches
  everybody.
- **Session, send path**: a frame is written as its header says; what reaches TCP of
  a batch is a prefix of it; a batch is in one piece; every write ends.
- **Start-up**: tables are filled before they are read; `run()` has work; every
  player has an id of its own.
- **Load clients**: Enter stops the C++ client with nothing left running; reads go
  on and never fork; the C# client's dictionary is not changed under an
  enumeration, and all its sessions open.

## 2. The modules

| Module | What it is |
|---|---|
| `ChatBroadcast` | abstract specification: one log of chats, each player is handed consecutive stretches of it |
| `Room` | `Room.cpp`: workers, `Flush` threads, `_lock`, `cv`, the queues; implements `ChatBroadcast` |
| `RoomInv` | the inductive invariants of `Room` |
| `RoomProofs` | types, `NothingLost` and `NoDuplicates`, for any number of threads |
| `RoomOrderProofs` | one order and the refinement, for one `Flush` thread |
| `FrameChannel` | abstract specification: a channel of whole frames, from the server to a client |
| `SessionRecv` | `RecvBuffer.h` and the framing loop of `Session.cpp`, byte by byte |
| `SendPath` | `Session::Send`, `async_write` and `Close`, byte by byte; implements `FrameChannel` as long as batches fit in one transfer |
| `ChatServer` | `Listener`, `SessionManager`, `Session`, the workers; **extends `Room`** and takes its actions as the calls workers make |
| `Startup` | `main.cpp`, `Listener::Start`, `Room::Init`, `InitObjectTable`, `Object::SetId`, and the first workers |
| `DummyClient` | the C++ load client: main, io and waiter threads |
| `LoadClients` | the C# load client, and how the server dispatches what the clients send |
| `StdMap` | `emplace` and `operator[]` of a map, used by `ChatServer`, `Startup` and `LoadClients` |
| `SessionRecvProofs`, `SendPathProofs`, `ChatServerProofs`, `StartupProofs`, `DummyClientProofs`, `LoadClientsProofs` | the inductive invariant of the module whose name comes first, and the theorems about it |
| `MC...` | instances for TLC of the module whose name follows `MC` |

Each module has, next to an operation, *faulty variants* of it: the operation
with one plausible mistake. They are in no specification. They are there so that
one can see every property fail when the code is wrong in a way the property is
about; `PROJECT.json` says which goes with which.

### Room

A critical section is two steps, taking `_lock` (`LockEnter`, `LockPush`,
`LockFlush`, ...) and the body with the release (`EnterObject`, `PushETCJob`,
`TakeJobs`, ...), so waiting for the lock is visible. `NotifyOne` is a step of
its own, after the release, as in the code; with nobody waiting it does nothing.
`WaitForJobs` blocks and releases in one step, which is what a condition variable
guarantees; `SpuriousWakeup` may happen at any time. `BroadcastSerialized` takes
`_lock` again for every job. `SendTo` is one turn of the loop over the snapshot,
in any order, because `_players` is an `unordered_map`.

A chat is its number in the order of pushes; the history variables `pushed`,
`joined` and `sent` record what was pushed, when a player entered, and what its
session was given. `ExitObject` and the expiry of a session are part of the
room's interface and are modelled although the program does not use them yet.

### SessionRecv

A byte is its offset in the client's stream, so "the handler was given the right
bytes" is an equation. `ReadSome` takes any number of bytes that have arrived and
fit. A header is readable when the bytes at `readPos` are those of the start of a
frame; had framing been lost, `HeaderAt` would allow any header at all. `Clear`
is assumed to move bytes even when source and destination overlap. The code calls
`memcpy`, which does not promise that, and the operands do overlap when more is left
in the buffer than was consumed; the run-time of the project's compiler moves them
all the same. Nothing here would notice a library that does not. A read into a full buffer completes with
length 0, which is how a frame larger than the buffer ends the session.

Assumed of clients (`RecvAssumption`): the size in a header counts the header.
Both clients of the repository do that; `ProcessRecv` does not check it.

### SendPath

Again a byte is an offset, here in the stream that would arise if the batches
were written one after the other. `Send` computes sizes in 16 bits as the code does,
lays frames out at `writePos`, and starts a write whatever else is outstanding. The
first transfer (at most `Chunk` bytes; 65536 in Boost.Asio) is issued by the `Flush`
thread inside `async_write`; each later one by the worker that runs the completion
of the one before (`WriteMore`). Transfers are served in the order in which they
were issued, so those of two batches can alternate. `Close` is what a worker does in
the read handler, between any two of these steps; transfers in the socket then fail,
and a write on the closed socket completes with an error.

A batch of more than `Chunk` bytes can therefore be torn: bytes of the next batch
arrive in its middle and the client loses framing. The model has these behaviours,
and no line of the repository claims they are impossible, so no run is about that
alone; `SmallBatchesWhole` says exactly how far the harm goes, and `Undivided` is the
point up to which the refinement to `FrameChannel` is stated. A batch reaches 65536
bytes only when `Flush` finds that many chats queued.

All this assumes that a transfer that completes without an error is whole. It is so
for the overlapped sends of Windows, for which the server is built. Where
`async_write_some` may complete short, `async_write` issues the rest from a worker as
for a large batch, and `SmallBatchesWhole` would not hold.

### Startup

`main` runs through `Phases`; workers are started one by one and run handlers while
others are still to be started. Connections can be made as soon as the listener
listens, before the room is initialised. An accept may fail, with or without using up
a client that waits, and the handler goes on to `DoAccept`. A read completes with data,
with length 0 or with an error; the last two close the session, and `RegisterRecv`
issues no read on a closed socket, so all sessions may be gone while the server runs.
That is when `NeverOutOfWork` rests on the accept chain alone. `_insertObjectTable[3]` and
`_eraseObjectTable[3]` are adjacent members, so they are six cells and an index of 3
in the first is cell 0 of the second; index 3 in the second lies past both, where
`_lock` is declared. What that last store does to the mutex is not modelled.

### DummyClient

The main thread's loops over the clients are walked one client at a time. A
failed `connect` leaves the socket open, and reads and writes on it fail; the code
goes on with it, and so does the model. Completions wait in the queue of the
`io_context` and are taken by either io thread; `run()` returns when nothing is
outstanding, queued or running. A blocking `write` waits while the connection's
window is full (`Window` messages) and the peer has not closed.

### LoadClients

`Generate`, `Add` (one critical section in two steps), the socket's start and
`OnConnected` run on the threads on which connects complete; `SendForEach` walks the
dictionary on the main thread with the lock held, then sleeps without it. The
Connector and the sessions' socket handling belong to ServerCore, which is not in the
repository; they are modelled from how they are used and marked external.

The C# client numbers `C_ClassChoice` 1, which is `C_CHAT` for the server. Its one
field has the number of the chat's text and another wire type, so the message
parses as a chat without a text and is broadcast as such; `C_PlayerMove` (5) finds no
entry and is skipped. `chats` records what reached `Handle_C_CHAT` and from whom. No
property calls this dispatch right: `IdsAsInProtocol` is about the disagreement with
`Protocol.proto`, and `EverySessionOpens` says only that `C_ClassChoice` becomes the next
frame the server takes from the session, whatever its table makes of it.

### ChatServer

A worker that is idle takes a ready handler; `at` is its position in it.
Positions are split where another thread could tell: between `AddSession`,
`Start`, entering the room, the first read and `DoAccept`, and around each call
into the room. The receive buffer is abstracted to the chats it holds. A failed accept
may use up a client of the backlog or leave it there. What a session is handed ends
at the call of `Session::Send`; what becomes of it on the wire is `SendPath`.
`Disconnect` covers a client that goes and one whose last frame does not fit;
`RecvClose` is what the server does about either.

## 3. The runs

| Run | Instance | Checks |
|---|---|---|
| `room` | 2 workers, 1 consumer, 2 players, 3 chats | `TypeOK`, `NothingLost`, `SameOrder`, refinement `ImplementsBroadcast` |
| `room_two_flush` | 2 workers, 2 consumers, 1 player, 3 chats | `NothingLost`, `NoDuplicates`, liveness `EveryChatArrives` |
| `recv` | buffer of 5 bytes, header of 2, frames of 2 to 6, 3 frames | `TypeOK`, `FramesExact`, `ClosedForCause`, liveness `EveryFrameHandled`, `OversizeCloses` |
| `server` | 2 workers, 1 consumer, 2 clients, 2 chats each | `ServerTypeOK`, `AcceptChain`, `RecvExclusive`, `StartedBeforeUse`, `SessionsIndexed`, `PerSenderOrder`, `HeardInOrder` |
| `server_live` | 2 workers, 1 consumer, 2 clients, 1 chat each | liveness `EveryClientEnters`, `EveryChatReachesAll` |
| `server_release` | 1 worker, 1 client | `ClosedSessionsReleased`: **violated** |
| `send` | transfers of 4 bytes, header of 2, frames of 2 or 3, batches of 1 to 3 frames, 2 batches | `TypeOK`, `WritesComplete`, `SmallBatchesWhole`, refinement `ImplementsChannel`, liveness `EveryWriteEnds` |
| `startup` | 3 workers, 4 connections | `TypeOK`, `TablesReady`, `NobodyReplaced`, `NeverOutOfWork` |
| `object_tables` | 1 worker, 1 connection | `TablesAsCommented`: **violated** |
| `client` | 2 sockets, 2 io threads, a window of 1 | `TypeOK`, `QuietAtReturn`, `OneRead`, liveness `Terminates`, `KeepsReading` |
| `load` | 2 connector threads, 3 sessions, 2 frames in a stream | `TypeOK`, `AddSafe`, liveness `EverySessionOpens` |
| `proto_ids` | 1 connector thread, 1 session | `IdsAsInProtocol`: **violated** |

Why the bounds are enough for the interesting cases:

- Three chats let one be in a batch being sent, one in `_pendingMSG` or
  `localQueue` and one in `ETCQueue`, all at once. Two workers are one inside a
  call and one waiting for the lock or about to notify. Two players are one in
  the snapshot and one that enters, leaves or expires meanwhile.
- A buffer of 5 with headers of 2 has frames that fill it exactly, frames that
  leave one byte (half a header), frames with an empty body, two frames in one
  read, and frames one byte too large; three frames let compaction happen twice.
- Two workers and two clients are enough for a handler of each session, or the
  accept handler and a read handler, to run at once.
- With transfers of 4 bytes, a batch of 9 needs three, one of 4 fills one exactly and
  one of 5 leaves a byte over; a second batch can come before, between or after the
  transfers of the first, and closing can come anywhere. TCP takes any number of
  bytes at a time.
- Three workers are one that accepts, one that reads and one not yet started; four
  connections let more clients come than there are workers, and new ones come after all
  earlier sessions have been closed.
- Two sockets and two io threads let a handler of each run while main closes the
  other. A window of 1 makes writes block at once.
- Two connector threads contend with each other and with `SendForEach` for the lock;
  three sessions let one be added while two are enumerated.
- Bounds (`MaxPush`, `MaxFrames`, `MaxChats`, `MaxSends`, `MaxBatch`, `MaxSessions`) only
  limit what callers and clients do; they are guards on the first step of a call.
  `Window` and, in `LoadClients`, `MaxFrames` are the room in a connection: a sender
  waits until the other side has read.

Symmetry under permutations of workers and of players is used in `room` and `server`,
and of workers and of connections in `startup`; none of them checks liveness.

`CHECK_DEADLOCK FALSE` is given for `recv`, `send` and `client`: a session whose client
has closed and whose data has been read stops, and so does a closed session; the
batches to send are bounded; the load client ends. In the other runs a deadlock would
be an error of the program, and there is none.

### Fairness

A thread that can take a step takes one eventually: weak fairness, with one
exception.

- `room_two_flush` asks it of the steps that finish a call and of each `Flush` thread;
  no caller has to call. `cv.wait` may wake up spuriously, but not for ever: a mutex
  promises no fairness, and a consumer could be passed over again and again by the
  spurious wake-ups of the other. Otherwise weak fairness is enough for the lock
  because calls are finite in number.
- `server_live` asks it of every worker (`io_context::run` picks up ready handlers)
  and of `Flush`, with the same assumption on spurious wake-ups. An accept may fail any number of times
  but not for ever: a client that waits cannot get in while every accept fails. Clients
  owe nothing.
- `recv`: the handler of the session is fair; data that has arrived is read.
- `send`: a worker takes a completion that is ready, and TCP moves bytes while the
  client is there, since the load client keeps reading (`KeepsReading` of `DummyClient`).
  A client that stays connected and stops reading would keep its writes outstanding
  for as long as it likes; the server has no timeout and no limit. `EveryWriteEnds` says
  nothing about such a client, and the models do not cover the memory it would cost.
- `client`: the main and io threads are fair, reads complete when there is data or an
  error, and the server reads what it is sent (its workers never wait for a client).
  Nobody has to press Enter.
- `load`: the main loop and the server are weakly fair; the connector threads are
  strongly fair, because the main thread takes the lock over and over and releases
  it for a sleep in every round.

### The findings

`server_release` states what `main.cpp` line 6 says of clients that have gone,
that their destructor is called: a closed session is released eventually. It is
not. After a failed read `Session::Close` closes the socket, and nothing removes
the session from `SessionManager::sessions` or the player from `_players`
(`Session.cpp` line 37 has a TODO for it). The counterexample accepts one client,
closes it and stutters with the session still in the map.

`object_tables` states what the comments `// Insert` and `// Erase` in `InitObjectTable`
say (`Room.cpp` lines 155 and 166). The tables have three entries and the types count
from 1 to 3, so the assignments for dust are one past the end: the function that
inserts dust lands in the erase table and the one that erases dust in neither. Only
players are ever created, which is why `startup` passes.

`proto_ids` states the numbers of `Protocol.proto` (line 7: `C_CHAT = 3`). The server and
the C++ client use 1, which the file gives to `C_ENTER`.

## 4. The proofs

A theorem holds for every value of the constants that satisfies the assumptions of
its module; the runs of section 3 show the same properties on small instances. TLC
confirmed every inductive invariant below, as an invariant of the instances of
section 3, before it was proved (for `SendInv` with the offset that `Written` asks for
bounded by the end of the last batch, since TLC does not enumerate `Nat`).

| Module | Theorem | Says | Inductive invariant |
|---|---|---|---|
| `RoomProofs` | `TypeCorrect` | `[]TypeOK` | `RoomInvariant` |
| | `NoChatLost` | `[]NothingLost` | `LossInv` |
| | `NoChatTwice` | `[]NoDuplicates` | `UniqueInv` |
| `RoomOrderProofs` | `OneOrder` | `[]SameOrder`, one consumer | `OrderInv(c)` |
| | `RoomImplementsBroadcast` | `ImplementsBroadcast`, one consumer | `OrderInv(c)` |
| `SessionRecvProofs` | `RecvTypeCorrect`, `FramingExact`, `ClosesOnlyForCause` | `[]TypeOK`, `[]FramesExact`, `[]ClosedForCause` | `RecvInv` |
| `ChatServerProofs` | `ServerTypeCorrect`, `AcceptChainHolds`, `RecvBufferUnshared`, `NothingUsedBeforeStart`, `SessionsFound` | `[]ServerTypeOK`, `[]AcceptChain`, `[]RecvExclusive`, `[]StartedBeforeUse`, `[]SessionsIndexed` | `SessionInv` |
| | `ServerImplementsRoom` | `ServerSpec => Spec` of the room | `SessionInv` |
| | `ServerKeepsChats` | `[]NothingLost` and `[]NoDuplicates` in the server | by refinement |
| | `SendersInOrder` | `[]PerSenderOrder` | `SenderInv` |
| | `ChatsHeardInOrder` | `[]HeardInOrder`, one consumer | `SenderInv`, and `SameOrder` and `UniqueInv` by refinement |
| | `ServerImplementsBroadcast` | `ImplementsBroadcast` in the server, one consumer | by refinement |
| `SendPathProofs` | `SendTypeCorrect`, `BatchesArriveInOrder`, `SmallBatchesStayWhole` | `[]TypeOK`, `[]WritesComplete`, `[]SmallBatchesWhole` | `SendInv` |
| `StartupProofs` | `StartupTypeCorrect`, `TablesFilledFirst`, `PlayersStay`, `RunKeepsRunning` | `[]TypeOK`, `[]TablesReady`, `[]NobodyReplaced`, `[]NeverOutOfWork` | `StartupInv` |
| `DummyClientProofs` | `ClientTypeCorrect`, `ReturnsQuiet`, `ReadsNeverFork` | `[]TypeOK`, `[]QuietAtReturn`, `[]OneRead` | `ClientInv` |
| `LoadClientsProofs` | `LoadTypeCorrect`, `AddNeverThrows` | `[]TypeOK`, `[]AddSafe` | `LoadInv` |

With this every invariant of a passing run is proved, and one of the two refinements
that the runs check.

### What is assumed

- `RoomAssumption`: workers and consumers are different threads, and the placeholders
  for nobody are nobody's name. "One consumer" is an assumption of the theorems it is
  written beside, and the value of `CONSUMERS_PER_QUEUE` in `Room.h`; nothing else needs
  it. `ServerAssumption` (the room accepts as many pushes as clients may make) is for
  TLC's bounds; no proof cites it.
- `RecvAssumption`: a header has at least one byte and fits in the buffer, and the size
  in a header is at least that of the header. The last is what the clients guarantee
  and `ProcessRecv` does not check.
- `SendAssumption`: a header and a transfer have at least one byte, and a payload with
  its header is less than the modulus of the size field, as the code's `static_cast`
  takes for granted. Batches, their number and the sizes are otherwise arbitrary. That
  transfers complete whole is in the action `Take`, not in an `ASSUME`.
- `ClientAssumption`: a client, an io thread (the code starts two; with none, `main`
  would join nothing and return with reads outstanding) and a window of at least 1.
- `StartupAssumption`, `LoadAssumption`: placeholders are nobody's name, the main
  thread completes no connects, a connection holds at least one frame.

### Why the invariants are what they are

**Types of the room.** `TypeOK` is not inductive: `BroadcastSerialized` takes the head of
`localQueue`, which is a chat only if the queue is not empty, and `EnterObject` inserts
whatever object the call was given. `RoomInvariant` adds what is true at each point of
`Flush` (`FlushInv`), that the threads at a label inside a critical section are those
that own the lock (`LockInv`), what a call holds (`CallInv`), and that a player that has
not entered is nowhere (`JoinedInv`).

**Nothing lost.** `NothingLost` is inductive relative to `RoomInvariant`: each step of
`Flush` moves a chat from one place to the next. It needs `FlushInv` because a swap
overwrites a local, which must have been empty.

**Nothing twice.** With several consumers batches overtake each other, so nothing can be
said about order; `UniqueInv` speaks of places only. No queue holds a chat twice, no two
queues share one and all chats in them have been pushed (`PlacesInv`), and what a session
has been handed is in no queue that may still reach it (`ServedInv`): a batch counts only
for the players still in its snapshot.

**One order.** `OrderInv(c)` says that with one consumer the four queues are four adjacent
stretches of the log, `lpendingMSG`, `_pendingMSG`, `localQueue`, `ETCQueue`, ending at
`pushed` (`QueuesInv`), and that each player with a session stands exactly before the
batch if it is in the snapshot and exactly before `_pendingMSG` if it is not (`SentInv`).
Then the batch `SendTo` hands over is the next stretch of the log, and the step is a
`Deliver` of `ChatBroadcast`; pushes are `Publish`, `EnterObject` is `Join`, `ExitObject` is
`Leave`, and every other step changes nothing `ChatBroadcast` can see.

**Framing.** `RecvInv` says that the buffer starts at the first frame not yet handled and
holds the bytes that follow in the stream (`BufferInv`), that frames lie end to end
(`StreamInv`), that a read is outstanding only when the buffer holds no whole frame
(`ReadingInv`), and that a closed session runs no handler (`DoneInv`). `ReadingInv` is what
`ClosedForCause` needs: a read of length 0 means a full buffer without a whole frame, so
the frame at its start cannot fit. That the positions stay in order and inside the
buffer is part of `TypeOK`.

**The composed server.** `SessionInv` gives every handler its session, and one that starts a
session has it for itself (`HandlerInv`); a connection not yet accepted is known to nobody
(`NewInv`); what `Start` has done at each of its positions (`StartInv`); whoever may receive
is in the room (`ReadyInv`). `RecvExclusive` alone is not inductive: `FirstRecv` makes a
session readable, so one has to know that nobody else has that session. The server
implements the room because a handler enters and pushes only as `Room`'s callers do, and
so all of `Room`'s theorems hold in it. For order, `SenderInv` says how far the log has come
with the chats of each client: up to the one being announced if its worker has pushed
and not yet left `PushETCJob`, and otherwise up to the first one in the buffer. `HeardInOrder`
combines the two halves: the log has a client's chats in order, and sessions are handed
stretches of the log.

**The send path.** The buffers of writes follow one another (`OpsInv`); each write has put on
the wire the bytes up to an offset and no others, which its status tells apart (`WireInv`);
each write in the socket has one transfer there, and only the first in the queue can have
been taken in part (`QueueInv`). For small batches the last clause of `InSocket` is the point:
what was taken of one is the end of the wire, so nothing can come between its bytes.
`Send` lays out frames with a recursive function, `Offsets`; `OffsetsSums` shows what it
computes from the least index at which it would be wrong.

**Start-up.** `NeverOutOfWork` and `TablesReady` need what `main` has done before each of its
parts (`MainInv`), that the store for players is never overwritten, not even by the
stores that miss their table (`TableInv`), and that from `Listen` on an accept is outstanding
or a handler leads to the next, be it one that failed (`ChainInv`): reads cannot be
counted on, since sessions close. `NobodyReplaced` needs that ids in the room are
below `nextId` (`IdInv`).

**Load clients.** In the C++ client the chain of reads of a socket is in one place at most
(`ChainInv`), which needs that first reads are registered before an io thread runs
(`FirstInv`); once `run()` has returned in one thread there is no work, and never is again
(`QuietInv`). In the C# client `_lock` is held in `Generate` and `SendForEach` by one thread
(`LockInv`), and the id in hand is the newest and not in the dictionary (`TableInv`).

### Only model-checked

- All liveness: `EveryChatArrives`, `EveryFrameHandled`, `OversizeCloses`, `EveryClientEnters`,
  `EveryChatReachesAll`, `EveryWriteEnds`, `Terminates`, `KeepsReading`, `EverySessionOpens`. The
  prover does not reason about fairness or `ENABLED`.
- The refinement of `FrameChannel` by `SendPath`: its mapping computes sequences of frames
  from the bytes on the wire, and what it computes has yet to be related to the invariant.

## 5. What is not modelled

Of about 1,300 lines of C++ and 290 of C# that are the project's own, what is left
out is this:

- `SessionManager::RemoveSession` and `FindSession`, which nothing calls;
  `SessionManager::Broadcast`, whose loop has no body; `MakeSendBuffer`, which nothing
  calls; `PushMoveJob`, `CreateDust` and `CreateObstacle`, which are empty; the packet
  counter, whose thread is commented out.
- The wrap of the `int` ids after 2^32 connections.
- What the store past both object tables does to the room's `_lock`.
- Headers whose size is less than a header, and the id 65535, which is one past the
  end of `GPacketHandler`: no client of the repository sends either.
- The reference cycle of `startRecv` in the C++ load client (a function object that
  holds itself), which is a leak and no behaviour.
- In the C# client, ServerCore, which is not in the repository; `PacketManager` and
  `PacketHandler`, which are never reached because `OnRecvPacket` is empty.
- Code generated by protoc, and the vendored protobuf library with its tests, which
  is nearly all of the repository's lines and none of its logic; the Unity project,
  which has no scripts in the repository.

So the share of the repository's lines that the models stand for is very small,
although nearly every line of the project's own code that changes state is modelled.

## 6. Roadmap

What is left to prove, in order of worth:

1. `SendPath`: the refinement to `FrameChannel`. `SendInv` says that a small batch is in one
   piece and that of each write a prefix is on the wire; missing is that the frames a
   client cuts out of the wire up to the first divided batch are the frames of `Send`, in
   order.
2. `ChatServer`: that each session's receive path is `SessionRecv` with its bytes
   abstracted to chats, as a refinement of the one by the other.
3. Action properties: that the history of a session only grows, and that ids are never
   given out again.
