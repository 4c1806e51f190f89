------------------------- MODULE LoadClientsProofs -------------------------
(***************************************************************************)
(* Theorems about the C# load client's sessions, for any number of threads *)
(* and sessions.                                                           *)
(***************************************************************************)
EXTENDS LoadClients, TLAPS

USE DEF table, locals, net

(***************************************************************************)
(* The inductive invariant.                                                *)
(***************************************************************************)

\* Who is where: _lock is held in Generate and in SendForEach, by one thread.
LockInv ==
    /\ \A t \in Connectors : pc[t] # "each"
    /\ pc[Main] \in {"idle", "each"}
    /\ \A t \in Threads : lock = t <=> pc[t] \in {"add", "each"}

\* The id in hand is the newest one, and the dictionary holds older ones only.
TableInv ==
    /\ _sessionId = made
    /\ \A n \in DOMAIN _sessions : n \in 1.._sessionId /\ _sessions[n] \in Streams
    /\ \A t \in Connectors : pc[t] = "add" =>
        id[t] = _sessionId /\ _sessionId # 0 /\ _sessionId \notin DOMAIN _sessions

LoadInv == TypeOK /\ LockInv /\ TableInv

(***************************************************************************)
(* Streams of frames.                                                      *)
(***************************************************************************)

\* Sending and taking frames leaves a stream of frames.
LEMMA StreamTypes ==
    ASSUME NEW q \in Seq(Frames)
    PROVE  /\ \A x \in Frames : Append(q, x) \in Seq(Frames)
           /\ q # <<>> => Tail(q) \in Seq(Frames) /\ Head(q) \in Frames
  OBVIOUS

\* What the two clients send are frames.
LEMMA SentFrames ==
    /\ [id |-> MsgId["C_ClassChoice"], msg |-> "C_ClassChoice"] \in Frames
    /\ [id |-> MsgId["C_PlayerMove"], msg |-> "C_PlayerMove"] \in Frames
    /\ [id |-> C_CHAT, msg |-> "C_Chat"] \in Frames
<1>1. MsgId["C_ClassChoice"] = 1 /\ MsgId["C_PlayerMove"] = 5 /\ C_CHAT = 1
  BY DEF MsgId, C_CHAT
<1> QED
  BY <1>1 DEF Frames, Messages

(***************************************************************************)
(* The steps.                                                              *)
(***************************************************************************)

\* The load begins with no session.
LEMMA InitLoadInv == ASSUME LoadAssumption, Init PROVE LoadInv
<1>1. 0 \in Streams /\ MaxSessions \in Nat /\ 0 \in 0..MaxSessions
  BY DEF LoadAssumption, Streams
<1>2. DOMAIN _sessions = {}
  BY DEF Init
<1>3. TypeOK
  <2>1. /\ lock \in Threads \cup {NoThread}
        /\ pc \in [Threads -> {"idle", "add", "start", "onConnected", "each"}]
        /\ made \in 0..MaxSessions /\ _sessionId \in 0..MaxSessions
    BY <1>1 DEF Init
  <2>2. /\ id \in [Connectors -> Nat] /\ session \in [Connectors -> Streams]
        /\ todo \subseteq Streams /\ started \subseteq Streams
        /\ chats \subseteq [from : Streams, msg : Messages]
    BY <1>1 DEF Init
  <2>3. stream \in [Streams -> Seq(Frames)]
    BY DEF Init
  <2> QED
    BY <1>2, <2>1, <2>2, <2>3 DEF TypeOK
<1>4. LockInv
  BY DEF LoadAssumption, Init, LockInv, Threads
<1>5. TableInv
  BY <1>2 DEF Init, TableInv, Threads
<1> QED
  BY <1>3, <1>4, <1>5 DEF LoadInv

\* What the steps below use of the invariant.
LEMMA LoadFacts ==
    ASSUME LoadAssumption, LoadInv
    PROVE  /\ TypeOK /\ LockInv /\ TableInv
           /\ MaxSessions \in Nat /\ Main \notin Connectors
           /\ NoThread \notin Threads /\ Threads = Connectors \cup {Main}
           /\ Streams = 0..MaxSessions
           /\ pc \in [Threads -> {"idle", "add", "start", "onConnected", "each"}]
           /\ made \in 0..MaxSessions /\ _sessionId = made
           /\ id \in [Connectors -> Nat] /\ session \in [Connectors -> Streams]
           /\ stream \in [Streams -> Seq(Frames)]
           /\ chats \subseteq [from : Streams, msg : Messages]
  BY DEF LoadAssumption, LoadInv, TypeOK, TableInv, Threads, Streams

\* A thread creates a session and holds the lock.
LEMMA GenerateStep ==
    ASSUME LoadAssumption, LoadInv, NEW t \in Connectors, Generate(t) PROVE LoadInv'
<1>T. /\ TypeOK /\ LockInv /\ TableInv
      /\ MaxSessions \in Nat /\ Main \notin Connectors
      /\ NoThread \notin Threads /\ Threads = Connectors \cup {Main}
      /\ Streams = 0..MaxSessions
      /\ pc \in [Threads -> {"idle", "add", "start", "onConnected", "each"}]
      /\ made \in 0..MaxSessions /\ _sessionId = made
      /\ id \in [Connectors -> Nat] /\ session \in [Connectors -> Streams]
  BY LoadFacts
<1>1. /\ pc[t] = "idle" /\ pc' = [pc EXCEPT ![t] = "add"] /\ made < MaxSessions
      /\ lock = NoThread /\ lock' = t /\ made' = made + 1 /\ _sessionId' = made + 1
      /\ id' = [id EXCEPT ![t] = made + 1] /\ session' = [session EXCEPT ![t] = made + 1]
      /\ UNCHANGED <<_sessions, todo, net>>
  BY <1>T DEF Generate, Step
<1>2. made + 1 \in 0..MaxSessions /\ made + 1 \in 1..MaxSessions /\ made + 1 \in Nat
  BY <1>1, <1>T
<1>3. \A u \in Threads : pc[u] \notin {"add", "each"}
  BY <1>1, <1>T DEF LockInv
<1>4. TypeOK'
  <2>1. /\ lock' \in Threads \cup {NoThread} /\ made' \in 0..MaxSessions /\ _sessionId' \in 0..MaxSessions
        /\ pc' \in [Threads -> {"idle", "add", "start", "onConnected", "each"}]
        /\ id' \in [Connectors -> Nat] /\ session' \in [Connectors -> Streams]
    BY <1>1, <1>2, <1>T
  <2> QED
    BY <2>1, <1>1, <1>T DEF TypeOK
<1>5. LockInv'
  BY <1>1, <1>3, <1>T DEF LockInv
<1>6. TableInv'
  <2>1. \A n \in DOMAIN _sessions : n \in 1..made /\ _sessions[n] \in Streams
    BY <1>T DEF TableInv
  <2>2. \A n \in 1..made : n \in 1..(made + 1) /\ n # made + 1
    BY <1>T
  <2>3. \A u \in Connectors : pc'[u] = "add" => u = t
    BY <1>1, <1>3, <1>T
  <2>4. id'[t] = made + 1 /\ made + 1 # 0
    BY <1>1, <1>T
  <2> QED
    BY <2>1, <2>2, <2>3, <2>4, <1>1 DEF TableInv
<1> QED
  BY <1>4, <1>5, <1>6 DEF LoadInv

\* A session enters the dictionary.
LEMMA AddStep ==
    ASSUME LoadAssumption, LoadInv, NEW t \in Connectors, Add(t) PROVE LoadInv'
<1>T. /\ TypeOK /\ LockInv /\ TableInv
      /\ MaxSessions \in Nat /\ Main \notin Connectors
      /\ NoThread \notin Threads /\ Threads = Connectors \cup {Main}
      /\ Streams = 0..MaxSessions
      /\ pc \in [Threads -> {"idle", "add", "start", "onConnected", "each"}]
      /\ made \in 0..MaxSessions /\ _sessionId = made
      /\ id \in [Connectors -> Nat] /\ session \in [Connectors -> Streams]
      /\ stream \in [Streams -> Seq(Frames)]
      /\ chats \subseteq [from : Streams, msg : Messages]
  BY LoadFacts
<1>1. /\ pc[t] = "add" /\ pc' = [pc EXCEPT ![t] = "start"]
      /\ _sessions' = Emplace(_sessions, id[t], session[t]) /\ lock' = NoThread
      /\ UNCHANGED <<made, _sessionId, locals, todo, net>>
  BY DEF Add, Step
<1>2. id[t] = made /\ made \in 1..made
  BY <1>1, <1>T DEF TableInv
<1>3. /\ DOMAIN _sessions' = DOMAIN _sessions \cup {made}
      /\ \A n \in DOMAIN _sessions' : _sessions'[n] \in Streams
  BY <1>1, <1>2, <1>T DEF Emplace, TableInv
<1>4. \A u \in Threads : u # t => pc[u] \notin {"add", "each"}
  BY <1>1, <1>T DEF LockInv
<1>5. TypeOK'
  <2>1. pc' \in [Threads -> {"idle", "add", "start", "onConnected", "each"}]
    BY <1>1, <1>T
  <2>2. DOMAIN _sessions' \subseteq Nat
    BY <1>3, <1>T DEF TypeOK
  <2> QED
    BY <2>1, <2>2, <1>1, <1>T DEF TypeOK
<1>6. LockInv'
  BY <1>1, <1>4, <1>T DEF LockInv
<1>7. TableInv'
  <2>1. \A u \in Connectors : pc'[u] # "add"
    BY <1>1, <1>4, <1>T
  <2>2. \A n \in DOMAIN _sessions' : n \in 1..made
    BY <1>2, <1>3, <1>T DEF TableInv
  <2> QED
    BY <2>1, <2>2, <1>1, <1>3, <1>T DEF TableInv
<1> QED
  BY <1>5, <1>6, <1>7 DEF LoadInv

\* The Connector starts a session.
LEMMA StartStep ==
    ASSUME LoadAssumption, LoadInv, NEW t \in Connectors, Start(t) PROVE LoadInv'
<1>T. /\ TypeOK /\ LockInv /\ TableInv
      /\ MaxSessions \in Nat /\ Main \notin Connectors
      /\ NoThread \notin Threads /\ Threads = Connectors \cup {Main}
      /\ Streams = 0..MaxSessions
      /\ pc \in [Threads -> {"idle", "add", "start", "onConnected", "each"}]
      /\ made \in 0..MaxSessions /\ _sessionId = made
      /\ id \in [Connectors -> Nat] /\ session \in [Connectors -> Streams]
      /\ stream \in [Streams -> Seq(Frames)]
      /\ chats \subseteq [from : Streams, msg : Messages]
  BY LoadFacts
<1>1. /\ pc[t] = "start" /\ pc' = [pc EXCEPT ![t] = "onConnected"]
      /\ started' = started \cup {session[t]}
      /\ UNCHANGED <<lock, made, table, locals, todo, stream, chats>>
  BY DEF Start, Step
<1>2. TypeOK'
  <2>1. pc' \in [Threads -> {"idle", "add", "start", "onConnected", "each"}]
    BY <1>1, <1>T
  <2>2. started' \subseteq Streams
    <3>1. started \subseteq Streams /\ session[t] \in Streams
      BY <1>T DEF TypeOK
    <3> QED
      BY <3>1, <1>1
  <2> QED
    BY <2>1, <2>2, <1>1, <1>T DEF TypeOK
<1>3. LockInv'
  BY <1>1, <1>T DEF LockInv
<1>4. TableInv'
  <2>1. \A u \in Connectors : pc'[u] = "add" => pc[u] = "add"
    BY <1>1, <1>T
  <2> QED
    BY <2>1, <1>1, <1>T DEF TableInv
<1> QED
  BY <1>2, <1>3, <1>4 DEF LoadInv

\* A session opens with its C_ClassChoice.
LEMMA OnConnectedStep ==
    ASSUME LoadAssumption, LoadInv, NEW t \in Connectors, OnConnected(t) PROVE LoadInv'
<1>T. /\ TypeOK /\ LockInv /\ TableInv
      /\ MaxSessions \in Nat /\ Main \notin Connectors
      /\ NoThread \notin Threads /\ Threads = Connectors \cup {Main}
      /\ Streams = 0..MaxSessions
      /\ pc \in [Threads -> {"idle", "add", "start", "onConnected", "each"}]
      /\ made \in 0..MaxSessions /\ _sessionId = made
      /\ id \in [Connectors -> Nat] /\ session \in [Connectors -> Streams]
      /\ stream \in [Streams -> Seq(Frames)]
      /\ chats \subseteq [from : Streams, msg : Messages]
  BY LoadFacts
<1>1. /\ pc[t] = "onConnected" /\ pc' = [pc EXCEPT ![t] = "idle"]
      /\ Queue(session[t], "C_ClassChoice")
      /\ UNCHANGED <<lock, made, table, locals, todo, started, chats>>
  BY DEF OnConnected, Step
<1>2. PICK s \in Streams : s = session[t]
  BY <1>T
<1>3. PICK x \in Frames : x = [id |-> MsgId["C_ClassChoice"], msg |-> "C_ClassChoice"]
  BY SentFrames
<1>4. stream' = [stream EXCEPT ![s] = Append(stream[s], x)] /\ stream[s] \in Seq(Frames)
  BY <1>1, <1>2, <1>3, <1>T DEF Queue
<1>5. TypeOK'
  <2>1. pc' \in [Threads -> {"idle", "add", "start", "onConnected", "each"}]
    BY <1>1, <1>T
  <2>2. stream' \in [Streams -> Seq(Frames)]
    BY <1>4, <1>T, StreamTypes
  <2> QED
    BY <2>1, <2>2, <1>1, <1>T DEF TypeOK
<1>6. LockInv'
  BY <1>1, <1>T DEF LockInv
<1>7. TableInv'
  <2>1. \A u \in Connectors : pc'[u] = "add" => pc[u] = "add"
    BY <1>1, <1>T
  <2> QED
    BY <2>1, <1>1, <1>T DEF TableInv
<1> QED
  BY <1>5, <1>6, <1>7 DEF LoadInv

\* SendForEach's loop begins or ends.
LEMMA LoopStep ==
    ASSUME LoadAssumption, LoadInv, SendForEach \/ Sleep PROVE LoadInv'
<1>T. /\ TypeOK /\ LockInv /\ TableInv
      /\ MaxSessions \in Nat /\ Main \notin Connectors
      /\ NoThread \notin Threads /\ Threads = Connectors \cup {Main}
      /\ Streams = 0..MaxSessions
      /\ pc \in [Threads -> {"idle", "add", "start", "onConnected", "each"}]
      /\ made \in 0..MaxSessions /\ _sessionId = made
      /\ id \in [Connectors -> Nat] /\ session \in [Connectors -> Streams]
      /\ stream \in [Streams -> Seq(Frames)]
      /\ chats \subseteq [from : Streams, msg : Messages]
  BY LoadFacts
<1>1. \/ pc[Main] = "idle" /\ pc' = [pc EXCEPT ![Main] = "each"] /\ lock = NoThread /\ lock' = Main
      \/ pc[Main] = "each" /\ pc' = [pc EXCEPT ![Main] = "idle"] /\ lock' = NoThread
  BY DEF SendForEach, Sleep, Step
<1>2. UNCHANGED <<made, table, locals, net>>
  BY DEF SendForEach, Sleep
<1>3. todo' \subseteq Streams
  <2>1. \A n \in DOMAIN _sessions : _sessions[n] \in Streams
    BY <1>T DEF TableInv
  <2>2. todo \subseteq Streams
    BY <1>T DEF TypeOK
  <2>3. todo' = {_sessions[n] : n \in DOMAIN _sessions} \/ todo' = todo
    BY DEF SendForEach, Sleep
  <2> QED
    BY <2>1, <2>2, <2>3
<1>4. pc' \in [Threads -> {"idle", "add", "start", "onConnected", "each"}] /\ lock' \in Threads \cup {NoThread}
  BY <1>1, <1>T
<1>5. TypeOK'
  BY <1>2, <1>3, <1>4, <1>T DEF TypeOK
<1>6. \A t \in Connectors : pc'[t] = pc[t]
  BY <1>1, <1>T
<1>7. LockInv'
  <2>1. CASE pc[Main] = "idle" /\ pc' = [pc EXCEPT ![Main] = "each"] /\ lock = NoThread /\ lock' = Main
    BY <2>1, <1>6, <1>T DEF LockInv
  <2>2. CASE pc[Main] = "each" /\ pc' = [pc EXCEPT ![Main] = "idle"] /\ lock' = NoThread
    BY <2>2, <1>6, <1>T DEF LockInv
  <2> QED
    BY <2>1, <2>2, <1>1
<1>8. TableInv'
  BY <1>2, <1>6, <1>T DEF TableInv
<1> QED
  BY <1>5, <1>7, <1>8 DEF LoadInv

\* A step of the streams alone.
LEMMA StreamsStep ==
    ASSUME LoadInv, UNCHANGED <<lock, pc, made, table, locals, started>>,
           todo' \subseteq Streams, stream' \in [Streams -> Seq(Frames)],
           chats' \subseteq [from : Streams, msg : Messages]
    PROVE  LoadInv'
  BY DEF LoadInv, TypeOK, LockInv, TableInv

\* A move is sent, or the C++ client sends a chat.
LEMMA SendStep ==
    ASSUME LoadAssumption, LoadInv, CppChat \/ \E r \in Streams : SendMove(r) PROVE LoadInv'
<1>T. /\ TypeOK /\ 0 \in Streams /\ stream \in [Streams -> Seq(Frames)]
      /\ chats \subseteq [from : Streams, msg : Messages]
  BY LoadFacts
<1>1. PICK r \in Streams, x \in Frames : stream' = [stream EXCEPT ![r] = Append(stream[r], x)]
  BY <1>T, SentFrames DEF CppChat, SendMove, Queue
<1>2. UNCHANGED <<lock, pc, made, table, locals, started, chats>> /\ todo' \subseteq todo
  BY DEF CppChat, SendMove
<1>3. stream' \in [Streams -> Seq(Frames)] /\ todo' \subseteq Streams
  BY <1>1, <1>2, <1>T, StreamTypes DEF TypeOK
<1> QED
  BY <1>2, <1>3, <1>T, StreamsStep

\* The server processes a frame.
LEMMA ProcessStep ==
    ASSUME LoadAssumption, LoadInv, NEW r \in Streams, ProcessRecv(r) PROVE LoadInv'
<1>T. /\ TypeOK /\ stream \in [Streams -> Seq(Frames)]
      /\ chats \subseteq [from : Streams, msg : Messages]
  BY LoadFacts
<1>1. PICK q \in Seq(Frames) : q = stream[r]
  BY <1>T
<1>2. /\ q # <<>> /\ stream' = [stream EXCEPT ![r] = Tail(q)]
      /\ chats' \subseteq chats \cup {[from |-> r, msg |-> Head(q).msg]}
      /\ UNCHANGED <<lock, pc, made, table, locals, todo, started>>
  BY <1>1 DEF ProcessRecv
<1>3. Tail(q) \in Seq(Frames) /\ Head(q).msg \in Messages
  BY <1>2, StreamTypes DEF Frames
<1>4. /\ stream' \in [Streams -> Seq(Frames)] /\ todo' \subseteq Streams
      /\ chats' \subseteq [from : Streams, msg : Messages]
  BY <1>2, <1>3, <1>T DEF TypeOK
<1> QED
  BY <1>2, <1>4, StreamsStep

\* Every step keeps the invariant.
LEMMA LoadStep == ASSUME LoadAssumption, LoadInv, [Next]_vars PROVE LoadInv'
<1>1. ASSUME NEW t \in Connectors, Connector(t) PROVE LoadInv'
  BY <1>1, GenerateStep, AddStep, StartStep, OnConnectedStep DEF Connector
<1>2. CASE Loop \/ CppChat
  BY <1>2, LoopStep, SendStep DEF Loop
<1>3. CASE Server
  BY <1>3, ProcessStep DEF Server
<1>4. CASE UNCHANGED vars
  BY <1>4 DEF vars, LoadInv, TypeOK, LockInv, TableInv
<1> QED
  BY <1>1, <1>2, <1>3, <1>4 DEF Next

(***************************************************************************)
(* Theorems.                                                               *)
(***************************************************************************)

\* LoadInv holds in every state of the C# load client (SessionManager.cs 26-53).
THEOREM LoadInvariance == Spec => []LoadInv
<1>1. Init => LoadInv
  BY InitLoadInv, LoadAssumption
<1>2. LoadInv /\ [Next]_vars => LoadInv'
  BY LoadStep, LoadAssumption
<1> QED
  BY <1>1, <1>2, PTL DEF Spec

\* The state of the C# load client has its type.
THEOREM LoadTypeCorrect == Spec => []TypeOK
<1>1. LoadInv => TypeOK
  BY DEF LoadInv
<1> QED
  BY <1>1, LoadInvariance, PTL

\* Dictionary.Add never throws and never spoils an enumeration (SessionManager.cs
\* 26-53), on however many threads the connects complete: the id in hand is newer
\* than every id of the dictionary, and the lock keeps the main thread out.
THEOREM AddNeverThrows == Spec => []AddSafe
<1>1. LoadInv => AddSafe
  <2> SUFFICES ASSUME LoadInv, NEW t \in Connectors, pc[t] = "add"
               PROVE  /\ id[t] \notin DOMAIN _sessions
                      /\ pc[Main] # "each"
                      /\ \A u \in Connectors : pc[u] = "add" /\ id[u] = id[t] => u = t
    BY DEF AddSafe
  <2>1. Main \notin Connectors /\ Threads = Connectors \cup {Main} /\ LockInv /\ TableInv
    BY LoadAssumption DEF LoadAssumption, Threads, LoadInv
  <2>2. lock = t
    BY <2>1 DEF LockInv
  <2>3. pc[Main] # "each" /\ \A u \in Connectors : pc[u] = "add" => u = t
    BY <2>1, <2>2 DEF LockInv
  <2>4. id[t] \notin DOMAIN _sessions
    BY <2>1 DEF TableInv
  <2> QED
    BY <2>3, <2>4
<1> QED
  BY <1>1, LoadInvariance, PTL
==============================================================================
