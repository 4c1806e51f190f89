---------------------------- MODULE LoadClients ----------------------------
(***************************************************************************)
(* The C# load client (MdummyClient) beside a C++ one, and how the server  *)
(* dispatches what they send.                                              *)
(*                                                                         *)
(* The C# client's Connector calls SessionManager.Generate on whichever    *)
(* thread a connect completes, then starts the session, which sends a      *)
(* C_ClassChoice; meanwhile its main thread calls SendForEach again and    *)
(* again, which sends a C_PlayerMove on every session of the dictionary,   *)
(* started or not.  (Connector and PacketSession are not in the            *)
(* repository; they are modelled from how it uses them: a session sends    *)
(* what it is given, in order.)                                            *)
(*                                                                         *)
(* The three programs number their messages differently: the id of a C#    *)
(* C_ClassChoice is the id of a chat for the server.                       *)
(***************************************************************************)
EXTENDS Integers, Sequences, StdMap

CONSTANTS
    Connectors,   \* threads on which connects complete
    Main,         \* the C# client's main thread
    NoThread,
    MaxSessions,  \* connections the C# client makes; 100 in the code
    MaxFrames     \* bound: frames waiting in one stream

Threads == Connectors \cup {Main}

ASSUME LoadAssumption ==
    /\ Main \notin Connectors
    /\ NoThread \notin Threads
    /\ MaxSessions \in Nat
    /\ MaxFrames \in Nat \ {0}

\* enum MsgId of the C# client's Protocol.cs, the two messages it sends.
MsgId == [C_ClassChoice |-> 1, C_PlayerMove |-> 5]

\* The C++ programs' ids, and enum MsgId of Protocol.proto.
C_CHAT == 1
ProtoMsgId == [C_Enter |-> 1, C_Chat |-> 3]

\* A session is named by the order of its creation; 0 is the C++ client's.
Streams == 0..MaxSessions

VARIABLES
    lock,       \* SessionManager._lock
    pc,         \* where each thread is
    made,       \* ServerSession objects created
    _sessionId, \* SessionManager._sessionId
    id,         \* Generate's local sessionId
    session,    \* the session a connector thread works on
    _sessions,  \* SessionManager._sessions: id -> session
    todo,       \* sessions SendForEach's enumeration has still to visit
    started,    \* sessions whose socket the Connector has started
    stream,     \* frames sent and not yet processed by the server: [id, msg]
    chats       \* history: messages the server has given to Handle_C_CHAT: [from, msg]

table  == <<_sessionId, _sessions>>
locals == <<id, session>>
net    == <<started, stream, chats>>

vars == <<lock, pc, made, table, locals, todo, net>>

Messages == {"C_Chat", "C_ClassChoice", "C_PlayerMove"}

Frames == [id : Nat, msg : Messages]

TypeOK ==
    /\ lock \in Threads \cup {NoThread}
    /\ pc \in [Threads -> {"idle", "add", "start", "onConnected", "each"}]
    /\ made \in 0..MaxSessions
    /\ _sessionId \in 0..MaxSessions
    /\ id \in [Connectors -> Nat]
    /\ session \in [Connectors -> Streams]
    /\ DOMAIN _sessions \subseteq Nat
    /\ todo \subseteq Streams
    /\ started \subseteq Streams
    /\ stream \in [Streams -> Seq(Frames)]
    /\ chats \subseteq [from : Streams, msg : Messages]

Init ==
    /\ lock = NoThread
    /\ pc = [t \in Threads |-> "idle"]
    /\ made = 0
    /\ _sessionId = 0
    /\ id = [t \in Connectors |-> 0]
    /\ session = [t \in Connectors |-> 0]
    /\ _sessions = <<>>
    /\ todo = {}
    /\ started = {0}
    /\ stream = [s \in Streams |-> <<>>]
    /\ chats = {}

Step(t, from, to) ==
    /\ pc[t] = from
    /\ pc' = [pc EXCEPT ![t] = to]

\* ServerSession.Send: the message's id comes from its name.
Queue(s, msg) ==
    /\ Len(stream[s]) < MaxFrames
    /\ stream' = [stream EXCEPT ![s] = Append(@, [id |-> MsgId[msg], msg |-> msg])]

-----------------------------------------------------------------------------
(* SessionManager.Generate and the Connector. *)

\* Faulty variant: one connection more than was asked for.
GeneratePast(t) ==
    /\ Step(t, "idle", "add")
    /\ made <= MaxSessions
    /\ lock = NoThread
    /\ lock' = t
    /\ made' = made + 1
    /\ _sessionId' = _sessionId + 1
    /\ id' = [id EXCEPT ![t] = _sessionId + 1]
    /\ session' = [session EXCEPT ![t] = made + 1]
    /\ UNCHANGED <<_sessions, todo, net>>

\* lock (_lock), sessionId = ++_sessionId, new ServerSession().
Generate(t) ==
    /\ Step(t, "idle", "add")
    /\ made < MaxSessions
    /\ lock = NoThread
    /\ lock' = t
    /\ made' = made + 1
    /\ _sessionId' = _sessionId + 1
    /\ id' = [id EXCEPT ![t] = _sessionId + 1]
    /\ session' = [session EXCEPT ![t] = made + 1]
    /\ UNCHANGED <<_sessions, todo, net>>

\* _sessions.Add, return; the lock is released.
Add(t) ==
    /\ Step(t, "add", "start")
    /\ _sessions' = Emplace(_sessions, id[t], session[t])
    /\ lock' = NoThread
    /\ UNCHANGED <<made, _sessionId, locals, todo, net>>

\* The Connector gives the session its socket ...
Start(t) ==
    /\ Step(t, "start", "onConnected")
    /\ started' = started \cup {session[t]}
    /\ UNCHANGED <<lock, made, table, locals, todo, stream, chats>>

\* ... and calls OnConnected.
OnConnected(t) ==
    /\ Step(t, "onConnected", "idle")
    /\ Queue(session[t], "C_ClassChoice")
    /\ UNCHANGED <<lock, made, table, locals, todo, started, chats>>

-----------------------------------------------------------------------------
(* The C# client's main loop: SendForEach, Sleep. *)

\* Faulty variant: SendForEach does not take the lock.
SendForEachUnlocked ==
    /\ Step(Main, "idle", "each")
    /\ todo' = {_sessions[n] : n \in DOMAIN _sessions}
    /\ UNCHANGED <<lock, made, table, locals, net>>

SendForEach ==
    /\ Step(Main, "idle", "each")
    /\ lock = NoThread
    /\ lock' = Main
    /\ todo' = {_sessions[n] : n \in DOMAIN _sessions}
    /\ UNCHANGED <<made, table, locals, net>>

SendMove(s) ==
    /\ pc[Main] = "each"
    /\ s \in todo
    /\ Queue(s, "C_PlayerMove")
    /\ todo' = todo \ {s}
    /\ UNCHANGED <<lock, pc, made, table, locals, started, chats>>

\* Faulty variant: the lock is kept through the sleep.
SleepLocked ==
    /\ Step(Main, "each", "idle")
    /\ todo = {}
    /\ UNCHANGED <<lock, made, table, locals, todo, net>>

\* The lock is released and the thread sleeps.
Sleep ==
    /\ Step(Main, "each", "idle")
    /\ todo = {}
    /\ lock' = NoThread
    /\ UNCHANGED <<made, table, locals, todo, net>>

-----------------------------------------------------------------------------
(* The C++ client and the server. *)

CppChat ==
    /\ Len(stream[0]) < MaxFrames
    /\ stream' = [stream EXCEPT ![0] = Append(@, [id |-> C_CHAT, msg |-> "C_Chat"])]
    /\ UNCHANGED <<lock, pc, made, table, locals, todo, started, chats>>

\* GPacketHandler has one entry.
GPacketHandler == {C_CHAT}

\* ProcessRecv and HandlePacket<C_Chat>: a frame whose id has an entry goes to its
\* handler, whatever the message is, and other frames are skipped.  A C_ClassChoice
\* parses as a C_Chat without a text: its only field has the number of the text but
\* another wire type, so it is kept as unknown.
ProcessRecv(s) ==
    /\ s \in started
    /\ stream[s] # <<>>
    /\ LET frame == Head(stream[s])
       IN  chats' = IF frame.id \in GPacketHandler
                    THEN chats \cup {[from |-> s, msg |-> frame.msg]} ELSE chats
    /\ stream' = [stream EXCEPT ![s] = Tail(@)]
    /\ UNCHANGED <<lock, pc, made, table, locals, todo, started>>

-----------------------------------------------------------------------------

Connector(t) == Generate(t) \/ Add(t) \/ Start(t) \/ OnConnected(t)

Loop == SendForEach \/ Sleep \/ \E s \in Streams : SendMove(s)

Server == \E s \in Streams : ProcessRecv(s)

Next ==
    \/ \E t \in Connectors : Connector(t)
    \/ Loop
    \/ CppChat
    \/ Server

Spec == Init /\ [][Next]_vars

\* Threads that can run do run; a server's workers serve every session.  A
\* connector thread gets the lock although the main thread takes it over and over,
\* because that thread sleeps without it in every round.
FairSpec ==
    /\ Spec
    /\ \A t \in Connectors : SF_vars(Connector(t))
    /\ WF_vars(Loop)
    /\ \A s \in Streams : WF_vars(ProcessRecv(s))

-----------------------------------------------------------------------------
(* Properties. *)

\* Dictionary.Add throws when the key is there and spoils an enumeration in
\* progress: when a connector thread adds its session, the id is new and the main
\* thread is not in SendForEach's loop (SessionManager.cs 26-53).
AddSafe ==
    \A t \in Connectors : pc[t] = "add" =>
        /\ id[t] \notin DOMAIN _sessions
        /\ pc[Main] # "each"
        /\ \A u \in Connectors : pc[u] = "add" /\ id[u] = id[t] => u = t

\* Every connection becomes a session of the dictionary and its C_ClassChoice
\* arrives: it is the next frame the server takes from a started session, although
\* SendForEach keeps taking the lock and sends moves ahead of it (SessionManager.cs
\* 26-53, ServerSession.cs 30-37, Program.cs 24-30).
Arrives(s, msg) == s \in started /\ stream[s] # <<>> /\ Head(stream[s]).msg = msg

EverySessionOpens == \A s \in 1..MaxSessions : <>Arrives(s, "C_ClassChoice")

\* Protocol.proto numbers the messages: C_CHAT is 3, S_CHAT is 4.  Every chat on the
\* wire has the id of its message.
IdsAsInProtocol ==
    \A s \in Streams : \A n \in DOMAIN stream[s] :
        stream[s][n].msg = "C_Chat" => stream[s][n].id = ProtoMsgId.C_Chat
==============================================================================
