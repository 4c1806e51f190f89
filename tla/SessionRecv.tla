----------------------------- MODULE SessionRecv -----------------------------
(***************************************************************************)
(* The receive side of one session: RecvBuffer.h and, of Session.cpp,      *)
(* RegisterRecv, ProcessRecv and Close.                                    *)
(*                                                                         *)
(* The client writes frames (a PacketHeader and a body) into a TCP stream. *)
(* async_read_some takes any non-empty prefix of what has arrived that     *)
(* fits in the buffer; ProcessRecv cuts the buffered bytes into frames     *)
(* again.  A byte is abstracted to its offset in the stream, which is all  *)
(* it takes to see whether the bytes a handler is given are the bytes of   *)
(* one frame.  Frame n occupies the offsets start[n] .. start[n+1]-1.      *)
(*                                                                         *)
(* Every handler of a session is called from the completion handler of its *)
(* one outstanding read, so nothing here runs concurrently with anything   *)
(* but the client and the network.                                         *)
(***************************************************************************)
EXTENDS Integers, Sequences

CONSTANTS
    Capacity,    \* sizeof(RecvBuffer::buffer); 40960 in the code
    HeaderLen,   \* sizeof(PacketHeader); 4 in the code
    FrameSizes,  \* sizes a client's header may announce (header included)
    MaxFrames    \* bound: number of frames a client sends

\* The clients of the repository count the header in header.size and send at
\* least a header.  ProcessRecv relies on it: it never compares size with
\* sizeof(PacketHeader).
ASSUME RecvAssumption ==
    /\ Capacity \in Nat
    /\ HeaderLen \in Nat \ {0}
    /\ HeaderLen <= Capacity
    /\ FrameSizes \subseteq {n \in Nat : n >= HeaderLen}
    /\ MaxFrames \in Nat

\* What ProcessRecv makes of a frame depends on its id and body only:
\*   chat     id C_CHAT, the only entry of GPacketHandler; the body parses
\*   garbled  id C_CHAT, but ParseFromArray fails
\*   other    an id with an empty entry
Kinds == {"chat", "garbled", "other"}

VARIABLES
    frames,    \* frames the client has sent: [size, kind]
    start,     \* start[n]: offset of frame n; start[Len(frames)+1] is the end
    peer,      \* "up", "fin" (the client has closed), "reset"
    taken,     \* bytes async_read_some has taken from the stream
    rb,        \* Session::recvBuffer: [buffer, readPos, writePos]
    isOpen,    \* socket->is_open()
    pc,        \* "reading": a read is outstanding; "process": in ProcessRecv;
               \* "done": the completion handler registered no further read
    handled    \* history: [kind, body] of every frame ProcessRecv has cut out

vars == <<frames, start, peer, taken, rb, isOpen, pc, handled>>

Sent == start[Len(start)]     \* length of the stream so far

\* A RecvBuffer; its positions are in the buffer, or just past it, and in order.
RecvBuffers ==
    {b \in [buffer : [0..(Capacity - 1) -> Nat], readPos : 0..Capacity, writePos : 0..Capacity] :
        b.readPos <= b.writePos}

Frames == [size : FrameSizes, kind : Kinds]

TypeOK ==
    /\ frames \in Seq(Frames)
    /\ start \in Seq(Nat)
    /\ Len(start) = Len(frames) + 1
    /\ peer \in {"up", "fin", "reset"}
    /\ taken \in Nat
    /\ rb \in RecvBuffers
    /\ isOpen \in BOOLEAN
    /\ pc \in {"reading", "process", "done"}
    /\ handled \in Seq([kind : Kinds, body : Seq(Nat)])

Init ==
    /\ frames = <<>>
    /\ start = <<0>>
    /\ peer = "up"
    /\ taken = 0
    /\ rb = [buffer |-> [i \in 0..(Capacity - 1) |-> 0], readPos |-> 0, writePos |-> 0]
    /\ isOpen = TRUE
    /\ pc = "reading"
    /\ handled = <<>>

-----------------------------------------------------------------------------
(* RecvBuffer. *)

GetWritableSize(b) == Capacity - b.writePos

GetReadableSize(b) == b.writePos - b.readPos

SetWritePos(b, n) ==
    IF b.writePos + n > Capacity THEN b ELSE [b EXCEPT !.writePos = @ + n]

SetReadPos(b, n) ==
    IF b.readPos + n > b.writePos THEN b ELSE [b EXCEPT !.readPos = @ + n]

\* Faulty variant: the positions are reset but the bytes are not moved.
ClearWithoutCopy(b) == [b EXCEPT !.readPos = 0, !.writePos = b.writePos - b.readPos]

\* Faulty variant: the operands of the subtraction are swapped.
ClearSwapped(b) == [b EXCEPT !.readPos = 0, !.writePos = b.readPos - b.writePos]

\* Faulty variant: what is left stays where it is.
ClearOnlyEmpty(b) ==
    IF b.readPos = b.writePos THEN [b EXCEPT !.readPos = 0, !.writePos = 0] ELSE b

\* Move what is left to the front.  Assumed: the code's memcpy, whose operands
\* overlap when more is left than was consumed, copies as memmove does (so does
\* the C run-time of the project's compiler).
Clear(b) ==
    IF b.readPos = b.writePos
    THEN [b EXCEPT !.readPos = 0, !.writePos = 0]
    ELSE LET left == b.writePos - b.readPos
         IN  [buffer   |-> [i \in 0..(Capacity - 1) |->
                                IF i < left THEN b.buffer[b.readPos + i] ELSE b.buffer[i]],
              readPos  |-> 0,
              writePos |-> left]

\* async_read_some stores the next n bytes of the stream at GetWritePos().
Store(b, n) ==
    [b EXCEPT !.buffer = [i \in 0..(Capacity - 1) |->
        IF i \in b.writePos..(b.writePos + n - 1) THEN taken + (i - b.writePos) ELSE @[i]]]

-----------------------------------------------------------------------------
(* The client and the network. *)

ClientSend(f) ==
    /\ peer = "up"
    /\ Len(frames) < MaxFrames
    /\ frames' = Append(frames, f)
    /\ start' = Append(start, Sent + f.size)
    /\ UNCHANGED <<peer, taken, rb, isOpen, pc, handled>>

ClientClose ==
    /\ peer = "up"
    /\ peer' \in {"fin", "reset"}
    /\ UNCHANGED <<frames, start, taken, rb, isOpen, pc, handled>>

-----------------------------------------------------------------------------
(* The completion handler of RegisterRecv's async_read_some. *)

\* The socket is closed and RegisterRecv finds it so: no further read.
Close ==
    /\ isOpen' = FALSE
    /\ pc' = "done"

\* n bytes have arrived: SetWritePos, then ProcessRecv(n).
ReadSome(n) ==
    /\ pc = "reading"
    /\ peer # "reset"
    /\ n \in 1..(Sent - taken)
    /\ n <= GetWritableSize(rb)
    /\ rb' = SetWritePos(Store(rb, n), n)
    /\ taken' = taken + n
    /\ pc' = "process"
    /\ UNCHANGED <<frames, start, peer, isOpen, handled>>

\* Faulty variant: ProcessRecv(0) returns without closing.
ReadNothingIgnored ==
    /\ pc = "reading"
    /\ GetWritableSize(rb) = 0
    /\ pc' = "process"
    /\ UNCHANGED <<frames, start, peer, taken, rb, isOpen, handled>>

\* A read into an empty buffer completes at once with no error and length 0;
\* ProcessRecv(0) closes the session.
ReadNothing ==
    /\ pc = "reading"
    /\ GetWritableSize(rb) = 0
    /\ Close
    /\ UNCHANGED <<frames, start, peer, taken, rb, handled>>

\* End of file (once everything has been read) or a reset connection.
ReadError ==
    /\ pc = "reading"
    /\ GetWritableSize(rb) > 0
    /\ peer = "reset" \/ (peer = "fin" /\ taken = Sent)
    /\ Close
    /\ UNCHANGED <<frames, start, peer, taken, rb, handled>>

\* The frames whose header ProcessRecv could be reading at readPos: the frame
\* that starts there, or, had framing been lost, anything.
HeaderAt(b) ==
    LET at == b.buffer[b.readPos]
    IN  IF \E k \in DOMAIN frames : start[k] = at
        THEN {frames[k] : k \in {j \in DOMAIN frames : start[j] = at}}
        ELSE Frames

\* Faulty variant: the frame must be followed by another byte.
IsWholeStrict(b, f) == GetReadableSize(b) > f.size

\* The buffer holds all of frame f.
IsWhole(b, f) == GetReadableSize(b) >= f.size

\* The bytes given to the handler: pktSize - sizeof(PacketHeader) of them from
\* readPos + sizeof(PacketHeader) on.
Body(b, size) ==
    [i \in 1..(size - HeaderLen) |-> b.buffer[b.readPos + HeaderLen + i - 1]]

\* One turn of ProcessRecv's loop that finds a whole frame.
ProcessPacket ==
    /\ pc = "process"
    /\ GetReadableSize(rb) >= HeaderLen
    /\ \E f \in HeaderAt(rb) :
        /\ IsWhole(rb, f)
        /\ handled' = Append(handled, [kind |-> f.kind, body |-> Body(rb, f.size)])
        /\ rb' = Clear(SetReadPos(rb, f.size))
    /\ UNCHANGED <<frames, start, peer, taken, isOpen, pc>>

\* No header, or not the whole frame yet: leave the loop and read on.
RegisterRecv ==
    /\ pc = "process"
    /\ \/ GetReadableSize(rb) < HeaderLen
       \/ \E f \in HeaderAt(rb) : ~IsWhole(rb, f)
    /\ pc' = "reading"
    /\ UNCHANGED <<frames, start, peer, taken, rb, isOpen, handled>>

Handler ==
    \/ \E n \in 1..Capacity : ReadSome(n)
    \/ ReadNothing
    \/ ReadError
    \/ ProcessPacket
    \/ RegisterRecv

Next ==
    \/ \E f \in Frames : ClientSend(f)
    \/ ClientClose
    \/ Handler

Spec == Init /\ [][Next]_vars

\* Bytes that have arrived are read and a running handler finishes; the client
\* owes nothing.
FairSpec == Spec /\ WF_vars(Handler)

-----------------------------------------------------------------------------
(* Properties. *)

\* The frames as the client built them: the bytes of frame k's body.
Written ==
    [k \in DOMAIN frames |->
        [kind |-> frames[k].kind,
         body |-> [i \in 1..(frames[k].size - HeaderLen) |-> start[k] + HeaderLen + i - 1]]]

\* Frames are cut out of the stream as the client built them (Session.cpp 54-85
\* with RecvBuffer.h): the k-th frame handled is the k-th frame sent, with
\* exactly the bytes of its body, however the stream was split into reads and
\* however often Clear moved the rest of the buffer.
FramesExact ==
    /\ Len(handled) <= Len(frames)
    /\ \A k \in DOMAIN handled : handled[k] = Written[k]

\* A session is closed by the server only when the client has gone or when the
\* frame at the front of the buffer is larger than the buffer (Session.cpp
\* 24, 47-52): no read is ever issued into a full buffer for a frame that fits,
\* the largest one included.
ClosedForCause ==
    ~isOpen => \/ peer # "up"
               \/ /\ Len(handled) < Len(frames)
                  /\ frames[Len(handled) + 1].size > Capacity

\* A frame that fits and follows only frames that fit is handled, unless the
\* client goes away first; the loop of ProcessRecv ends and a read is always
\* outstanding again (Session.cpp 29-31, 54-85).
FitsUpTo(k) == \A j \in 1..k : frames[j].size <= Capacity

EveryFrameHandled ==
    \A k \in 1..MaxFrames :
        (k <= Len(frames) /\ FitsUpTo(k)) ~> (Len(handled) >= k \/ peer = "reset")

\* A frame that cannot fit does not leave the session wedged: the full buffer
\* makes the next read complete with length 0, and the session is closed
\* (Session.cpp 24, 47-52).
OversizeCloses ==
    (\E k \in DOMAIN frames : frames[k].size > Capacity) ~> ~isOpen
==============================================================================
