------------------------------ MODULE SendPath ------------------------------
(***************************************************************************)
(* The send side of one session: Session::Send and Session::Close, and     *)
(* what boost::asio::async_write makes of a batch.                         *)
(*                                                                         *)
(* Send frames the payloads of one Flush into one buffer and starts an     *)
(* async_write for it without looking at the writes that are still         *)
(* outstanding, at the state of the socket or at a limit.  async_write     *)
(* hands the buffer to the socket in transfers of at most Chunk bytes; the *)
(* first is issued by the Flush thread, every later one by the worker that *)
(* runs the completion of the one before.  Nothing serialises them, so the *)
(* transfers of two batches alternate when a batch needs more than one.    *)
(*                                                                         *)
(* Assumed of the platform: a transfer completes without an error only     *)
(* when all its bytes have been taken.  It is true of the overlapped sends *)
(* of Windows, for which the program is built; elsewhere async_write_some  *)
(* may complete short, and then a batch of any size can be torn.           *)
(*                                                                         *)
(* A byte is abstracted to its offset in the stream that would arise if    *)
(* all batches were written whole, in the order of the Sends: frame n is   *)
(* the offsets from start[n] on.                                           *)
(***************************************************************************)
EXTENDS Integers, Sequences

CONSTANTS
    HeaderLen,  \* bytes of a header; 4 in the code
    SizeMod,    \* values of the header's size field; 2^16 in the code
    Chunk,      \* the largest transfer async_write issues; 65536 in asio
    Payloads,   \* sizes of a serialised S_Chat
    MaxBatch,   \* bound: payloads in one batch
    MaxSends    \* bound: batches that are sent

\* The chat of a payload has come through a receive buffer of 40960 bytes, so a
\* frame's size fits in the 16 bits of the header.
ASSUME SendAssumption ==
    /\ HeaderLen \in Nat \ {0}
    /\ SizeMod \in Nat
    /\ Chunk \in Nat \ {0}
    /\ Payloads \subseteq {p \in Nat : p + HeaderLen < SizeMod}
    /\ MaxBatch \in Nat
    /\ MaxSends \in Nat

VARIABLES
    frames,   \* [payload, size]: the frames Send has built; size as in the header
    start,    \* start[n]: offset of frame n
    ops,      \* the async_writes: [first, next, last, status], [first, last) the
              \* buffer, next the first offset whose transfer is not complete
    queue,    \* transfers the socket holds: [op, from, to]
    wire,     \* the bytes TCP has taken, in order
    isOpen,   \* socket->is_open()
    peer,     \* "up" or "gone"
    read,     \* bytes of the wire the client has cut into frames
    got       \* history: the frames the client has cut out

vars == <<frames, start, ops, queue, wire, isOpen, peer, read, got>>

\* "transfer": a transfer is in the socket; "posted"/"failed": its completion,
\* without or with an error, waits for a worker; "done"/"error": Send's handler
\* has run.
Statuses == {"transfer", "posted", "failed", "done", "error"}

TypeOK ==
    /\ frames \in Seq([payload : Payloads, size : 0..(SizeMod - 1)])
    /\ start \in Seq(Nat) /\ Len(start) = Len(frames)
    /\ ops \in Seq([first : Nat, next : Nat, last : Nat, status : Statuses])
    /\ queue \in Seq([op : DOMAIN ops, from : Nat, to : Nat])
    /\ wire \in Seq(Nat)
    /\ isOpen \in BOOLEAN
    /\ peer \in {"up", "gone"}
    /\ read \in 0..Len(wire)
    /\ got \in Seq(Seq(Nat))

Init ==
    /\ frames = <<>> /\ start = <<>>
    /\ ops = <<>> /\ queue = <<>>
    /\ wire = <<>>
    /\ isOpen = TRUE /\ peer = "up"
    /\ read = 0 /\ got = <<>>

-----------------------------------------------------------------------------
(* Session::Send. *)

\* Faulty variant: the header is subtracted, as on the receiving side.
PacketSizeMinus(payload) == (payload % SizeMod) - HeaderLen

\* Faulty variant: the header is not counted.
PacketSizeBody(payload) == payload % SizeMod

\* const uint16_t payloadSize, packetSize.
PacketSize(payload) == ((payload % SizeMod) + HeaderLen) % SizeMod

\* Offsets(sizes)[n]: bytes of the first n frames of payloads of these sizes.
Offsets(sizes) ==
    LET at[n \in 0..Len(sizes)] == IF n = 0 THEN 0 ELSE at[n - 1] + HeaderLen + sizes[n]
    IN  at

Batches == UNION {[1..n -> Payloads] : n \in 1..MaxBatch}

End == IF ops = <<>> THEN 0 ELSE ops[Len(ops)].last

\* Faulty variant: a transfer stops one byte short of the limit.
TransferShort(k, from, last) ==
    [op |-> k, from |-> from, to |-> IF from + Chunk - 1 < last THEN from + Chunk - 1 ELSE last]

\* async_write_some for what is left of write k: at most Chunk bytes.  On a socket
\* that has been closed it completes with an error.
Transfer(k, from, last) ==
    [op |-> k, from |-> from, to |-> IF from + Chunk < last THEN from + Chunk ELSE last]

\* Faulty variant: a batch is not written while another write is outstanding.
SendWhenIdle(batch) ==
    /\ Len(ops) < MaxSends
    /\ LET pos   == Offsets([n \in DOMAIN batch |-> batch[n] % SizeMod])
           total == Offsets(batch)[Len(batch)]
       IN  /\ frames' = frames \o [n \in DOMAIN batch |->
                            [payload |-> batch[n], size |-> PacketSize(batch[n])]]
           /\ start' = start \o [n \in DOMAIN batch |-> End + pos[n - 1]]
           /\ ops' = Append(ops, [first |-> End, next |-> End, last |-> End + total,
                                  status |-> IF isOpen THEN "transfer" ELSE "failed"])
           /\ queue' = IF isOpen /\ queue = <<>>
                       THEN Append(queue, Transfer(Len(ops) + 1, End, End + total))
                       ELSE queue
    /\ UNCHANGED <<wire, isOpen, peer, read, got>>

\* The loops build the buffer; async_write starts.  (An empty list returns early
\* and changes nothing.)
Send(batch) ==
    /\ Len(ops) < MaxSends
    /\ LET pos   == Offsets([n \in DOMAIN batch |-> batch[n] % SizeMod])  \* writePos
           total == Offsets(batch)[Len(batch)]                            \* totalSize
       IN  /\ frames' = frames \o [n \in DOMAIN batch |->
                            [payload |-> batch[n], size |-> PacketSize(batch[n])]]
           /\ start' = start \o [n \in DOMAIN batch |-> End + pos[n - 1]]
           /\ ops' = Append(ops, [first |-> End, next |-> End, last |-> End + total,
                                  status |-> IF isOpen THEN "transfer" ELSE "failed"])
           /\ queue' = IF isOpen
                       THEN Append(queue, Transfer(Len(ops) + 1, End, End + total))
                       ELSE queue
    /\ UNCHANGED <<wire, isOpen, peer, read, got>>

-----------------------------------------------------------------------------
(* async_write's completions, run by any worker. *)

\* Faulty variant: async_write_some in place of async_write, no continuation.
WriteOnce(k) ==
    /\ ops[k].status = "posted"
    /\ ops' = [ops EXCEPT ![k].status = "done"]
    /\ UNCHANGED <<frames, start, queue, wire, isOpen, peer, read, got>>

\* A transfer is complete and bytes are left: the next transfer.
WriteMore(k) ==
    /\ ops[k].status = "posted"
    /\ ops[k].next < ops[k].last
    /\ ops' = [ops EXCEPT ![k].status = IF isOpen THEN "transfer" ELSE "failed"]
    /\ queue' = IF isOpen THEN Append(queue, Transfer(k, ops[k].next, ops[k].last))
                          ELSE queue
    /\ UNCHANGED <<frames, start, wire, isOpen, peer, read, got>>

\* Nothing is left, or the transfer failed: Send's handler, which only logs.
WriteHandler(k) ==
    /\ \/ ops[k].status = "posted" /\ ops[k].next = ops[k].last
       \/ ops[k].status = "failed"
    /\ ops' = [ops EXCEPT ![k].status = IF @ = "posted" THEN "done" ELSE "error"]
    /\ UNCHANGED <<frames, start, queue, wire, isOpen, peer, read, got>>

Fail(ks) == [k \in DOMAIN ops |-> IF k \in ks THEN [ops[k] EXCEPT !.status = "failed"] ELSE ops[k]]

\* A worker closes the socket in the session's read handler, at any moment: the
\* transfers in the socket are aborted.
Close ==
    /\ isOpen
    /\ isOpen' = FALSE
    /\ queue' = <<>>
    /\ ops' = Fail({t.op : t \in {queue[i] : i \in DOMAIN queue}})
    /\ UNCHANGED <<frames, start, wire, peer, read, got>>

-----------------------------------------------------------------------------
(* The network and the client. *)

\* TCP takes n bytes of the transfer it is at; transfers are served in the order
\* in which they were issued.  One is complete, and is posted, only when it is whole
\* (the assumption at the head of the module).
Take(n) ==
    /\ peer = "up"
    /\ queue # <<>>
    /\ LET t == Head(queue)
       IN  /\ t.from + n <= t.to
           /\ wire' = wire \o [i \in 1..n |-> t.from + i - 1]
           /\ IF t.from + n = t.to
              THEN /\ queue' = Tail(queue)
                   /\ ops' = [ops EXCEPT ![t.op].next = t.to, ![t.op].status = "posted"]
              ELSE /\ queue' = [queue EXCEPT ![1].from = @ + n]
                   /\ UNCHANGED ops
    /\ UNCHANGED <<frames, start, isOpen, peer, read, got>>

PeerGone ==
    /\ peer = "up"
    /\ peer' = "gone"
    /\ UNCHANGED <<frames, start, ops, queue, wire, isOpen, read, got>>

\* The connection is broken: a transfer completes with an error.
TransferError ==
    /\ peer = "gone"
    /\ queue # <<>>
    /\ queue' = Tail(queue)
    /\ ops' = Fail({Head(queue).op})
    /\ UNCHANGED <<frames, start, wire, isOpen, peer, read, got>>

\* The client cuts the next frame by the size in its header, once all of it has
\* arrived.  It needs a header to be there in one piece.
ClientRecv ==
    /\ peer = "up"
    /\ \E n \in DOMAIN frames :
        /\ read + HeaderLen <= Len(wire)
        /\ SubSeq(wire, read + 1, read + HeaderLen) = [i \in 1..HeaderLen |-> start[n] + i - 1]
        /\ read + frames[n].size <= Len(wire)
        /\ got' = Append(got, SubSeq(wire, read + 1, read + frames[n].size))
        /\ read' = read + frames[n].size
    /\ UNCHANGED <<frames, start, ops, queue, wire, isOpen, peer>>

-----------------------------------------------------------------------------

Worker == \E k \in DOMAIN ops : WriteMore(k) \/ WriteHandler(k)

Network == TransferError \/ \E n \in 1..Chunk : Take(n)

Next ==
    \/ \E batch \in Batches : Send(batch)
    \/ Worker
    \/ Close
    \/ Network
    \/ PeerGone
    \/ ClientRecv

Spec == Init /\ [][Next]_vars

\* A worker takes a completion that is ready, and TCP moves bytes as long as the
\* client reads, which the repository's load client does until it closes.
FairSpec == Spec /\ WF_vars(Worker) /\ WF_vars(Network)

-----------------------------------------------------------------------------
(* Properties. *)

\* The frames Send means to write: header and payload of each, in order.
Intended ==
    [n \in DOMAIN frames |->
        [i \in 1..(HeaderLen + frames[n].payload) |-> start[n] + i - 1]]

\* The bytes before the first batch that needs more than one transfer.
Undivided ==
    LET large == {k \in DOMAIN ops : ops[k].last - ops[k].first > Chunk}
    IN  IF large = {} THEN End ELSE ops[CHOOSE k \in large : \A j \in large : k <= j].first

Before(offset) == {n \in DOMAIN frames : start[n] < offset}

\* The frames of the batches before that one, and what has come out of them.
Put == [n \in Before(Undivided) |-> Intended[n]]
Got == [n \in DOMAIN got \cap DOMAIN Put |-> got[n]]

Channel == INSTANCE FrameChannel WITH put <- Put, got <- Got

\* As long as every batch fits in one transfer, overlapping writes do no harm: what
\* the client cuts out by the sizes in the headers is what Send framed (Session.cpp
\* 114-147), in the order of the Sends, also when the socket is closed in the
\* middle and whatever is sent afterwards.  It answers the TODO at Session.cpp 104,
\* whether the size in the header is computed rightly.
ImplementsChannel == Channel!Spec

\* Positions on the wire of the bytes of write k.
Positions(k) == {i \in DOMAIN wire : ops[k].first <= wire[i] /\ wire[i] < ops[k].last}

\* However the transfers of several batches alternate, what TCP was given of one
\* batch is a prefix of it, in order and without repetition; and once Send's
\* handler has seen no error it is all of it (Session.cpp 136-146).
WritesComplete ==
    \A k \in DOMAIN ops :
        LET bytes == {wire[i] : i \in Positions(k)}
        IN  /\ \A i, j \in Positions(k) : i < j => wire[i] < wire[j]
            /\ \A b \in bytes : ops[k].first..b \subseteq bytes
            /\ ops[k].status = "done" => ops[k].first..(ops[k].last - 1) \subseteq bytes

\* A batch that fits in one transfer is never torn, not even between batches that
\* need several (Session.cpp 136): only a batch of more than Chunk bytes can have
\* bytes of another one in its middle.  This rests on transfers completing whole.
SmallBatchesWhole ==
    \A k \in DOMAIN ops :
        ops[k].last - ops[k].first <= Chunk =>
            \A i, j \in Positions(k) : wire[j] - wire[i] = j - i

\* Every write ends and releases its buffer and its session: its handler runs,
\* with or without an error, whatever is written meanwhile and whenever the socket
\* is closed (Session.cpp 134-157).
EveryWriteEnds ==
    \A k \in 1..MaxSends :
        k \in DOMAIN ops ~> (k \in DOMAIN ops /\ ops[k].status \in {"done", "error"})
==============================================================================
