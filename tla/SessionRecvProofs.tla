-------------------------- MODULE SessionRecvProofs --------------------------
(***************************************************************************)
(* Theorems about SessionRecv, for a buffer and frames of any sizes and    *)
(* any number of frames: what ProcessRecv cuts out of the stream is what   *)
(* the client built, the positions of the buffer stay inside it, and a     *)
(* session is closed only for cause.                                       *)
(***************************************************************************)
EXTENDS SessionRecv, SequenceTheorems, TLAPS

(***************************************************************************)
(* The inductive invariant.                                                *)
(***************************************************************************)

\* Frame k ends where frame k+1 starts, so offsets grow with the frames.
StreamInv ==
    /\ start[1] = 0
    /\ \A k \in 1..Len(frames) : start[k + 1] = start[k] + frames[k].size
    /\ \A j, k \in 1..Len(start) : j < k => start[j] < start[k]

\* The offset of the first frame that has not been handled.
Front == start[Len(handled) + 1]

\* The buffer starts at a frame and holds the next bytes of the stream.
BufferInv ==
    /\ Len(handled) <= Len(frames)
    /\ rb.readPos = 0
    /\ taken = Front + rb.writePos
    /\ taken <= Sent
    /\ \A i \in 0..(rb.writePos - 1) : rb.buffer[i] = Front + i

\* A read is outstanding only when the buffer holds no whole frame.
ReadingInv ==
    pc = "reading" =>
        \/ rb.writePos < HeaderLen
        \/ Len(handled) < Len(frames) /\ rb.writePos < frames[Len(handled) + 1].size

\* A closed session runs no further handler.
DoneInv == ~isOpen => pc = "done"

RecvInv ==
    /\ TypeOK
    /\ StreamInv
    /\ BufferInv
    /\ FramesExact
    /\ ReadingInv
    /\ DoneInv
    /\ ClosedForCause

(***************************************************************************)
(* Facts about the buffer.                                                 *)
(***************************************************************************)

\* The bytes of a read go to writePos and leave the rest alone.
StoredBytes(b, n) ==
    [i \in 0..(Capacity - 1) |->
        IF i \in b.writePos..(b.writePos + n - 1) THEN taken + (i - b.writePos) ELSE b.buffer[i]]

\* async_read_some changes nothing else.
LEMMA StoreBytes ==
    ASSUME Capacity \in Nat, taken \in Nat, NEW b \in RecvBuffers, NEW n \in Nat,
           NEW s, s = Store(b, n)
    PROVE  /\ s \in RecvBuffers
           /\ s.readPos = b.readPos
           /\ s.writePos = b.writePos
           /\ s.buffer = StoredBytes(b, n)
<1>1. StoredBytes(b, n) \in [0..(Capacity - 1) -> Nat]
  BY DEF RecvBuffers, StoredBytes
<1>2. s = [b EXCEPT !.buffer = StoredBytes(b, n)]
  BY DEF Store, RecvBuffers, StoredBytes
<1> QED
  BY <1>1, <1>2 DEF RecvBuffers

\* SetWritePos refuses nothing when the bytes fit.
LEMMA SetWritePosFits ==
    ASSUME Capacity \in Nat, NEW b \in RecvBuffers, NEW n \in Nat,
           b.writePos + n <= Capacity,
           NEW c, c = SetWritePos(b, n)
    PROVE  /\ c \in RecvBuffers
           /\ c.readPos = b.readPos
           /\ c.writePos = b.writePos + n
           /\ c.buffer = b.buffer
  BY DEF SetWritePos, RecvBuffers

\* SetReadPos past a frame at the front, then Clear: what is left moves to the
\* front, byte for byte.
LEMMA ClearMoves ==
    ASSUME RecvAssumption, NEW b \in RecvBuffers, b.readPos = 0,
           b.writePos <= Capacity, NEW n \in Nat, n <= b.writePos,
           NEW c, c = Clear(SetReadPos(b, n))
    PROVE  /\ c \in RecvBuffers
           /\ c.readPos = 0
           /\ c.writePos = b.writePos - n
           /\ \A i \in 0..(b.writePos - n - 1) : c.buffer[i] = b.buffer[n + i]
<1> DEFINE d == SetReadPos(b, n)
<1>1. b.buffer \in [0..(Capacity - 1) -> Nat] /\ b.writePos \in Nat
  BY DEF RecvBuffers
<1>2. /\ d \in RecvBuffers
      /\ d.readPos = n /\ d.writePos = b.writePos
      /\ d.buffer = b.buffer
  BY DEF SetReadPos, RecvBuffers
<1> HIDE DEF d
<1>3. CASE n = b.writePos
  <2>1. c = [d EXCEPT !.readPos = 0, !.writePos = 0]
    BY <1>2, <1>3 DEF d, Clear
  <2>2. 0 \in 0..Capacity /\ 0 <= 0
    BY DEF RecvAssumption
  <2>3. c = [buffer |-> b.buffer, readPos |-> 0, writePos |-> 0]
    BY <1>2, <2>1 DEF RecvBuffers
  <2>4. c \in RecvBuffers /\ c.readPos = 0 /\ c.writePos = 0
    BY <1>1, <2>2, <2>3 DEF RecvBuffers
  <2> QED
    BY <1>1, <1>3, <2>4
<1>4. CASE n # b.writePos
  <2> DEFINE moved == [i \in 0..(Capacity - 1) |->
                          IF i < b.writePos - n THEN b.buffer[n + i] ELSE b.buffer[i]]
  <2>1. c = [buffer |-> moved, readPos |-> 0, writePos |-> b.writePos - n]
    BY <1>1, <1>2, <1>4 DEF d, Clear
  <2>2. \A i \in 0..(Capacity - 1) : i < b.writePos - n => n + i \in 0..(Capacity - 1)
    BY <1>1 DEF RecvAssumption
  <2>3. moved \in [0..(Capacity - 1) -> Nat]
    BY <1>1, <2>2
  <2>4. \A i \in 0..(b.writePos - n - 1) : moved[i] = b.buffer[n + i]
    BY <1>1 DEF RecvAssumption
  <2> HIDE DEF moved
  <2>5. c \in RecvBuffers
    BY <1>1, <2>1, <2>3 DEF RecvBuffers
  <2> QED
    BY <2>1, <2>4, <2>5
<1> QED
  BY <1>3, <1>4

(***************************************************************************)
(* Every action preserves the invariant.                                   *)
(***************************************************************************)

\* A session starts with an empty stream, an empty buffer and a read.
LEMMA InitRecvInv == ASSUME RecvAssumption, Init PROVE RecvInv
<1> USE DEF Init, RecvAssumption
<1>1. TypeOK
  BY DEF TypeOK, RecvBuffers
<1>2. StreamInv
  BY DEF StreamInv
<1>3. BufferInv
  BY DEF BufferInv, Front, Sent
<1>4. FramesExact
  BY DEF FramesExact
<1>5. ReadingInv /\ DoneInv /\ ClosedForCause
  BY DEF ReadingInv, DoneInv, ClosedForCause
<1> QED
  BY <1>1, <1>2, <1>3, <1>4, <1>5 DEF RecvInv

\* A frame is at least a header.
LEMMA FrameSize ==
    ASSUME RecvAssumption, NEW f \in Frames
    PROVE  f.size \in Nat /\ f.size >= HeaderLen /\ f.size > 0 /\ f.kind \in Kinds
<1>1. f.size \in FrameSizes /\ f.kind \in Kinds
  BY DEF Frames
<1>2. f.size \in {n \in Nat : n >= HeaderLen}
  BY <1>1 DEF RecvAssumption
<1> QED
  BY <1>1, <1>2 DEF RecvAssumption

\* What the stream, the buffer and the handled frames satisfy depends on nothing
\* else.
LEMMA SameData ==
    ASSUME RecvInv, UNCHANGED <<frames, start, taken, rb, handled>>
    PROVE  StreamInv' /\ BufferInv' /\ FramesExact'
<1>1. StreamInv'
  BY DEF RecvInv, StreamInv
<1>2. Front' = Front /\ Sent' = Sent
  BY DEF Front, Sent
<1>3. BufferInv'
  BY <1>2 DEF RecvInv, BufferInv
<1>4. Written' = Written
  BY DEF Written
<1>5. FramesExact'
  BY <1>4 DEF RecvInv, FramesExact
<1> QED
  BY <1>1, <1>3, <1>5

\* The client appends a frame to the stream; what was there stays.
LEMMA ClientSendInv ==
    ASSUME RecvAssumption, RecvInv, NEW f \in Frames, ClientSend(f)
    PROVE  RecvInv'
<1>0. f.size \in Nat /\ f.size >= HeaderLen /\ f.size > 0
  BY FrameSize
<1>1. /\ frames \in Seq(Frames) /\ start \in Seq(Nat)
      /\ Len(start) = Len(frames) + 1 /\ Len(frames) \in Nat
      /\ Sent \in Nat /\ DOMAIN frames = 1..Len(frames)
  BY DEF RecvInv, TypeOK, Sent
<1>2. /\ frames' \in Seq(Frames) /\ start' \in Seq(Nat)
      /\ Len(frames') = Len(frames) + 1
      /\ Len(start') = Len(start) + 1
      /\ \A k \in 1..Len(frames) : frames'[k] = frames[k]
      /\ \A k \in 1..Len(start) : start'[k] = start[k]
      /\ frames'[Len(frames) + 1] = f
      /\ start'[Len(start) + 1] = start[Len(start)] + f.size
  BY <1>0, <1>1 DEF ClientSend, Sent
<1>D. /\ DOMAIN frames' = 1..(Len(frames) + 1)
      /\ 1..Len(start) \subseteq 1..(Len(frames) + 1)
      /\ 1..Len(frames) \subseteq 1..Len(start)
  BY <1>1, <1>2
<1>U. UNCHANGED <<peer, taken, rb, isOpen, pc, handled>>
  BY DEF ClientSend
<1>3. TypeOK'
  BY <1>1, <1>2, <1>U DEF RecvInv, TypeOK
<1>4. StreamInv'
  <2>1. start'[1] = 0
    BY <1>1, <1>2 DEF RecvInv, StreamInv
  <2>2. ASSUME NEW k \in 1..Len(frames') PROVE start'[k + 1] = start'[k] + frames'[k].size
    <3>1. CASE k \in 1..Len(frames)
      <4>1. k \in 1..Len(start) /\ k + 1 \in 1..Len(start)
        BY <3>1, <1>1
      <4> QED
        BY <3>1, <4>1, <1>2 DEF RecvInv, StreamInv
    <3>2. CASE k = Len(frames) + 1
      BY <3>2, <1>1, <1>2, <1>D
    <3> QED
      BY <3>1, <3>2, <1>1, <1>2
  <2>3. ASSUME NEW j \in 1..Len(start'), NEW k \in 1..Len(start'), j < k
        PROVE  start'[j] < start'[k]
    <3>1. CASE k \in 1..Len(start)
      <4>1. j \in 1..Len(start)
        BY <2>3, <3>1, <1>1, <1>2
      <4> QED
        BY <2>3, <3>1, <4>1, <1>2 DEF RecvInv, StreamInv
    <3>2. CASE k = Len(start) + 1
      <4>1. start[j] <= start[Len(start)] /\ start[j] \in Nat /\ start'[j] = start[j]
        <5>1. j \in 1..Len(start) /\ Len(start) \in 1..Len(start)
          BY <2>3, <3>2, <1>1
        <5>2. j < Len(start) => start[j] < start[Len(start)]
          BY <5>1 DEF RecvInv, StreamInv
        <5>3. start[j] \in Nat /\ start'[j] = start[j] /\ start[Len(start)] \in Nat
          BY <5>1, <1>1, <1>2
        <5> QED
          BY <5>1, <5>2, <5>3, <1>1
      <4> QED
        BY <4>1, <2>3, <3>2, <1>0, <1>1, <1>2, <1>D DEF Sent
    <3> QED
      BY <3>1, <3>2, <1>1, <1>2
  <2> QED
    BY <2>1, <2>2, <2>3 DEF StreamInv
<1>5. /\ Len(handled) \in Nat /\ Len(handled) <= Len(frames) /\ Front' = Front
      /\ DOMAIN handled = 1..Len(handled)
  BY <1>1, <1>2, <1>U DEF RecvInv, BufferInv, Front, TypeOK
<1>6. BufferInv'
  <2>1. Sent' = Sent + f.size /\ taken <= Sent /\ taken \in Nat
    BY <1>1, <1>2 DEF RecvInv, Sent, BufferInv, TypeOK
  <2>2. taken' <= Sent'
    BY <2>1, <1>0, <1>1, <1>U
  <2>3. Len(handled') <= Len(frames')
    BY <1>1, <1>2, <1>5, <1>U
  <2> QED
    BY <2>2, <2>3, <1>5, <1>U DEF RecvInv, BufferInv
<1>7. FramesExact'
  <2>1. ASSUME NEW k \in 1..Len(frames) PROVE Written'[k] = Written[k]
    <3>1. /\ k \in DOMAIN frames /\ k \in DOMAIN frames'
          /\ frames'[k] = frames[k] /\ start'[k] = start[k]
      BY <1>1, <1>2, <1>D
    <3> QED
      BY <3>1 DEF Written
  <2>2. \A k \in 1..Len(handled) : handled[k] = Written[k]
    BY <1>5 DEF RecvInv, FramesExact
  <2>3. \A k \in DOMAIN handled : k \in 1..Len(frames)
    BY <1>1, <1>5
  <2>4. Len(handled) <= Len(frames')
    BY <1>1, <1>2, <1>5
  <2> QED
    BY <2>1, <2>2, <2>3, <2>4, <1>5, <1>U DEF FramesExact
<1>8. ReadingInv' /\ DoneInv' /\ ClosedForCause'
  <2>1. Len(handled) < Len(frames) =>
            /\ Len(handled) < Len(frames')
            /\ frames'[Len(handled) + 1] = frames[Len(handled) + 1]
    <3>1. Len(handled) < Len(frames) => Len(handled) + 1 \in 1..Len(frames)
      BY <1>1, <1>5
    <3> QED
      BY <3>1, <1>1, <1>2, <1>5
  <2> QED
    BY <2>1, <1>U DEF RecvInv, ReadingInv, DoneInv, ClosedForCause
<1> QED
  BY <1>3, <1>4, <1>6, <1>7, <1>8 DEF RecvInv

\* The client closes or loses its connection.
LEMMA ClientCloseInv ==
    ASSUME RecvInv, ClientClose PROVE RecvInv'
<1>1. StreamInv' /\ BufferInv' /\ FramesExact'
  BY SameData DEF ClientClose
<1>2. TypeOK' /\ ReadingInv' /\ DoneInv' /\ ClosedForCause'
  BY DEF RecvInv, ClientClose, TypeOK, ReadingInv, DoneInv, ClosedForCause
<1> QED
  BY <1>1, <1>2 DEF RecvInv

\* A read appends the next bytes of the stream to the buffer.
LEMMA ReadSomeInv ==
    ASSUME RecvAssumption, RecvInv, NEW n \in 1..Capacity, ReadSome(n)
    PROVE  RecvInv'
<1>0. /\ rb \in RecvBuffers /\ rb.writePos \in Nat /\ taken \in Nat
      /\ n \in Nat /\ Capacity \in Nat
  BY DEF RecvInv, TypeOK, RecvBuffers, RecvAssumption
<1>A. /\ Len(handled) \in Nat /\ Len(frames) \in Nat /\ Len(start) = Len(frames) + 1
      /\ Len(handled) <= Len(frames) /\ start \in Seq(Nat)
  BY DEF RecvInv, TypeOK, BufferInv
<1>B. Sent \in Nat /\ Front \in Nat
  BY <1>A DEF Sent, Front
<1>C. /\ rb.readPos = 0 /\ taken = Front + rb.writePos
      /\ \A i \in 0..(rb.writePos - 1) : rb.buffer[i] = Front + i
  BY DEF RecvInv, BufferInv
<1>1. rb.writePos + n <= Capacity /\ taken + n <= Sent
  BY <1>0, <1>B DEF ReadSome, GetWritableSize
<1>2. PICK b : b = Store(rb, n)
  OBVIOUS
<1>3. /\ b \in RecvBuffers
      /\ b.readPos = rb.readPos
      /\ b.writePos = rb.writePos
      /\ b.buffer = StoredBytes(rb, n)
  BY <1>0, <1>2, StoreBytes
<1>4. /\ rb' \in RecvBuffers /\ rb'.readPos = 0 /\ rb'.writePos = rb.writePos + n
      /\ rb'.buffer = b.buffer
  <2>1. rb' = SetWritePos(b, n)
    BY <1>2 DEF ReadSome
  <2> QED
    BY <1>0, <1>1, <1>3, <1>C, <2>1, SetWritePosFits
<1>5. /\ UNCHANGED <<frames, start, peer, isOpen, handled>>
      /\ taken' = taken + n /\ pc' = "process"
      /\ Front' = Front /\ Sent' = Sent /\ Written' = Written
  BY DEF ReadSome, Front, Sent, Written
<1>6. TypeOK'
  BY <1>0, <1>4, <1>5 DEF RecvInv, TypeOK
<1>7. BufferInv'
  <2>1. ASSUME NEW i \in 0..(rb'.writePos - 1) PROVE rb'.buffer[i] = Front + i
    <3>1. i \in 0..(Capacity - 1) /\ i < rb.writePos + n
      BY <1>0, <1>1, <1>4
    <3>2. CASE i \in rb.writePos..(rb.writePos + n - 1)
      BY <3>1, <3>2, <1>0, <1>3, <1>4, <1>B, <1>C DEF StoredBytes
    <3>3. CASE i \in 0..(rb.writePos - 1)
      BY <3>1, <3>3, <1>0, <1>3, <1>4, <1>C DEF StoredBytes
    <3> QED
      BY <3>1, <3>2, <3>3, <1>0
  <2>2. taken' = Front' + rb'.writePos
    BY <1>0, <1>4, <1>5, <1>B, <1>C
  <2> QED
    BY <2>1, <2>2, <1>1, <1>4, <1>5, <1>A DEF BufferInv
<1>8. StreamInv' /\ FramesExact'
  BY <1>5 DEF RecvInv, StreamInv, FramesExact
<1>9. ReadingInv' /\ DoneInv' /\ ClosedForCause'
  BY <1>5 DEF RecvInv, ReadingInv, DoneInv, ClosedForCause, ReadSome
<1> QED
  BY <1>6, <1>7, <1>8, <1>9 DEF RecvInv

\* A buffer that is full while a read is outstanding has a frame at its front
\* that is larger than the buffer.
LEMMA FullMeansOversize ==
    ASSUME RecvAssumption, RecvInv, pc = "reading", rb.writePos = Capacity
    PROVE  Len(handled) < Len(frames) /\ frames[Len(handled) + 1].size > Capacity
<1>1. Len(handled) < Len(frames) /\ rb.writePos < frames[Len(handled) + 1].size
  BY DEF RecvInv, ReadingInv, RecvAssumption
<1>2. frames[Len(handled) + 1].size \in Nat
  <2>1. frames[Len(handled) + 1] \in Frames
    BY <1>1 DEF RecvInv, TypeOK
  <2> QED
    BY <2>1, FrameSize
<1> QED
  BY <1>1, <1>2 DEF RecvAssumption

\* The session is closed, with a cause.
LEMMA ReadClosesInv ==
    ASSUME RecvAssumption, RecvInv, ReadNothing \/ ReadError
    PROVE  RecvInv'
<1> USE DEF RecvInv
<1>1. /\ UNCHANGED <<frames, start, peer, taken, rb, handled>>
      /\ isOpen' = FALSE /\ pc' = "done"
  BY DEF ReadNothing, ReadError, Close
<1>2. ClosedForCause'
  <2>1. CASE ReadNothing
    <3>1. rb.writePos = Capacity /\ pc = "reading"
      BY <2>1 DEF ReadNothing, GetWritableSize, RecvAssumption, TypeOK, RecvBuffers
    <3> QED
      BY <1>1, <3>1, FullMeansOversize DEF ClosedForCause
  <2>2. CASE ReadError
    BY <1>1, <2>2 DEF ReadError, ClosedForCause
  <2> QED
    BY <2>1, <2>2
<1>3. TypeOK' /\ StreamInv' /\ BufferInv' /\ FramesExact'
  BY <1>1, SameData DEF TypeOK
<1> QED
  BY <1>1, <1>2, <1>3 DEF ReadingInv, DoneInv

\* A buffer with a header in it starts at the next frame, whose header it is.
LEMMA HeaderIsNext ==
    ASSUME RecvAssumption, RecvInv, GetReadableSize(rb) >= HeaderLen
    PROVE  /\ Len(handled) + 1 \in DOMAIN frames
           /\ HeaderAt(rb) = {frames[Len(handled) + 1]}
<1> DEFINE h == Len(handled) + 1
<1>1. /\ Len(handled) \in Nat /\ Len(frames) \in Nat /\ h \in 1..Len(start)
      /\ Len(start) = Len(frames) + 1
      /\ \A k \in 1..Len(start) : start[k] \in Nat
      /\ DOMAIN frames = 1..Len(frames)
  <2>1. /\ handled \in Seq([kind : Kinds, body : Seq(Nat)])
        /\ frames \in Seq(Frames)
        /\ start \in Seq(Nat) /\ Len(start) = Len(frames) + 1
        /\ Len(handled) <= Len(frames)
    BY DEF RecvInv, TypeOK, BufferInv
  <2>2. Len(handled) \in Nat
    BY <2>1
  <2>3. Len(frames) \in Nat /\ DOMAIN frames = 1..Len(frames)
    BY <2>1
  <2>4. \A k \in 1..Len(start) : start[k] \in Nat
    BY <2>1
  <2> QED
    BY <2>1, <2>2, <2>3, <2>4
<1>2. rb.writePos \in Nat /\ rb.writePos >= HeaderLen /\ HeaderLen \in Nat /\ HeaderLen > 0
  BY DEF RecvInv, TypeOK, BufferInv, RecvBuffers, GetReadableSize, RecvAssumption
<1>3. start[h] < start[Len(start)]
  <2>1. start[h] + rb.writePos <= start[Len(start)]
    BY DEF RecvInv, BufferInv, Front, Sent
  <2>2. start[h] \in Nat /\ start[Len(start)] \in Nat
    BY <1>1
  <2> QED
    BY <2>1, <2>2, <1>2
<1>4. h # Len(start)
  BY <1>1, <1>3
<1>5. h \in DOMAIN frames
  BY <1>1, <1>4
<1>6. rb.buffer[rb.readPos] = start[h]
  <2>1. 0 \in 0..(rb.writePos - 1) /\ start[h] + 0 = start[h]
    BY <1>1, <1>2
  <2>2. rb.readPos = 0 /\ \A i \in 0..(rb.writePos - 1) : rb.buffer[i] = start[h] + i
    BY DEF RecvInv, BufferInv, Front
  <2> HIDE DEF h
  <2> QED
    BY <2>1, <2>2
<1>7. ASSUME NEW j \in DOMAIN frames, start[j] = start[h] PROVE j = h
  <2>1. j \in 1..Len(start) /\ j \in Int /\ h \in Int
    BY <1>1
  <2>2. ~(j < h) /\ ~(h < j)
    BY <1>1, <1>7, <2>1 DEF RecvInv, StreamInv
  <2> QED
    BY <2>1, <2>2
<1> QED
  BY <1>5, <1>6, <1>7 DEF HeaderAt

\* One frame is cut out: it is the next one, byte for byte, and the buffer starts
\* at the frame after it.
LEMMA ProcessPacketInv ==
    ASSUME RecvAssumption, RecvInv, ProcessPacket
    PROVE  RecvInv'
<1> DEFINE h == Len(handled) + 1
           f == frames[h]
<1>1. h \in DOMAIN frames /\ HeaderAt(rb) = {f}
  BY HeaderIsNext DEF ProcessPacket
<1>2. /\ IsWhole(rb, f)
      /\ handled' = Append(handled, [kind |-> f.kind, body |-> Body(rb, f.size)])
      /\ rb' = Clear(SetReadPos(rb, f.size))
      /\ UNCHANGED <<frames, start, peer, taken, isOpen, pc>>
  BY <1>1 DEF ProcessPacket
<1>3. /\ Len(handled) \in Nat /\ Len(frames) \in Nat /\ h \in 1..Len(frames)
      /\ Len(start) = Len(frames) + 1 /\ h + 1 \in 1..Len(start)
      /\ DOMAIN frames = 1..Len(frames)
      /\ start[h] \in Nat /\ start[h + 1] \in Nat
      /\ start[h + 1] = start[h] + f.size
      /\ f \in Frames
  BY <1>1 DEF RecvInv, TypeOK, StreamInv
<1>4. /\ f.size \in Nat /\ f.size >= HeaderLen /\ HeaderLen \in Nat \ {0} /\ f.kind \in Kinds
      /\ Capacity \in Nat
  BY <1>3, FrameSize DEF RecvAssumption
<1>5. /\ rb \in RecvBuffers /\ rb.readPos = 0 /\ rb.writePos \in Nat
      /\ rb.writePos <= Capacity /\ f.size <= rb.writePos
      /\ \A i \in 0..(rb.writePos - 1) : rb.buffer[i] = start[h] + i
      /\ taken = start[h] + rb.writePos
      /\ taken <= Sent
  <2>1. rb \in RecvBuffers /\ rb.writePos \in Nat
    BY DEF RecvInv, TypeOK, RecvBuffers
  <2>2. rb.readPos = 0 /\ rb.writePos <= Capacity
    BY <2>1, <1>4 DEF RecvInv, BufferInv, RecvBuffers
  <2>3. f.size <= rb.writePos
    BY <2>1, <2>2, <1>2, <1>4 DEF IsWhole, GetReadableSize
  <2>4. /\ \A i \in 0..(rb.writePos - 1) : rb.buffer[i] = start[h] + i
        /\ taken = start[h] + rb.writePos
        /\ taken <= Sent
    BY DEF RecvInv, BufferInv, Front
  <2> QED
    BY <2>1, <2>2, <2>3, <2>4
<1> HIDE DEF h, f
<1>6. /\ rb' \in RecvBuffers /\ rb'.readPos = 0 /\ rb'.writePos = rb.writePos - f.size
      /\ \A i \in 0..(rb.writePos - f.size - 1) : rb'.buffer[i] = rb.buffer[f.size + i]
  <2>1. PICK n \in Nat : n = f.size
    BY <1>4
  <2>2. rb' = Clear(SetReadPos(rb, n)) /\ n <= rb.writePos
    BY <2>1, <1>2, <1>5
  <2>3. rb \in RecvBuffers /\ rb.readPos = 0 /\ rb.writePos <= Capacity
    BY <1>5
  <2>4. /\ rb' \in RecvBuffers /\ rb'.readPos = 0 /\ rb'.writePos = rb.writePos - n
        /\ \A i \in 0..(rb.writePos - n - 1) : rb'.buffer[i] = rb.buffer[n + i]
    BY <2>2, <2>3, ClearMoves
  <2> QED
    BY <2>1, <2>4
<1>7. Body(rb, f.size) = [i \in 1..(f.size - HeaderLen) |-> start[h] + HeaderLen + i - 1]
  <2>1. \A i \in 1..(f.size - HeaderLen) :
            rb.buffer[rb.readPos + HeaderLen + i - 1] = start[h] + HeaderLen + i - 1
    <3> SUFFICES ASSUME NEW i \in 1..(f.size - HeaderLen)
                 PROVE  rb.buffer[rb.readPos + HeaderLen + i - 1] = start[h] + HeaderLen + i - 1
      OBVIOUS
    <3> DEFINE j == HeaderLen + i - 1
    <3>1. j \in 0..(rb.writePos - 1)
      BY <1>4, <1>5
    <3>2. rb.readPos + HeaderLen + i - 1 = j /\ start[h] + j = start[h] + HeaderLen + i - 1
      BY <1>3, <1>4, <1>5
    <3> HIDE DEF j
    <3> QED
      BY <3>1, <3>2, <1>5
  <2> QED
    BY <2>1 DEF Body
<1>8. handled' = Append(handled, Written[h])
  BY <1>1, <1>2, <1>7 DEF Written, f
<1>9. Body(rb, f.size) \in Seq(Nat)
  <2>1. \A i \in 1..(f.size - HeaderLen) : start[h] + HeaderLen + i - 1 \in Nat
    <3>1. start[h] \in Nat /\ HeaderLen \in Nat \ {0} /\ f.size \in Nat
      BY <1>3, <1>4
    <3> QED
      BY <3>1
  <2>2. f.size - HeaderLen \in Nat
    BY <1>4
  <2> QED
    BY <2>1, <2>2, <1>7, IsASeq
<1>10. /\ handled' \in Seq([kind : Kinds, body : Seq(Nat)])
       /\ Len(handled') = h
       /\ \A k \in 1..(h - 1) : handled'[k] = handled[k]
       /\ handled'[h] = Written[h]
  <2>1. [kind |-> f.kind, body |-> Body(rb, f.size)] \in [kind : Kinds, body : Seq(Nat)]
    BY <1>4, <1>9
  <2>2. handled \in Seq([kind : Kinds, body : Seq(Nat)])
    BY DEF RecvInv, TypeOK
  <2> QED
    BY <1>2, <1>8, <2>1, <2>2 DEF h
<1>11. TypeOK'
  BY <1>2, <1>6, <1>10 DEF RecvInv, TypeOK
<1>12. StreamInv'
  BY <1>2 DEF RecvInv, StreamInv
<1>13. Front' = start[h + 1] /\ Sent' = Sent /\ Written' = Written
  BY <1>2, <1>10 DEF Front, Sent, Written
<1>14. BufferInv'
  <2>1. ASSUME NEW i \in 0..(rb'.writePos - 1) PROVE rb'.buffer[i] = start[h + 1] + i
    <3>1. f.size + i \in 0..(rb.writePos - 1) /\ i \in 0..(rb.writePos - f.size - 1)
      BY <1>4, <1>5, <1>6
    <3>2. rb'.buffer[i] = start[h] + (f.size + i)
      BY <3>1, <1>5, <1>6
    <3>3. start[h + 1] = start[h] + f.size /\ start[h] \in Nat /\ f.size \in Nat
      BY <1>3, <1>4
    <3> QED
      BY <3>2, <3>3, <2>1
  <2>2. taken' = Front' + rb'.writePos
    <3>1. taken' = taken /\ Front' = start[h + 1] /\ rb'.writePos = rb.writePos - f.size
      BY <1>2, <1>6, <1>13
    <3>2. /\ taken = start[h] + rb.writePos /\ start[h + 1] = start[h] + f.size
          /\ start[h] \in Nat /\ f.size \in Nat /\ rb.writePos \in Nat
      BY <1>3, <1>4, <1>5
    <3> QED
      BY <3>1, <3>2
  <2>3. rb'.writePos <= Capacity /\ taken' <= Sent'
    BY <1>2, <1>4, <1>5, <1>6, <1>13
  <2>4. Len(handled') <= Len(frames')
    BY <1>2, <1>3, <1>10
  <2> QED
    BY <2>1, <2>2, <2>3, <2>4, <1>6, <1>13 DEF BufferInv
<1>15. FramesExact'
  <2>1. ASSUME NEW k \in 1..h PROVE handled'[k] = Written[k]
    <3>1. CASE k \in 1..(h - 1)
      <4>1. k \in DOMAIN handled
        BY <3>1, <1>3 DEF h, RecvInv, TypeOK
      <4> QED
        BY <3>1, <4>1, <1>10 DEF RecvInv, FramesExact
    <3>2. CASE k = h
      BY <3>2, <1>10
    <3> QED
      BY <3>1, <3>2, <1>3
  <2>2. DOMAIN handled' = 1..h
    BY <1>10
  <2>3. Len(handled') <= Len(frames')
    BY <1>2, <1>3, <1>10
  <2> QED
    BY <2>1, <2>2, <2>3, <1>13 DEF FramesExact
<1>16. ReadingInv' /\ DoneInv' /\ ClosedForCause'
  BY <1>2 DEF RecvInv, ReadingInv, DoneInv, ClosedForCause, ProcessPacket
<1> QED
  BY <1>11, <1>12, <1>14, <1>15, <1>16 DEF RecvInv

\* A read is registered when the buffer holds no whole frame.
LEMMA RegisterRecvInv ==
    ASSUME RecvAssumption, RecvInv, RegisterRecv
    PROVE  RecvInv'
<1> USE DEF RecvInv
<1>1. /\ UNCHANGED <<frames, start, peer, taken, rb, isOpen, handled>>
      /\ pc = "process" /\ pc' = "reading"
  BY DEF RegisterRecv
<1>2. rb.writePos \in Nat /\ GetReadableSize(rb) = rb.writePos
  BY DEF GetReadableSize, BufferInv, TypeOK, RecvBuffers
<1>3. ReadingInv'
  <2>1. CASE GetReadableSize(rb) < HeaderLen
    BY <1>1, <1>2, <2>1 DEF ReadingInv
  <2>2. CASE GetReadableSize(rb) >= HeaderLen
    <3>1. Len(handled) + 1 \in DOMAIN frames /\ ~IsWhole(rb, frames[Len(handled) + 1])
      BY <2>2, <1>2, HeaderIsNext DEF RegisterRecv, RecvAssumption
    <3>2. Len(handled) < Len(frames) /\ frames[Len(handled) + 1] \in Frames
      BY <3>1 DEF TypeOK
    <3> QED
      BY <1>1, <1>2, <3>1, <3>2, FrameSize DEF ReadingInv, IsWhole
  <2> QED
    BY <1>2, <2>1, <2>2 DEF RecvAssumption
<1>4. TypeOK' /\ StreamInv' /\ BufferInv' /\ FramesExact'
  BY <1>1, SameData DEF TypeOK
<1> QED
  BY <1>1, <1>3, <1>4 DEF DoneInv, ClosedForCause

\* Every step keeps RecvInv.
LEMMA StepRecvInv ==
    ASSUME RecvAssumption, RecvInv, [Next]_vars PROVE RecvInv'
<1>1. CASE UNCHANGED vars
  BY <1>1, SameData DEF vars, RecvInv, TypeOK, ReadingInv, DoneInv, ClosedForCause
<1> QED
  BY <1>1, ClientSendInv, ClientCloseInv, ReadSomeInv, ReadClosesInv, ProcessPacketInv,
     RegisterRecvInv DEF Next, Handler

\* Everything RecvInv says of the session holds in every reachable state.
THEOREM RecvInvariance == Spec => []RecvInv
<1> USE RecvAssumption
<1>1. Init => RecvInv
  BY InitRecvInv
<1>2. RecvInv /\ [Next]_vars => RecvInv'
  BY StepRecvInv
<1> QED
  BY <1>1, <1>2, PTL DEF Spec

(***************************************************************************)
(* The theorems.                                                           *)
(***************************************************************************)

\* Whatever the client sends and however the stream is split, readPos and writePos
\* stay inside the buffer and in order (RecvBuffer.h, Session.cpp 18-86).
THEOREM RecvTypeCorrect == Spec => []TypeOK
<1>1. RecvInv => TypeOK
  BY DEF RecvInv
<1> QED
  BY <1>1, RecvInvariance, PTL

\* ProcessRecv cuts out of the stream the frames the client built, in order, byte
\* for byte (Session.cpp 54-85), for every buffer and every sizes of frames.
THEOREM FramingExact == Spec => []FramesExact
<1>1. RecvInv => FramesExact
  BY DEF RecvInv
<1> QED
  BY <1>1, RecvInvariance, PTL

\* The server closes a session only when the client has gone or the next frame is
\* larger than the buffer (Session.cpp 24, 47-52).
THEOREM ClosesOnlyForCause == Spec => []ClosedForCause
<1>1. RecvInv => ClosedForCause
  BY DEF RecvInv
<1> QED
  BY <1>1, RecvInvariance, PTL
==============================================================================
