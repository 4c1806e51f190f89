--------------------------- MODULE SendPathProofs ---------------------------
(***************************************************************************)
(* Theorems about the send side of a session, for payloads, batches and    *)
(* transfers of any size and any number of writes.                         *)
(***************************************************************************)
EXTENDS SendPath, WellFoundedInduction, SequenceTheorems, TLAPS

(***************************************************************************)
(* The sums of Send's loops.                                               *)
(***************************************************************************)

\* A set of numbers that has 0 and, with every number below n, the next one, has
\* all numbers up to n.
LEMMA UpTo ==
    ASSUME NEW n \in Nat, NEW S, 0 \in S, \A m \in 0..(n - 1) : m \in S => m + 1 \in S
    PROVE  0..n \subseteq S
<1> DEFINE T == {m \in 0..n : m \notin S}
<1>1. SUFFICES ASSUME T # {} PROVE FALSE
  OBVIOUS
<1>2. T \subseteq Nat
  OBVIOUS
<1>3. PICK m \in T : \A j \in T : m <= j
  <2>1. PICK m \in T : \A j \in T : ~(<<j, m>> \in OpToRel(<, Nat))
    <3> HIDE DEF T
    <3> QED
      BY <1>1, <1>2, WFMin, NatLessThanWellFounded
  <2>2. \A j \in T : ~(j < m)
    BY <2>1, <1>2 DEF OpToRel
  <2> QED
    BY <1>2, <2>2
<1>4. m # 0 /\ m \in 0..n
  BY <1>3
<1>5. m - 1 \in 0..(n - 1) /\ (m - 1) + 1 = m /\ m - 1 \in 0..n /\ ~(m <= m - 1)
  BY <1>4
<1>6. m - 1 \notin T
  BY <1>3, <1>5
<1> QED
  BY <1>3, <1>5, <1>6

\* Offsets is a sequence of sums.
LEMMA OffsetsSums ==
    ASSUME HeaderLen \in Nat, NEW n \in Nat, NEW sizes \in [1..n -> Nat]
    PROVE  /\ Offsets(sizes) \in [0..n -> Nat]
           /\ Offsets(sizes)[0] = 0
           /\ \A i \in 1..n : Offsets(sizes)[i] = Offsets(sizes)[i - 1] + HeaderLen + sizes[i]
<1> DEFINE Sums(f, m) == f \in [0..m -> Nat] /\ f[0] = 0
                         /\ \A i \in 1..m : f[i] = f[i - 1] + HeaderLen + sizes[i]
           S == {m \in 0..n : \E f : Sums(f, m)}
<1>1. 0 \in S
  <2>1. Sums([i \in 0..0 |-> 0], 0)
    OBVIOUS
  <2> HIDE DEF Sums
  <2> QED
    BY <2>1
<1>2. ASSUME NEW m \in 0..(n - 1), m \in S PROVE m + 1 \in S
  <2>1. PICK f : Sums(f, m)
    BY <1>2
  <2> DEFINE g == [i \in 0..(m + 1) |-> IF i = m + 1 THEN f[m] + HeaderLen + sizes[m + 1] ELSE f[i]]
  <2>2. m + 1 \in 1..n /\ m + 1 \in 0..n /\ m \in 0..m
    OBVIOUS
  <2>3. f[m] \in Nat /\ sizes[m + 1] \in Nat
    BY <2>1, <2>2
  <2>4. \A i \in 0..(m + 1) : i # m + 1 => i \in 0..m
    OBVIOUS
  <2>5. g \in [0..(m + 1) -> Nat]
    BY <2>1, <2>3, <2>4
  <2>6. g[0] = 0
    BY <2>1
  <2>7. ASSUME NEW i \in 1..(m + 1) PROVE g[i] = g[i - 1] + HeaderLen + sizes[i]
    <3>1. i \in 0..(m + 1) /\ i - 1 \in 0..(m + 1) /\ i - 1 # m + 1
      OBVIOUS
    <3>2. CASE i = m + 1
      <4>1. i - 1 = m
        BY <3>2
      <4> QED
        BY <3>1, <3>2, <4>1
    <3>3. CASE i # m + 1
      <4>1. i \in 1..m
        BY <3>3
      <4> QED
        BY <3>1, <3>3, <4>1, <2>1
    <3> QED
      BY <3>2, <3>3
  <2>8. Sums(g, m + 1)
    BY <2>5, <2>6, <2>7
  <2> HIDE DEF g
  <2> QED
    BY <2>2, <2>8
<1>3. 0..n \subseteq S
  <2> HIDE DEF S
  <2> QED
    BY <1>1, <1>2, UpTo
<1>4. PICK f : Sums(f, n)
  <2>1. n \in S
    <3>1. n \in 0..n
      OBVIOUS
    <3> HIDE DEF S
    <3> QED
      BY <3>1, <1>3
  <2> QED
    BY <2>1
<1>5. Len(sizes) = n
  OBVIOUS
<1>6. f = [i \in 0..n |-> IF i = 0 THEN 0 ELSE f[i - 1] + HeaderLen + sizes[i]]
  <2>1. \A i \in 0..n : i # 0 => i \in 1..n
    OBVIOUS
  <2> QED
    BY <1>4, <2>1
<1> DEFINE Def(h) == h = [i \in 0..Len(sizes) |-> IF i = 0 THEN 0 ELSE h[i - 1] + HeaderLen + sizes[i]]
<1>7. Def(f)
  BY <1>5, <1>6
<1>8. Def(Offsets(sizes))
  <2>1. Offsets(sizes) = CHOOSE h : Def(h)
    BY DEF Offsets
  <2> HIDE DEF Def
  <2> QED
    BY <1>7, <2>1
<1>9. PICK h : h = Offsets(sizes)
  OBVIOUS
<1>10. h = [i \in 0..n |-> IF i = 0 THEN 0 ELSE h[i - 1] + HeaderLen + sizes[i]]
  BY <1>5, <1>8, <1>9
<1> DEFINE D == {m \in 0..n : h[m] = f[m]}
<1>11. 0 \in D
  BY <1>4, <1>10
<1>12. ASSUME NEW m \in 0..(n - 1), m \in D PROVE m + 1 \in D
  <2>1. m + 1 \in 1..n /\ m + 1 \in 0..n /\ m + 1 # 0 /\ (m + 1) - 1 = m
    OBVIOUS
  <2>2. h[m + 1] = h[m] + HeaderLen + sizes[m + 1]
    BY <1>10, <2>1
  <2>3. f[m + 1] = f[m] + HeaderLen + sizes[m + 1]
    BY <1>4, <2>1
  <2> QED
    BY <1>12, <2>1, <2>2, <2>3
<1>13. 0..n \subseteq D
  <2> HIDE DEF D
  <2> QED
    BY <1>11, <1>12, UpTo
<1>14. \A i \in 0..n : h[i] = f[i]
  BY <1>13
<1>15. h \in [0..n -> Nat]
  BY <1>4, <1>10, <1>14
<1>16. h[0] = 0 /\ \A i \in 1..n : h[i] = h[i - 1] + HeaderLen + sizes[i]
  <2>1. 0 \in 0..n /\ \A i \in 1..n : i \in 0..n /\ i # 0
    OBVIOUS
  <2> QED
    BY <2>1, <1>10
<1> QED
  BY <1>9, <1>15, <1>16

(***************************************************************************)
(* The inductive invariant.                                                *)
(***************************************************************************)

\* The buffers of the writes follow one another.
OpsInv ==
    /\ \A k \in DOMAIN ops : ops[k].first <= ops[k].next /\ ops[k].next <= ops[k].last
    /\ \A j, k \in DOMAIN ops : j < k => ops[j].last <= ops[k].first

Small(k) == ops[k].last - ops[k].first <= Chunk

\* Of write k the wire has the bytes before offset m, and no others.
Covers(k, m) ==
    /\ \A i \in Positions(k) : wire[i] < m
    /\ \A b \in ops[k].first..(m - 1) : \E i \in Positions(k) : wire[i] = b

Ascending(k) == \A i, j \in Positions(k) : i < j => wire[i] < wire[j]

Whole(k) == \A i, j \in Positions(k) : wire[j] - wire[i] = j - i

\* How far write k has come.  Where an aborted one has stopped is not recorded.  A
\* small one that is not in the socket any more does not go on.
Written(k) ==
    /\ Ascending(k)
    /\ \E m \in Nat : m <= ops[k].last /\ Covers(k, m)
    /\ ops[k].status = "posted" => Covers(k, ops[k].next)
    /\ ops[k].status = "done" => Covers(k, ops[k].last)
    /\ Small(k) => Whole(k) /\ (ops[k].status = "posted" => ops[k].next = ops[k].last)

WireInv ==
    /\ \A i \in DOMAIN wire : wire[i] < End
    /\ \A k \in DOMAIN ops : Written(k)

\* Transfer a of the queue, of write k, has offsets from to to left.  Only the
\* first one can have been taken in part.  That of a small batch is all of it, and
\* what was taken of it is the last on the wire.
InSocket(a, k, from, to) ==
    /\ ops[k].status = "transfer"
    /\ ops[k].next <= from /\ from <= to /\ to <= ops[k].last
    /\ Covers(k, from)
    /\ a # 1 => from = ops[k].next
    /\ Small(k) =>
        /\ to = ops[k].last
        /\ \A i \in Positions(k) : a = 1 /\ wire[i] + Len(wire) = from - 1 + i

QueueInv ==
    /\ \A a, b \in DOMAIN queue : queue[a].op = queue[b].op => a = b
    /\ \A a \in DOMAIN queue : InSocket(a, queue[a].op, queue[a].from, queue[a].to)

SendInv == TypeOK /\ OpsInv /\ WireInv /\ QueueInv

Writes == [first : Nat, next : Nat, last : Nat, status : Statuses]
Transfers(dom) == [op : dom, from : Nat, to : Nat]

(***************************************************************************)
(* Facts.                                                                  *)
(***************************************************************************)

\* A function on 1..n is a sequence.
LEMMA SeqOf ==
    ASSUME NEW S, NEW n \in Nat, NEW f \in [1..n -> S]
    PROVE  f \in Seq(S) /\ Len(f) = n /\ DOMAIN f = 1..n
  OBVIOUS

\* A sequence has its elements in a set if each of them is in it.
LEMMA SeqElements ==
    ASSUME NEW S, NEW R, NEW q \in Seq(R), \A a \in DOMAIN q : q[a] \in S
    PROVE  q \in Seq(S)
<1>1. q \in [1..Len(q) -> S] /\ Len(q) \in Nat
  OBVIOUS
<1> QED
  BY <1>1, SeqOf

\* What the steps below use of the invariant.
LEMMA OpsFacts ==
    ASSUME SendInv
    PROVE  /\ ops \in Seq(Writes) /\ DOMAIN ops = 1..Len(ops) /\ Len(ops) \in Nat
           /\ \A k \in DOMAIN ops :
                /\ ops[k] \in Writes
                /\ ops[k].first \in Nat /\ ops[k].next \in Nat /\ ops[k].last \in Nat
                /\ ops[k].status \in Statuses
                /\ ops[k].first <= ops[k].next /\ ops[k].next <= ops[k].last
                /\ ops[k].last <= End
           /\ End \in Nat
<1>1. ops \in Seq(Writes) /\ OpsInv
  BY DEF SendInv, TypeOK, Writes
<1>2. DOMAIN ops = 1..Len(ops) /\ Len(ops) \in Nat /\ \A k \in DOMAIN ops : ops[k] \in Writes
  BY <1>1
<1>3. \A k \in DOMAIN ops :
          /\ ops[k].first \in Nat /\ ops[k].next \in Nat /\ ops[k].last \in Nat
          /\ ops[k].status \in Statuses
  BY <1>2 DEF Writes
<1>4. CASE ops = <<>>
  BY <1>1, <1>2, <1>3, <1>4 DEF End
<1>5. CASE ops # <<>>
  <2>1. Len(ops) \in DOMAIN ops /\ End = ops[Len(ops)].last
    BY <1>2, <1>5, <1>1 DEF End
  <2>2. ASSUME NEW k \in DOMAIN ops PROVE ops[k].last <= End
    <3>1. CASE k = Len(ops)
      BY <3>1, <2>1, <1>3
    <3>2. CASE k # Len(ops)
      <4>1. k < Len(ops)
        BY <3>2, <1>2
      <4>2. ops[k].last <= ops[Len(ops)].first /\ ops[Len(ops)].first <= ops[Len(ops)].next
            /\ ops[Len(ops)].next <= ops[Len(ops)].last
        BY <4>1, <2>1, <1>1 DEF OpsInv
      <4> QED
        BY <4>2, <2>1, <1>3
    <3> QED
      BY <3>1, <3>2
  <2> QED
    BY <2>1, <2>2, <1>1, <1>2, <1>3 DEF OpsInv
<1> QED
  BY <1>4, <1>5

\* The same of the socket's queue and the wire.
LEMMA QueueFacts ==
    ASSUME SendInv
    PROVE  /\ queue \in Seq(Transfers(DOMAIN ops)) /\ DOMAIN queue = 1..Len(queue) /\ Len(queue) \in Nat
           /\ \A a \in DOMAIN queue :
                queue[a].op \in DOMAIN ops /\ queue[a].from \in Nat /\ queue[a].to \in Nat
           /\ wire \in Seq(Nat) /\ DOMAIN wire = 1..Len(wire) /\ Len(wire) \in Nat
           /\ \A i \in DOMAIN wire : wire[i] \in Nat
<1>1. queue \in Seq(Transfers(DOMAIN ops)) /\ wire \in Seq(Nat)
  BY DEF SendInv, TypeOK, Transfers
<1>2. \A a \in DOMAIN queue : queue[a] \in Transfers(DOMAIN ops)
  BY <1>1
<1>3. \A a \in DOMAIN queue :
          queue[a].op \in DOMAIN ops /\ queue[a].from \in Nat /\ queue[a].to \in Nat
  BY <1>2 DEF Transfers
<1> QED
  BY <1>1, <1>3

\* A session begins with nothing sent.
LEMMA InitSendInv == ASSUME SendAssumption, Init PROVE SendInv
<1>1. /\ frames = <<>> /\ start = <<>> /\ ops = <<>> /\ queue = <<>> /\ wire = <<>>
      /\ isOpen = TRUE /\ peer = "up" /\ read = 0 /\ got = <<>>
  BY DEF Init
<1>2. DOMAIN ops = {} /\ DOMAIN queue = {} /\ DOMAIN wire = {} /\ Len(wire) = 0
  BY <1>1
<1>3. TypeOK
  BY <1>1, <1>2 DEF TypeOK
<1>4. OpsInv /\ WireInv /\ QueueInv
  BY <1>2 DEF OpsInv, WireInv, QueueInv
<1> QED
  BY <1>3, <1>4 DEF SendInv

(***************************************************************************)
(* Steps that put no bytes on the wire.                                    *)
(***************************************************************************)

\* What is said of write k by its offsets and the wire alone.
LEMMA SameBytes ==
    ASSUME wire' = wire, NEW k,
           ops'[k].first = ops[k].first, ops'[k].last = ops[k].last
    PROVE  /\ Positions(k)' = Positions(k)
           /\ Ascending(k)' <=> Ascending(k)
           /\ Whole(k)' <=> Whole(k)
           /\ Small(k)' <=> Small(k)
           /\ \A m : Covers(k, m)' <=> Covers(k, m)
<1>1. Positions(k)' = Positions(k)
  BY DEF Positions
<1> QED
  BY <1>1 DEF Ascending, Whole, Small, Covers

\* The same of a transfer; one that moves up in the queue was not the first.
LEMMA SameTransfer ==
    ASSUME wire' = wire, NEW k, ops'[k] = ops[k],
           NEW a \in Nat, NEW b \in Nat, NEW from \in Nat, NEW to \in Nat,
           InSocket(a, k, from, to), b = a \/ a # 1
    PROVE  InSocket(b, k, from, to)'
<1>1. /\ Positions(k)' = Positions(k)
      /\ Small(k)' <=> Small(k)
      /\ Covers(k, from)' <=> Covers(k, from)
  BY SameBytes
<1>2. ops'[k].status = ops[k].status /\ ops'[k].next = ops[k].next /\ ops'[k].last = ops[k].last
  OBVIOUS
<1>3. b # 1 => from = ops[k].next
  BY DEF InSocket
<1>4. Small(k) => \A i \in Positions(k) : b = 1 /\ wire[i] + Len(wire) = from - 1 + i
  BY DEF InSocket
<1>5. Small(k)' =>
        /\ to = ops'[k].last
        /\ \A i \in Positions(k)' : b = 1 /\ wire'[i] + Len(wire') = from - 1 + i
  BY <1>1, <1>2, <1>4 DEF InSocket
<1>6. /\ ops'[k].status = "transfer"
      /\ ops'[k].next <= from /\ from <= to /\ to <= ops'[k].last
      /\ Covers(k, from)'
      /\ b # 1 => from = ops'[k].next
  BY <1>1, <1>2, <1>3 DEF InSocket
<1> QED
  BY <1>5, <1>6 DEF InSocket

\* A step that changes statuses only: no write is posted by it, and one that is
\* done by it has nothing left.
LEMMA StatusStep ==
    ASSUME SendInv, wire' = wire, ops' \in Seq(Writes), Len(ops') = Len(ops),
           \A k \in DOMAIN ops :
               /\ ops'[k].first = ops[k].first /\ ops'[k].next = ops[k].next /\ ops'[k].last = ops[k].last
               /\ ops'[k].status = "posted" => ops[k].status = "posted"
               /\ ops'[k].status = "done" =>
                    ops[k].status = "done" \/ (ops[k].status = "posted" /\ ops[k].next = ops[k].last)
    PROVE  OpsInv' /\ WireInv'
<1>1. /\ DOMAIN ops = 1..Len(ops) /\ Len(ops) \in Nat /\ ops \in Seq(Writes)
      /\ \A k \in DOMAIN ops : ops[k].next \in Nat /\ ops[k].last \in Nat
  BY OpsFacts
<1>2. DOMAIN ops' = DOMAIN ops
  BY <1>1
<1>3. OpsInv'
  BY <1>2 DEF SendInv, OpsInv
<1>4. End' = End
  <2>1. CASE ops = <<>>
    <3>1. ops' = <<>>
      BY <2>1, <1>1
    <3> QED
      BY <2>1, <3>1 DEF End
  <2>2. CASE ops # <<>>
    <3>1. ops' # <<>> /\ Len(ops) \in DOMAIN ops
      BY <2>2, <1>1
    <3> QED
      BY <2>2, <3>1 DEF End
  <2> QED
    BY <2>1, <2>2
<1>5. ASSUME NEW k \in DOMAIN ops PROVE Written(k)'
  <2>1. Written(k)
    BY DEF SendInv, WireInv
  <2>2. /\ Ascending(k)' <=> Ascending(k)
        /\ Whole(k)' <=> Whole(k)
        /\ Small(k)' <=> Small(k)
        /\ \A m : Covers(k, m)' <=> Covers(k, m)
    BY SameBytes
  <2>3. /\ ops'[k].next = ops[k].next /\ ops'[k].last = ops[k].last
        /\ ops'[k].status = "posted" => ops[k].status = "posted"
        /\ ops'[k].status = "done" =>
             ops[k].status = "done" \/ (ops[k].status = "posted" /\ ops[k].next = ops[k].last)
    OBVIOUS
  <2>4. \E m \in Nat : m <= ops'[k].last /\ Covers(k, m)'
    BY <2>1, <2>2, <2>3 DEF Written
  <2>5. ops'[k].status = "posted" => Covers(k, ops[k].next)'
    <3>1. PICK q : q = ops[k].next
      OBVIOUS
    <3>2. ops[k].status = "posted" => Covers(k, q)'
      BY <3>1, <2>1, <2>2 DEF Written
    <3> QED
      BY <3>1, <3>2, <2>3 DEF Covers
  <2>6. ops'[k].status = "done" => Covers(k, ops[k].last)'
    <3>1. PICK q : q = ops[k].last
      OBVIOUS
    <3>2. ops'[k].status = "done" => Covers(k, q)'
      BY <3>1, <2>1, <2>2, <2>3 DEF Written
    <3> QED
      BY <3>1, <3>2, <2>3 DEF Covers
  <2> QED
    BY <2>1, <2>2, <2>3, <2>4, <2>5, <2>6 DEF Written
<1>6. \A i \in DOMAIN wire' : wire'[i] < End'
  BY <1>4 DEF SendInv, WireInv
<1> QED
  BY <1>2, <1>3, <1>5, <1>6 DEF WireInv

\* A step that leaves the writes alone.
LEMMA IdleStep ==
    ASSUME SendInv, UNCHANGED <<ops, queue, wire>>, TypeOK' PROVE SendInv'
<1>1. OpsInv' /\ WireInv'
  BY OpsFacts, StatusStep
<1>2. ASSUME NEW a \in DOMAIN queue
      PROVE  InSocket(a, queue[a].op, queue[a].from, queue[a].to)'
  <2>1. a \in Nat /\ queue[a].from \in Nat /\ queue[a].to \in Nat
    BY QueueFacts
  <2>2. PICK from \in Nat, to \in Nat : from = queue[a].from /\ to = queue[a].to
    BY <2>1
  <2> PICK k : k = queue[a].op
    OBVIOUS
  <2>3. InSocket(a, k, from, to)
    BY <2>2 DEF SendInv, QueueInv
  <2>4. InSocket(a, k, from, to)'
    BY <2>1, <2>3, SameTransfer
  <2> QED
    BY <2>2, <2>4
<1>3. QueueInv'
  BY <1>2 DEF SendInv, QueueInv
<1> QED
  BY <1>1, <1>3 DEF SendInv

\* The peer goes away, or the client cuts out a frame.
LEMMA PeerStep ==
    ASSUME SendAssumption, SendInv, PeerGone \/ ClientRecv PROVE SendInv'
<1>1. TypeOK /\ wire \in Seq(Nat) /\ Len(wire) \in Nat
  BY QueueFacts DEF SendInv
<1>2. CASE PeerGone
  <2>1. TypeOK'
    BY <1>1, <1>2 DEF PeerGone, TypeOK
  <2> QED
    BY <2>1, <1>2, IdleStep DEF PeerGone
<1>3. CASE ClientRecv
  <2>1. PICK n \in DOMAIN frames :
            /\ read + frames[n].size <= Len(wire)
            /\ got' = Append(got, SubSeq(wire, read + 1, read + frames[n].size))
            /\ read' = read + frames[n].size
    BY <1>3 DEF ClientRecv
  <2>2. UNCHANGED <<frames, start, ops, queue, wire, isOpen, peer>>
    BY <1>3 DEF ClientRecv
  <2>3. frames[n].size \in Nat
    <3>1. /\ frames \in Seq([payload : Payloads, size : 0..(SizeMod - 1)]) /\ SizeMod \in Nat
      BY <1>1 DEF TypeOK, SendAssumption
    <3> DEFINE F == [payload : Payloads, size : 0..(SizeMod - 1)]
    <3>2. frames[n] \in F
      <4> HIDE DEF F
      <4>1. frames \in Seq(F)
        BY <3>1 DEF F
      <4> QED
        BY <4>1
    <3>3. frames[n].size \in 0..(SizeMod - 1)
      BY <3>2
    <3> QED
      BY <3>1, <3>3
  <2>4. read \in Nat /\ got \in Seq(Seq(Nat))
    BY <1>1 DEF TypeOK
  <2>5. SubSeq(wire, read + 1, read + frames[n].size) \in Seq(Nat)
    <3>1. read + 1 \in 1..(Len(wire) + 1) /\ read + frames[n].size \in (read + 1) - 1..Len(wire)
      <4>1. PICK s \in Nat, L \in Nat : s = frames[n].size /\ L = Len(wire)
        BY <1>1, <2>3
      <4>2. read + s <= L
        BY <4>1, <2>1
      <4>3. read + 1 \in 1..(L + 1) /\ read + s \in (read + 1) - 1..L
        BY <4>2, <2>4
      <4> QED
        BY <4>1, <4>3
    <3> QED
      BY <3>1, <1>1, SubSeqProperties
  <2>6. read' \in 0..Len(wire') /\ got' \in Seq(Seq(Nat))
    <3>1. PICK s \in Nat, L \in Nat : s = frames[n].size /\ L = Len(wire)
      BY <1>1, <2>3
    <3>2. read' = read + s /\ read + s <= L /\ Len(wire') = L
      BY <3>1, <2>1, <2>2
    <3>3. read' \in 0..Len(wire')
      BY <3>2, <2>4
    <3>4. PICK f \in Seq(Nat) : f = SubSeq(wire, read + 1, read + frames[n].size)
      BY <2>5
    <3>5. got' = Append(got, f)
      BY <3>4, <2>1
    <3>6. got' \in Seq(Seq(Nat))
      BY <3>5, <2>4
    <3> QED
      BY <3>3, <3>6
  <2>7. TypeOK'
    BY <1>1, <2>2, <2>6 DEF TypeOK
  <2> QED
    BY <2>2, <2>7, IdleStep
<1> QED
  BY <1>2, <1>3

\* One write changes its status.
LEMMA StatusEffect ==
    ASSUME SendInv, NEW k \in DOMAIN ops, NEW st \in Statuses, ops' = [ops EXCEPT ![k].status = st]
    PROVE  /\ ops' \in Seq(Writes) /\ Len(ops') = Len(ops) /\ DOMAIN ops' = DOMAIN ops
           /\ \A j \in DOMAIN ops : j # k => ops'[j] = ops[j]
           /\ ops'[k].first = ops[k].first /\ ops'[k].next = ops[k].next /\ ops'[k].last = ops[k].last
           /\ ops'[k].status = st
<1>1. /\ ops \in Seq(Writes) /\ DOMAIN ops = 1..Len(ops) /\ Len(ops) \in Nat /\ ops[k] \in Writes
  BY OpsFacts
<1>2. [ops[k] EXCEPT !.status = st] \in Writes
  BY <1>1 DEF Writes
<1>3. ops' = [ops EXCEPT ![k] = [ops[k] EXCEPT !.status = st]]
  OBVIOUS
<1>4. ops' \in [1..Len(ops) -> Writes]
  BY <1>1, <1>2, <1>3
<1>5. ops' \in Seq(Writes) /\ Len(ops') = Len(ops) /\ DOMAIN ops' = DOMAIN ops
  BY <1>1, <1>4, SeqOf
<1>6. ops'[k] = [ops[k] EXCEPT !.status = st]
  BY <1>3
<1> QED
  BY <1>1, <1>3, <1>5, <1>6 DEF Writes

\* Some writes fail.
LEMMA FailEffect ==
    ASSUME SendInv, NEW ks, ops' = Fail(ks)
    PROVE  /\ ops' \in Seq(Writes) /\ Len(ops') = Len(ops) /\ DOMAIN ops' = DOMAIN ops
           /\ \A k \in DOMAIN ops :
                /\ ops'[k].first = ops[k].first /\ ops'[k].next = ops[k].next /\ ops'[k].last = ops[k].last
                /\ k \in ks => ops'[k].status = "failed"
                /\ k \notin ks => ops'[k] = ops[k]
<1>1. /\ ops \in Seq(Writes) /\ DOMAIN ops = 1..Len(ops) /\ Len(ops) \in Nat
      /\ \A k \in DOMAIN ops : ops[k] \in Writes
  BY OpsFacts
<1>2. \A k \in DOMAIN ops : [ops[k] EXCEPT !.status = "failed"] \in Writes
  BY <1>1 DEF Writes, Statuses
<1>3. ops' = [k \in DOMAIN ops |-> IF k \in ks THEN [ops[k] EXCEPT !.status = "failed"] ELSE ops[k]]
  BY DEF Fail
<1>4. ops' \in [1..Len(ops) -> Writes]
  BY <1>1, <1>2, <1>3
<1>5. ops' \in Seq(Writes) /\ Len(ops') = Len(ops) /\ DOMAIN ops' = DOMAIN ops
  BY <1>1, <1>4, SeqOf
<1>6. ASSUME NEW k \in DOMAIN ops
      PROVE  /\ ops'[k].first = ops[k].first /\ ops'[k].next = ops[k].next /\ ops'[k].last = ops[k].last
             /\ k \in ks => ops'[k].status = "failed"
             /\ k \notin ks => ops'[k] = ops[k]
  BY <1>1, <1>3 DEF Writes
<1> QED
  BY <1>5, <1>6

\* What is left of a write goes into the socket.
LEMMA WriteMoreStep ==
    ASSUME SendAssumption, SendInv, NEW k \in DOMAIN ops, WriteMore(k) PROVE SendInv'
<1>T. /\ TypeOK /\ QueueInv /\ Written(k) /\ Chunk \in Nat \ {0}
      /\ ops \in Seq(Writes) /\ DOMAIN ops = 1..Len(ops) /\ Len(ops) \in Nat
      /\ ops[k] \in Writes /\ ops[k].next \in Nat /\ ops[k].last \in Nat
      /\ queue \in Seq(Transfers(DOMAIN ops)) /\ DOMAIN queue = 1..Len(queue) /\ Len(queue) \in Nat
      /\ \A a \in DOMAIN queue :
           queue[a].op \in DOMAIN ops /\ queue[a].from \in Nat /\ queue[a].to \in Nat
  BY OpsFacts, QueueFacts DEF SendInv, WireInv, SendAssumption
<1>1. /\ ops[k].status = "posted" /\ ops[k].next < ops[k].last
      /\ UNCHANGED <<frames, start, wire, isOpen, peer, read, got>>
  BY DEF WriteMore
<1>2. PICK st \in Statuses : /\ st = (IF isOpen THEN "transfer" ELSE "failed")
                             /\ ops' = [ops EXCEPT ![k].status = st]
  BY DEF WriteMore, Statuses
<1>3. /\ ops' \in Seq(Writes) /\ Len(ops') = Len(ops) /\ DOMAIN ops' = DOMAIN ops
      /\ \A j \in DOMAIN ops : j # k => ops'[j] = ops[j]
      /\ ops'[k].first = ops[k].first /\ ops'[k].next = ops[k].next /\ ops'[k].last = ops[k].last
      /\ ops'[k].status = st
  BY <1>2, StatusEffect
<1>4. OpsInv' /\ WireInv'
  <2>1. st # "posted" /\ st # "done"
    BY <1>2
  <2> QED
    BY <2>1, <1>1, <1>3, StatusStep
<1>5. \A a \in DOMAIN queue : queue[a].op # k
  BY <1>1, <1>T DEF QueueInv, InSocket
<1>6. ASSUME NEW a \in DOMAIN queue, NEW j, NEW from, NEW to,
             j = queue[a].op, from = queue[a].from, to = queue[a].to
      PROVE  InSocket(a, j, from, to)'
  <2>1. InSocket(a, j, from, to)
    BY <1>6, <1>T DEF QueueInv
  <2>2. a \in Nat /\ from \in Nat /\ to \in Nat /\ ops'[j] = ops[j] /\ wire' = wire
    BY <1>1, <1>3, <1>5, <1>6, <1>T
  <2> QED
    BY <2>1, <2>2, SameTransfer
<1>7. CASE ~isOpen
  <2>1. queue' = queue
    BY <1>7 DEF WriteMore
  <2>2. QueueInv'
    BY <2>1, <1>6, <1>T DEF QueueInv
  <2>3. TypeOK'
    BY <2>1, <1>1, <1>3, <1>T DEF TypeOK, Writes
  <2> QED
    BY <2>2, <2>3, <1>4 DEF SendInv
<1>8. CASE isOpen
  <2>1. PICK to \in Nat : /\ to = (IF ops[k].next + Chunk < ops[k].last THEN ops[k].next + Chunk ELSE ops[k].last)
                         /\ ops[k].next <= to /\ to <= ops[k].last
    BY <1>1, <1>T
  <2>2. PICK x \in Transfers(DOMAIN ops) : x = [op |-> k, from |-> ops[k].next, to |-> to]
    BY <1>T DEF Transfers
  <2>3. x.op = k /\ x.from = ops[k].next /\ x.to = to
    BY <2>2
  <2>4. queue' = Append(queue, x)
    BY <1>8, <2>1, <2>2 DEF WriteMore, Transfer
  <2>5. /\ queue' \in Seq(Transfers(DOMAIN ops)) /\ DOMAIN queue' = 1..(Len(queue) + 1)
        /\ \A a \in DOMAIN queue : queue'[a] = queue[a]
        /\ queue'[Len(queue) + 1] = x
    BY <2>4, <1>T
  <2>6. \A a \in DOMAIN queue' : a \in DOMAIN queue \/ a = Len(queue) + 1
    BY <2>5, <1>T
  <2>7. PICK from \in Nat : from = ops[k].next
    BY <1>T
  <2>8. ASSUME NEW a \in Nat PROVE InSocket(a, k, from, to)'
    <3>2. /\ Covers(k, from)' <=> Covers(k, from)
          /\ Small(k)' <=> Small(k)
      BY <1>1, <1>3, SameBytes
    <3>3. Covers(k, from) /\ ~Small(k)
      BY <1>1, <1>T, <2>7 DEF Written
    <3>4. ops'[k].status = "transfer"
      BY <1>2, <1>3, <1>8
    <3> QED
      BY <3>2, <3>3, <3>4, <2>1, <2>7, <1>3, <1>T DEF InSocket
  <2>9. QueueInv'
    <3>1. \A a, b \in DOMAIN queue' : queue'[a].op = queue'[b].op => a = b
      BY <2>3, <2>5, <2>6, <1>5, <1>T DEF QueueInv
    <3>2. ASSUME NEW a \in DOMAIN queue' PROVE InSocket(a, queue[a].op, queue[a].from, queue[a].to)'
      <4>1. CASE a \in DOMAIN queue
        <5>1. PICK j, lo, hi : j = queue[a].op /\ lo = queue[a].from /\ hi = queue[a].to
          OBVIOUS
        <5>2. InSocket(a, j, lo, hi)'
          BY <4>1, <5>1, <1>6
        <5>3. queue'[a] = queue[a]
          BY <4>1, <2>5
        <5> QED
          BY <5>1, <5>2, <5>3
      <4>2. CASE a = Len(queue) + 1
        <5>1. queue'[a].op = k /\ queue'[a].from = from /\ queue'[a].to = to
          BY <4>2, <2>3, <2>5, <2>7
        <5>2. InSocket(a, k, from, to)'
          BY <4>2, <2>8, <1>T
        <5> QED
          BY <5>1, <5>2
      <4> QED
        BY <4>1, <4>2, <2>6
    <3> QED
      BY <3>1, <3>2 DEF QueueInv
  <2>10. TypeOK'
    BY <2>5, <1>1, <1>3, <1>T DEF TypeOK, Writes, Transfers
  <2> QED
    BY <2>9, <2>10, <1>4 DEF SendInv
<1> QED
  BY <1>7, <1>8

\* Send's handler runs.
LEMMA WriteHandlerStep ==
    ASSUME SendAssumption, SendInv, NEW k \in DOMAIN ops, WriteHandler(k) PROVE SendInv'
<1>1. /\ \/ ops[k].status = "posted" /\ ops[k].next = ops[k].last
         \/ ops[k].status = "failed"
      /\ UNCHANGED <<frames, start, queue, wire, isOpen, peer, read, got>>
      /\ TypeOK /\ QueueInv
  BY DEF WriteHandler, SendInv
<1>2. PICK st \in Statuses : /\ st = (IF ops[k].status = "posted" THEN "done" ELSE "error")
                             /\ ops' = [ops EXCEPT ![k].status = st]
  BY DEF WriteHandler, Statuses
<1>3. /\ ops' \in Seq(Writes) /\ Len(ops') = Len(ops) /\ DOMAIN ops' = DOMAIN ops
      /\ \A j \in DOMAIN ops : j # k => ops'[j] = ops[j]
      /\ ops'[k].first = ops[k].first /\ ops'[k].next = ops[k].next /\ ops'[k].last = ops[k].last
      /\ ops'[k].status = st
  BY <1>2, StatusEffect
<1>4. OpsInv' /\ WireInv'
  BY <1>1, <1>2, <1>3, StatusStep
<1>5. \A a \in DOMAIN queue : queue[a].op # k
  BY <1>1 DEF QueueInv, InSocket
<1>6. ASSUME NEW a \in DOMAIN queue PROVE InSocket(a, queue[a].op, queue[a].from, queue[a].to)'
  <2>1. PICK j, from, to : j = queue[a].op /\ from = queue[a].from /\ to = queue[a].to
    OBVIOUS
  <2>2. InSocket(a, j, from, to)
    BY <2>1, <1>1 DEF QueueInv
  <2>3. a \in Nat /\ from \in Nat /\ to \in Nat /\ ops'[j] = ops[j] /\ wire' = wire
    BY <2>1, <1>1, <1>3, <1>5, QueueFacts
  <2>4. InSocket(a, j, from, to)'
    BY <2>2, <2>3, SameTransfer
  <2> QED
    BY <2>1, <2>4, <1>1
<1>7. QueueInv'
  BY <1>1, <1>6 DEF QueueInv
<1>8. TypeOK'
  BY <1>1, <1>3 DEF TypeOK, Writes
<1> QED
  BY <1>4, <1>7, <1>8 DEF SendInv

\* The socket is closed.
LEMMA CloseStep == ASSUME SendAssumption, SendInv, Close PROVE SendInv'
<1> DEFINE ks == {t.op : t \in {queue[i] : i \in DOMAIN queue}}
<1>1. /\ isOpen' = FALSE /\ queue' = <<>> /\ ops' = Fail(ks) /\ TypeOK
      /\ UNCHANGED <<frames, start, wire, peer, read, got>>
  BY DEF Close, SendInv
<1> HIDE DEF ks
<1>2. /\ ops' \in Seq(Writes) /\ Len(ops') = Len(ops) /\ DOMAIN ops' = DOMAIN ops
      /\ \A k \in DOMAIN ops :
           /\ ops'[k].first = ops[k].first /\ ops'[k].next = ops[k].next /\ ops'[k].last = ops[k].last
           /\ k \in ks => ops'[k].status = "failed"
           /\ k \notin ks => ops'[k] = ops[k]
  BY <1>1, FailEffect
<1>3. OpsInv' /\ WireInv'
  BY <1>1, <1>2, StatusStep
<1>4. DOMAIN queue' = {}
  BY <1>1
<1>5. QueueInv'
  BY <1>4 DEF QueueInv
<1>6. TypeOK'
  <2>1. queue' \in Seq([op : DOMAIN ops', from : Nat, to : Nat])
    BY <1>1
  <2>2. ops' \in Seq([first : Nat, next : Nat, last : Nat, status : Statuses]) /\ isOpen' \in BOOLEAN
    BY <1>1, <1>2 DEF Writes
  <2> QED
    BY <1>1, <2>1, <2>2 DEF TypeOK
<1> QED
  BY <1>3, <1>5, <1>6 DEF SendInv

\* The queue without its first transfer.
LEMMA QueueTail ==
    ASSUME SendInv, queue # <<>>, queue' = Tail(queue)
    PROVE  /\ queue' \in Seq(Transfers(DOMAIN ops)) /\ 1 \in DOMAIN queue /\ Head(queue) = queue[1]
           /\ \A a \in DOMAIN queue' :
                a \in Nat /\ a + 1 \in DOMAIN queue /\ a + 1 # 1 /\ queue'[a] = queue[a + 1]
<1>1. /\ queue \in Seq(Transfers(DOMAIN ops)) /\ DOMAIN queue = 1..Len(queue) /\ Len(queue) \in Nat
  BY QueueFacts
<1>2. queue' \in Seq(Transfers(DOMAIN ops)) /\ Head(queue) = queue[1]
  BY <1>1
<1>3. DOMAIN queue' = 1..(Len(queue) - 1) /\ \A a \in 1..(Len(queue) - 1) : queue'[a] = queue[a + 1]
  BY <1>1
<1>4. Len(queue) # 0
  BY <1>1
<1> QED
  BY <1>1, <1>2, <1>3, <1>4

\* The connection is broken and a transfer fails.
LEMMA TransferErrorStep == ASSUME SendAssumption, SendInv, TransferError PROVE SendInv'
<1>1. /\ queue # <<>> /\ queue' = Tail(queue) /\ ops' = Fail({Head(queue).op})
      /\ UNCHANGED <<frames, start, wire, isOpen, peer, read, got>> /\ TypeOK /\ QueueInv
  BY DEF TransferError, SendInv
<1>2. /\ queue' \in Seq(Transfers(DOMAIN ops)) /\ 1 \in DOMAIN queue /\ Head(queue) = queue[1]
      /\ \A a \in DOMAIN queue' :
           a \in Nat /\ a + 1 \in DOMAIN queue /\ a + 1 # 1 /\ queue'[a] = queue[a + 1]
  BY <1>1, QueueTail
<1>3. PICK ks : ks = {Head(queue).op}
  OBVIOUS
<1>4. /\ ops' \in Seq(Writes) /\ Len(ops') = Len(ops) /\ DOMAIN ops' = DOMAIN ops
      /\ \A k \in DOMAIN ops :
           /\ ops'[k].first = ops[k].first /\ ops'[k].next = ops[k].next /\ ops'[k].last = ops[k].last
           /\ k \in ks => ops'[k].status = "failed"
           /\ k \notin ks => ops'[k] = ops[k]
  BY <1>1, <1>3, FailEffect
<1>5. OpsInv' /\ WireInv'
  BY <1>1, <1>4, StatusStep
<1>6. ASSUME NEW a \in DOMAIN queue' PROVE InSocket(a, queue[a].op, queue[a].from, queue[a].to)'
  <2>1. PICK j, from, to : j = queue[a + 1].op /\ from = queue[a + 1].from /\ to = queue[a + 1].to
    OBVIOUS
  <2>2. PICK b \in Nat : b = a + 1 /\ b # 1 /\ b \in DOMAIN queue
    BY <1>2
  <2>3. InSocket(b, j, from, to)
    BY <2>1, <2>2, <1>1 DEF QueueInv
  <2>4. j \notin ks
    BY <2>1, <2>2, <1>1, <1>2, <1>3 DEF QueueInv
  <2>5. a \in Nat /\ from \in Nat /\ to \in Nat /\ ops'[j] = ops[j] /\ wire' = wire
    BY <2>1, <2>2, <2>4, <1>1, <1>2, <1>4, QueueFacts
  <2>6. InSocket(a, j, from, to)'
    BY <2>2, <2>3, <2>5, SameTransfer
  <2> QED
    BY <2>1, <2>6, <1>2
<1>7. \A a, b \in DOMAIN queue' : queue'[a].op = queue'[b].op => a = b
  <2>1. \A a, b \in DOMAIN queue' : queue'[a].op = queue'[b].op => a + 1 = b + 1
    BY <1>1, <1>2 DEF QueueInv
  <2> QED
    BY <2>1, <1>2
<1>8. QueueInv'
  BY <1>6, <1>7 DEF QueueInv
<1>9. TypeOK'
  BY <1>1, <1>2, <1>4 DEF TypeOK, Writes, Transfers
<1> QED
  BY <1>5, <1>8, <1>9 DEF SendInv

(***************************************************************************)
(* Send.                                                                   *)
(***************************************************************************)

\* What Send computes for a batch.
LEMMA BatchFacts ==
    ASSUME SendAssumption, NEW batch \in Batches
    PROVE  \E n \in Nat \ {0} :
              /\ batch \in [1..n -> Payloads] /\ DOMAIN batch = 1..n /\ Len(batch) = n
              /\ Offsets([m \in DOMAIN batch |-> batch[m] % SizeMod]) \in [0..n -> Nat]
              /\ Offsets(batch)[Len(batch)] \in Nat
              /\ \A m \in 1..n : PacketSize(batch[m]) \in 0..(SizeMod - 1)
<1>1. /\ HeaderLen \in Nat /\ SizeMod \in Nat
      /\ \A p \in Payloads : p \in Nat /\ p + HeaderLen < SizeMod
  BY DEF SendAssumption
<1>2. PICK n \in 1..MaxBatch : batch \in [1..n -> Payloads]
  BY DEF Batches
<1>3. n \in Nat \ {0} /\ DOMAIN batch = 1..n /\ Len(batch) = n
  BY <1>2 DEF SendAssumption
<1>4. 1 \in 1..n /\ n \in 0..n
  BY <1>3
<1>5. SizeMod > 0
  <2>1. batch[1] \in Payloads
    BY <1>2, <1>4
  <2>2. batch[1] \in Nat /\ batch[1] + HeaderLen < SizeMod
    BY <2>1, <1>1
  <2> QED
    BY <2>2, <1>1
<1>6. \A p \in Nat : p % SizeMod \in Nat /\ p % SizeMod \in 0..(SizeMod - 1)
  BY <1>1, <1>5
<1>7. PICK sizes \in [1..n -> Nat] : sizes = [m \in DOMAIN batch |-> batch[m] % SizeMod]
  BY <1>1, <1>2, <1>3, <1>6
<1>8. Offsets(sizes) \in [0..n -> Nat]
  BY <1>1, <1>3, OffsetsSums
<1>9. batch \in [1..n -> Nat]
  BY <1>1, <1>2
<1>10. Offsets(batch) \in [0..n -> Nat]
  BY <1>1, <1>3, <1>9, OffsetsSums
<1>11. ASSUME NEW m \in 1..n PROVE PacketSize(batch[m]) \in 0..(SizeMod - 1)
  <2>1. batch[m] \in Nat
    BY <1>9
  <2>2. (batch[m] % SizeMod) + HeaderLen \in Nat
    <3>1. PICK v \in Nat : v = batch[m] % SizeMod
      BY <2>1, <1>6
    <3>2. v + HeaderLen \in Nat
      BY <1>1
    <3> QED
      BY <3>1, <3>2
  <2> QED
    BY <2>2, <1>6 DEF PacketSize
<1> QED
  BY <1>2, <1>3, <1>4, <1>7, <1>8, <1>10, <1>11

\* The frames it builds.
LEMMA SendFrames ==
    ASSUME SendAssumption, SendInv, NEW batch \in Batches, Send(batch)
    PROVE  /\ frames' \in Seq([payload : Payloads, size : 0..(SizeMod - 1)])
           /\ start' \in Seq(Nat) /\ Len(start') = Len(frames')
<1> DEFINE F == [payload : Payloads, size : 0..(SizeMod - 1)]
           pos == Offsets([m \in DOMAIN batch |-> batch[m] % SizeMod])
           built == [m \in DOMAIN batch |-> [payload |-> batch[m], size |-> PacketSize(batch[m])]]
           begins == [m \in DOMAIN batch |-> End + pos[m - 1]]
<1>1. PICK n \in Nat \ {0} :
          /\ batch \in [1..n -> Payloads] /\ DOMAIN batch = 1..n
          /\ pos \in [0..n -> Nat]
          /\ \A m \in 1..n : PacketSize(batch[m]) \in 0..(SizeMod - 1)
  BY BatchFacts
<1>2. frames' = frames \o built /\ start' = start \o begins
  BY DEF Send
<1>3. frames \in Seq(F) /\ start \in Seq(Nat) /\ Len(start) = Len(frames)
  BY DEF SendInv, TypeOK
<1>4. built \in [1..n -> F]
  BY <1>1
<1>5. begins \in [1..n -> Nat]
  <2>1. End \in Nat
    BY OpsFacts
  <2>2. \A m \in 1..n : m - 1 \in 0..n
    OBVIOUS
  <2>3. \A m \in 1..n : pos[m - 1] \in Nat
    BY <2>2, <1>1
  <2> HIDE DEF pos
  <2> QED
    BY <2>1, <2>3, <1>1
<1> HIDE DEF F, built, begins, pos
<1>6. built \in Seq(F) /\ Len(built) = n /\ begins \in Seq(Nat) /\ Len(begins) = n
  BY <1>4, <1>5, SeqOf
<1>7. frames' \in Seq(F) /\ start' \in Seq(Nat) /\ Len(start') = Len(frames')
  <2>1. frames' \in Seq(F) /\ Len(frames') = Len(frames) + n
    <3>1. frames \o built \in Seq(F) /\ Len(frames \o built) = Len(frames) + Len(built)
      BY <1>3, <1>6, ConcatProperties, Zenon
    <3> QED
      BY <3>1, <1>2, <1>6
  <2>2. start' \in Seq(Nat) /\ Len(start') = Len(start) + n
    <3>1. start \o begins \in Seq(Nat) /\ Len(start \o begins) = Len(start) + Len(begins)
      BY <1>3, <1>6, ConcatProperties, Zenon
    <3> QED
      BY <3>1, <1>2, <1>6
  <2> QED
    BY <2>1, <2>2, <1>3
<1> QED
  BY <1>7 DEF F

\* A batch is sent.
LEMMA SendStep ==
    ASSUME SendAssumption, SendInv, NEW batch \in Batches, Send(batch) PROVE SendInv'
<1>T. /\ TypeOK /\ OpsInv /\ WireInv /\ QueueInv /\ Chunk \in Nat \ {0} /\ End \in Nat
      /\ ops \in Seq(Writes) /\ DOMAIN ops = 1..Len(ops) /\ Len(ops) \in Nat
      /\ queue \in Seq(Transfers(DOMAIN ops)) /\ DOMAIN queue = 1..Len(queue) /\ Len(queue) \in Nat
      /\ \A a \in DOMAIN queue :
           queue[a].op \in DOMAIN ops /\ queue[a].from \in Nat /\ queue[a].to \in Nat
      /\ wire \in Seq(Nat) /\ \A i \in DOMAIN wire : wire[i] \in Nat
  BY OpsFacts, QueueFacts DEF SendInv, SendAssumption
<1>1. PICK total \in Nat : total = Offsets(batch)[Len(batch)]
  BY BatchFacts
<1>2. PICK K \in Nat : K = Len(ops) + 1
  BY <1>T
<1>3. PICK x \in Writes : x = [first |-> End, next |-> End, last |-> End + total,
                               status |-> IF isOpen THEN "transfer" ELSE "failed"]
  <2>1. End + total \in Nat
    BY <1>1, <1>T
  <2>2. PICK st \in Statuses : st = (IF isOpen THEN "transfer" ELSE "failed")
    BY DEF Statuses
  <2> QED
    BY <2>1, <2>2, <1>T DEF Writes
<1>4. /\ x.first = End /\ x.next = End /\ x.last = End + total
      /\ x.status = IF isOpen THEN "transfer" ELSE "failed"
  BY <1>3
<1>5. /\ ops' = Append(ops, x) /\ UNCHANGED <<wire, isOpen, peer, read, got>>
  BY <1>1, <1>3 DEF Send
<1>6. /\ ops' \in Seq(Writes) /\ DOMAIN ops' = 1..K /\ Len(ops') = K /\ ops'[K] = x
      /\ \A k \in DOMAIN ops : ops'[k] = ops[k] /\ k # K /\ k \in DOMAIN ops'
      /\ \A k \in DOMAIN ops' : k \in DOMAIN ops \/ k = K
      /\ K \in DOMAIN ops'
  <2>1. ops' \in Seq(Writes) /\ Len(ops') = K /\ ops'[K] = x /\ \A k \in 1..Len(ops) : ops'[k] = ops[k]
    BY <1>2, <1>5, <1>T
  <2>2. DOMAIN ops' = 1..K
    BY <2>1
  <2>3. \A k \in 1..K : k \in 1..Len(ops) \/ k = K
    BY <1>2, <1>T
  <2>4. \A k \in 1..Len(ops) : k # K /\ k \in 1..K
    BY <1>2, <1>T
  <2>5. K \in 1..K
    BY <1>2, <1>T
  <2> QED
    BY <2>1, <2>2, <2>3, <2>4, <2>5, <1>T
<1>7. OpsInv'
  <2>1. ASSUME NEW k \in DOMAIN ops' PROVE ops'[k].first <= ops'[k].next /\ ops'[k].next <= ops'[k].last
    <3>1. CASE k = K
      BY <3>1, <1>4, <1>6, <1>T
    <3>2. CASE k \in DOMAIN ops
      BY <3>2, <1>6, <1>T DEF OpsInv
    <3> QED
      BY <3>1, <3>2, <1>6
  <2>2. ASSUME NEW j \in DOMAIN ops', NEW k \in DOMAIN ops', j < k PROVE ops'[j].last <= ops'[k].first
    <3>1. j \in DOMAIN ops
      BY <2>2, <1>6, <1>2, <1>T
    <3>2. CASE k = K
      <4>1. ops[j].last <= End
        BY <3>1, OpsFacts
      <4> QED
        BY <3>1, <3>2, <4>1, <1>4, <1>6
    <3>3. CASE k \in DOMAIN ops
      BY <2>2, <3>1, <3>3, <1>6, <1>T DEF OpsInv
    <3> QED
      BY <3>2, <3>3, <1>6
  <2> QED
    BY <2>1, <2>2 DEF OpsInv
<1>8. End' = End + total
  <2>1. ops' # <<>>
    BY <1>6, <1>2, <1>T
  <2> QED
    BY <2>1, <1>4, <1>6 DEF End
<1>9. Positions(K)' = {}
  <2>1. \A i \in DOMAIN wire : ~(x.first <= wire[i])
    BY <1>4, <1>T DEF WireInv
  <2> QED
    BY <2>1, <1>5, <1>6 DEF Positions
<1>10. WireInv'
  <2>1. \A i \in DOMAIN wire' : wire'[i] < End'
    <3>1. wire' = wire /\ \A i \in DOMAIN wire : wire[i] \in Nat /\ wire[i] < End
      BY <1>5, <1>T DEF WireInv
    <3>2. End' = End + total /\ End \in Nat /\ total \in Nat
      BY <1>1, <1>8, <1>T
    <3> QED
      BY <3>1, <3>2
  <2>2. ASSUME NEW k \in DOMAIN ops PROVE Written(k)'
    <3>1. Written(k) /\ ops'[k] = ops[k]
      BY <1>6, <1>T DEF WireInv
    <3>2. /\ Ascending(k)' <=> Ascending(k)
          /\ Whole(k)' <=> Whole(k)
          /\ Small(k)' <=> Small(k)
          /\ \A m : Covers(k, m)' <=> Covers(k, m)
      BY <3>1, <1>5, SameBytes
    <3>3. PICK q, r : q = ops[k].next /\ r = ops[k].last
      OBVIOUS
    <3>4. /\ ops'[k].status = "posted" => Covers(k, q)'
          /\ ops'[k].status = "done" => Covers(k, r)'
      BY <3>1, <3>2, <3>3 DEF Written
    <3>5. /\ ops'[k].status = "posted" => Covers(k, ops[k].next)'
          /\ ops'[k].status = "done" => Covers(k, ops[k].last)'
      BY <3>1, <3>3, <3>4
    <3>6. \E m \in Nat : m <= ops'[k].last /\ Covers(k, m)'
      BY <3>1, <3>2 DEF Written
    <3> QED
      BY <3>1, <3>2, <3>5, <3>6 DEF Written
  <2>3. Written(K)'
    <3>1. PICK e \in Nat : e = End
      BY <1>T
    <3>2. Covers(K, e)'
      <4>1. ops'[K].first = e
        BY <3>1, <1>4, <1>6
      <4>2. e..(e - 1) = {}
        OBVIOUS
      <4> QED
        BY <4>1, <4>2, <1>9 DEF Covers
    <3>3. e <= ops'[K].last
      BY <3>1, <1>1, <1>4, <1>6, <1>T
    <3>4. Ascending(K)' /\ Whole(K)'
      BY <1>9 DEF Ascending, Whole
    <3>5. ops'[K].status # "posted" /\ ops'[K].status # "done"
      BY <1>4, <1>6
    <3> QED
      BY <3>2, <3>3, <3>4, <3>5 DEF Written
  <2>4. ASSUME NEW k \in DOMAIN ops' PROVE Written(k)'
    <3>1. CASE k = K
      BY <3>1, <2>3
    <3>2. CASE k \in DOMAIN ops
      BY <3>2, <2>2
    <3> QED
      BY <3>1, <3>2, <1>6
  <2> QED
    BY <2>1, <2>4 DEF WireInv
<1>11. ASSUME NEW a \in DOMAIN queue, NEW j, NEW from, NEW to,
              j = queue[a].op, from = queue[a].from, to = queue[a].to
       PROVE  InSocket(a, j, from, to)'
  <2>1. InSocket(a, j, from, to)
    BY <1>11, <1>T DEF QueueInv
  <2>2. a \in Nat /\ from \in Nat /\ to \in Nat /\ ops'[j] = ops[j] /\ wire' = wire
    BY <1>5, <1>6, <1>11, <1>T
  <2> QED
    BY <2>1, <2>2, SameTransfer
<1>12. QueueInv' /\ queue' \in Seq([op : DOMAIN ops', from : Nat, to : Nat])
  <2>1. queue \in Seq(Transfers(DOMAIN ops'))
    <3>1. \A a \in DOMAIN queue : queue[a] \in Transfers(DOMAIN ops')
      <4>1. \A a \in DOMAIN queue : queue[a] \in Transfers(DOMAIN ops)
        BY <1>T
      <4>2. DOMAIN ops \subseteq DOMAIN ops'
        BY <1>6
      <4> QED
        BY <4>1, <4>2 DEF Transfers
    <3> QED
      BY <3>1, <1>T, SeqElements
  <2>2. CASE ~isOpen
    <3>1. queue' = queue
      BY <2>2 DEF Send
    <3>2. ASSUME NEW a \in DOMAIN queue' PROVE InSocket(a, queue[a].op, queue[a].from, queue[a].to)'
      <4>1. PICK j, from, to : j = queue[a].op /\ from = queue[a].from /\ to = queue[a].to
        OBVIOUS
      <4>2. InSocket(a, j, from, to)'
        BY <4>1, <3>1, <1>11
      <4> QED
        BY <4>1, <4>2, <3>1
    <3> QED
      BY <2>1, <3>1, <3>2, <1>T DEF QueueInv, Transfers
  <2>3. CASE isOpen
    <3> PICK from \in Nat : from = End
      BY <1>T
    <3>1. PICK to \in Nat :
              /\ from = End
              /\ to = (IF from + Chunk < from + total THEN from + Chunk ELSE from + total)
              /\ from <= to /\ to <= from + total /\ (total <= Chunk => to = from + total)
      <4>1. total \in Nat /\ Chunk \in Nat /\ from = End
        BY <1>1, <1>T
      <4> QED
        BY <4>1
    <3>2. PICK y \in Transfers(DOMAIN ops') : y = [op |-> K, from |-> from, to |-> to]
      BY <1>6 DEF Transfers
    <3>3. y.op = K /\ y.from = from /\ y.to = to
      BY <3>2
    <3>4. queue' = Append(queue, y)
      BY <2>3, <3>1, <3>2, <1>1, <1>2 DEF Send, Transfer
    <3>5. /\ queue' \in Seq(Transfers(DOMAIN ops')) /\ DOMAIN queue' = 1..(Len(queue) + 1)
          /\ \A a \in DOMAIN queue : queue'[a] = queue[a]
          /\ queue'[Len(queue) + 1] = y
      BY <2>1, <3>4, <1>T
    <3>6. \A a \in DOMAIN queue' : a \in Nat /\ (a \in DOMAIN queue \/ a = Len(queue) + 1)
      BY <3>5, <1>T
    <3>7. ASSUME NEW a \in Nat PROVE InSocket(a, K, from, to)'
      <4>1. /\ ops'[K].first = from /\ ops'[K].next = from /\ ops'[K].last = from + total
            /\ ops'[K].status = "transfer"
        BY <2>3, <3>1, <1>4, <1>6
      <4>2. Covers(K, from)'
        <5>1. from..(from - 1) = {}
          OBVIOUS
        <5> QED
          BY <4>1, <5>1, <1>9 DEF Covers
      <4>3. Small(K)' => to = from + total
        BY <4>1, <3>1, <1>1, <1>T DEF Small
      <4> QED
        BY <4>1, <4>2, <4>3, <3>1, <1>9 DEF InSocket
    <3>8. ASSUME NEW a \in DOMAIN queue' PROVE InSocket(a, queue[a].op, queue[a].from, queue[a].to)'
      <4>1. CASE a \in DOMAIN queue
        <5>1. PICK j, lo, hi : j = queue[a].op /\ lo = queue[a].from /\ hi = queue[a].to
          OBVIOUS
        <5>2. InSocket(a, j, lo, hi)'
          BY <4>1, <5>1, <1>11
        <5>3. queue'[a] = queue[a]
          BY <4>1, <3>5
        <5> QED
          BY <5>1, <5>2, <5>3
      <4>2. CASE a = Len(queue) + 1
        <5>1. queue'[a].op = K /\ queue'[a].from = from /\ queue'[a].to = to
          BY <4>2, <3>3, <3>5
        <5>2. InSocket(a, K, from, to)'
          BY <3>6, <3>7
        <5> QED
          BY <5>1, <5>2
      <4> QED
        BY <4>1, <4>2, <3>6
    <3>9. \A a \in DOMAIN queue : queue[a].op # K
      BY <1>6, <1>T
    <3>10. \A a, b \in DOMAIN queue' : queue'[a].op = queue'[b].op => a = b
      BY <3>3, <3>5, <3>6, <3>9, <1>T DEF QueueInv
    <3> QED
      BY <3>5, <3>8, <3>10 DEF QueueInv, Transfers
  <2> QED
    BY <2>2, <2>3
<1>13. TypeOK'
  <2>1. /\ frames' \in Seq([payload : Payloads, size : 0..(SizeMod - 1)])
        /\ start' \in Seq(Nat) /\ Len(start') = Len(frames')
    BY SendFrames
  <2> QED
    BY <2>1, <1>5, <1>6, <1>12, <1>T DEF TypeOK, Writes
<1> QED
  BY <1>7, <1>10, <1>12, <1>13 DEF SendInv

(***************************************************************************)
(* TCP takes bytes of the first transfer.                                  *)
(***************************************************************************)

\* What is said of write k when the wire gets bytes that are not its own.
LEMMA OthersBytes ==
    ASSUME NEW k, ops'[k].first = ops[k].first, ops'[k].last = ops[k].last,
           \A i \in DOMAIN wire : i \in DOMAIN wire' /\ wire'[i] = wire[i],
           \A i \in DOMAIN wire' :
               i \in DOMAIN wire \/ ~(ops[k].first <= wire'[i] /\ wire'[i] < ops[k].last)
    PROVE  /\ Positions(k)' = Positions(k)
           /\ \A i \in Positions(k) : wire'[i] = wire[i]
           /\ Ascending(k)' <=> Ascending(k)
           /\ Whole(k)' <=> Whole(k)
           /\ Small(k)' <=> Small(k)
           /\ \A m : Covers(k, m)' <=> Covers(k, m)
<1>1. Positions(k)' = Positions(k)
  BY DEF Positions
<1>2. \A i \in Positions(k) : wire'[i] = wire[i]
  BY DEF Positions
<1>3. Ascending(k)' <=> Ascending(k)
  BY <1>1, <1>2 DEF Ascending
<1>4. Whole(k)' <=> Whole(k)
  BY <1>1, <1>2 DEF Whole
<1>5. ASSUME NEW m PROVE Covers(k, m)' <=> Covers(k, m)
  BY <1>1, <1>2 DEF Covers
<1> QED
  BY <1>1, <1>2, <1>3, <1>4, <1>5 DEF Small

\* The state in which bytes are taken: the first transfer, of write K, has offsets
\* from to to left.
LEMMA FirstTransfer ==
    ASSUME SendAssumption, SendInv, NEW n \in 1..Chunk, Take(n)
    PROVE  \E K \in DOMAIN ops, from \in Nat, to \in Nat :
              /\ queue # <<>> /\ 1 \in DOMAIN queue
              /\ queue[1].op = K /\ queue[1].from = from /\ queue[1].to = to
              /\ InSocket(1, K, from, to)
              /\ n \in Nat \ {0} /\ from + n <= to
              /\ wire' = wire \o [i \in 1..n |-> from + i - 1]
              /\ \/ /\ from + n = to /\ queue' = Tail(queue)
                    /\ ops' = [ops EXCEPT ![K].next = to, ![K].status = "posted"]
                 \/ /\ queue' = [queue EXCEPT ![1].from = from + n]
                    /\ ops' = ops
<1>1. /\ queue \in Seq(Transfers(DOMAIN ops)) /\ DOMAIN queue = 1..Len(queue) /\ Len(queue) \in Nat
      /\ queue # <<>>
  BY QueueFacts DEF Take
<1>2. 1 \in DOMAIN queue /\ Head(queue) = queue[1]
  BY <1>1
<1>3. PICK K \in DOMAIN ops : K = queue[1].op
  BY <1>2, QueueFacts
<1>4. PICK from \in Nat : from = queue[1].from
  BY <1>2, QueueFacts
<1>5. PICK to \in Nat : to = queue[1].to
  BY <1>2, QueueFacts
<1>6. InSocket(1, K, from, to)
  BY <1>2, <1>3, <1>4, <1>5 DEF SendInv, QueueInv
<1>7. n \in Nat \ {0}
  BY DEF SendAssumption
<1>8. from + n <= to /\ wire' = wire \o [i \in 1..n |-> from + i - 1]
  BY <1>2, <1>4, <1>5 DEF Take
<1>9. \/ /\ from + n = to /\ queue' = Tail(queue)
         /\ ops' = [ops EXCEPT ![K].next = to, ![K].status = "posted"]
      \/ /\ queue' = [queue EXCEPT ![1].from = from + n]
         /\ ops' = ops
  BY <1>2, <1>3, <1>4, <1>5 DEF Take
<1> DEFINE P(k, f, t) ==
              /\ queue # <<>> /\ 1 \in DOMAIN queue
              /\ queue[1].op = k /\ queue[1].from = f /\ queue[1].to = t
              /\ InSocket(1, k, f, t)
              /\ n \in Nat \ {0} /\ f + n <= t
              /\ wire' = wire \o [i \in 1..n |-> f + i - 1]
              /\ \/ /\ f + n = t /\ queue' = Tail(queue)
                    /\ ops' = [ops EXCEPT ![k].next = t, ![k].status = "posted"]
                 \/ /\ queue' = [queue EXCEPT ![1].from = f + n]
                    /\ ops' = ops
<1>10. P(K, from, to)
  BY <1>1, <1>2, <1>3, <1>4, <1>5, <1>6, <1>7, <1>8, <1>9
<1>11. \E k \in DOMAIN ops, f \in Nat, t \in Nat : P(k, f, t)
  <2> HIDE DEF P
  <2> QED
    BY <1>10
<1> QED
  BY <1>11, Zenon

\* TCP takes bytes.
LEMMA TakeStep ==
    ASSUME SendAssumption, SendInv, NEW n \in 1..Chunk, Take(n) PROVE SendInv'
<1>T. /\ TypeOK /\ OpsInv /\ WireInv /\ QueueInv
      /\ ops \in Seq(Writes) /\ DOMAIN ops = 1..Len(ops) /\ Len(ops) \in Nat
      /\ \A k \in DOMAIN ops :
           /\ ops[k] \in Writes
           /\ ops[k].first \in Nat /\ ops[k].next \in Nat /\ ops[k].last \in Nat
           /\ ops[k].first <= ops[k].next /\ ops[k].next <= ops[k].last /\ ops[k].last <= End
      /\ End \in Nat
      /\ wire \in Seq(Nat) /\ DOMAIN wire = 1..Len(wire) /\ Len(wire) \in Nat
      /\ \A i \in DOMAIN wire : wire[i] \in Nat
  BY OpsFacts, QueueFacts DEF SendInv
<1>1. PICK K \in DOMAIN ops, from \in Nat, to \in Nat :
              /\ queue # <<>> /\ 1 \in DOMAIN queue
              /\ queue[1].op = K /\ queue[1].from = from /\ queue[1].to = to
              /\ InSocket(1, K, from, to)
              /\ n \in Nat \ {0} /\ from + n <= to
              /\ wire' = wire \o [i \in 1..n |-> from + i - 1]
              /\ \/ /\ from + n = to /\ queue' = Tail(queue)
                    /\ ops' = [ops EXCEPT ![K].next = to, ![K].status = "posted"]
                 \/ /\ queue' = [queue EXCEPT ![1].from = from + n]
                    /\ ops' = ops
  BY FirstTransfer
<1>N. n \in Nat /\ n # 0 /\ from + n <= to
  BY <1>1
<1>2. UNCHANGED <<frames, start, isOpen, peer, read, got>>
  BY DEF Take
<1>3. PICK L \in Nat : L = Len(wire)
  BY <1>T
<1>4. /\ wire' \in Seq(Nat) /\ Len(wire') = L + n /\ DOMAIN wire' = 1..(L + n)
      /\ \A i \in DOMAIN wire : i \in DOMAIN wire' /\ wire'[i] = wire[i]
      /\ \A i \in DOMAIN wire' : i \in DOMAIN wire \/ (i > L /\ wire'[i] = from + (i - L) - 1)
      /\ \A i \in (L + 1)..(L + n) : i \in DOMAIN wire' /\ wire'[i] = from + (i - L) - 1
  <2> DEFINE d == [i \in 1..n |-> from + i - 1]
  <2>2. d \in [1..n -> Nat] /\ \A i \in 1..n : d[i] = from + i - 1
    <3>1. \A i \in 1..n : from + i - 1 \in Nat
      OBVIOUS
    <3> QED
      BY <3>1
  <2> HIDE DEF d
  <2>3. d \in Seq(Nat) /\ Len(d) = n
    BY <2>2, SeqOf
  <2>4. /\ wire' \in Seq(Nat) /\ Len(wire') = L + n
        /\ \A i \in 1..(L + n) : wire'[i] = IF i <= L THEN wire[i] ELSE d[i - L]
    <3>1. wire' = wire \o d
      BY <1>1 DEF d
    <3>2. /\ wire \o d \in Seq(Nat) /\ Len(wire \o d) = L + Len(d)
          /\ \A i \in 1..(L + Len(d)) : (wire \o d)[i] = IF i <= L THEN wire[i] ELSE d[i - L]
      <4>1. wire \in Seq(Nat)
        BY <1>T
      <4>2. /\ wire \o d \in Seq(Nat) /\ Len(wire \o d) = Len(wire) + Len(d)
            /\ \A i \in 1..(Len(wire) + Len(d)) :
                    (wire \o d)[i] = IF i <= Len(wire) THEN wire[i] ELSE d[i - Len(wire)]
        BY <2>3, <4>1, ConcatProperties, Zenon
      <4> QED
        BY <4>2, <1>3
    <3> QED
      BY <3>1, <3>2, <2>3, Zenon
  <2>5. DOMAIN wire = 1..L /\ DOMAIN wire' = 1..(L + n)
    BY <2>4, <1>3, <1>T
  <2>6. \A i \in DOMAIN wire : i \in DOMAIN wire' /\ wire'[i] = wire[i]
    <3>1. \A i \in 1..L : i \in 1..(L + n) /\ i <= L
      BY <2>5
    <3> QED
      BY <3>1, <2>4, <2>5
  <2>7. \A i \in (L + 1)..(L + n) : i \in DOMAIN wire' /\ wire'[i] = from + (i - L) - 1
    <3>1. \A i \in (L + 1)..(L + n) :
              i \in 1..(L + n) /\ ~(i <= L) /\ i - L \in 1..n
      BY <2>5
    <3> QED
      BY <3>1, <2>2, <2>4, <2>5
  <2>8. \A i \in 1..(L + n) : i \in 1..L \/ (i > L /\ i \in (L + 1)..(L + n))
    BY <2>5
  <2> QED
    BY <2>4, <2>5, <2>6, <2>7, <2>8
<1>W. Len(wire') = L + n
  BY <1>4
<1>5. /\ ops[K].status = "transfer" /\ ops[K].first <= from /\ from + n <= ops[K].last
      /\ Covers(K, from)
      /\ Small(K) => /\ to = ops[K].last
                     /\ \A i \in Positions(K) : wire[i] + L = from - 1 + i
  <2>1. /\ ops[K].status = "transfer" /\ ops[K].next <= from /\ to <= ops[K].last /\ Covers(K, from)
        /\ Small(K) => /\ to = ops[K].last
                       /\ \A i \in Positions(K) : wire[i] + L = from - 1 + i
    BY <1>1, <1>3 DEF InSocket
  <2> QED
    BY <2>1, <1>N, <1>T
<1>6. /\ ops' \in Seq(Writes) /\ Len(ops') = Len(ops) /\ DOMAIN ops' = DOMAIN ops
      /\ \A k \in DOMAIN ops : k # K => ops'[k] = ops[k]
      /\ ops'[K].first = ops[K].first /\ ops'[K].last = ops[K].last
      /\ \/ from + n = to /\ queue' = Tail(queue) /\ ops'[K].next = to /\ ops'[K].status = "posted"
         \/ queue' = [queue EXCEPT ![1].from = from + n] /\ ops' = ops
  <2>1. CASE /\ from + n = to /\ queue' = Tail(queue)
             /\ ops' = [ops EXCEPT ![K].next = to, ![K].status = "posted"]
    <3>1. PICK y \in Writes : y = [ops[K] EXCEPT !.next = to, !.status = "posted"]
      <4>1. [ops[K] EXCEPT !.next = to, !.status = "posted"] \in Writes
        BY <1>T DEF Writes, Statuses
      <4> QED
        BY <4>1
    <3>2. y.first = ops[K].first /\ y.last = ops[K].last /\ y.next = to /\ y.status = "posted"
      BY <3>1, <1>T DEF Writes
    <3>3. ops' = [ops EXCEPT ![K] = y]
      BY <2>1, <3>1
    <3>4. ops' \in [1..Len(ops) -> Writes]
      BY <3>3, <1>T
    <3>5. ops' \in Seq(Writes) /\ Len(ops') = Len(ops) /\ DOMAIN ops' = DOMAIN ops
      BY <3>4, <1>T, SeqOf
    <3>6. ops'[K] = y /\ \A k \in DOMAIN ops : k # K => ops'[k] = ops[k]
      BY <3>3
    <3> QED
      BY <2>1, <3>2, <3>5, <3>6
  <2>2. CASE queue' = [queue EXCEPT ![1].from = from + n] /\ ops' = ops
    BY <2>2, <1>T
  <2> QED
    BY <2>1, <2>2, <1>1
<1>7. OpsInv'
  <2>1. ops'[K].first <= ops'[K].next /\ ops'[K].next <= ops'[K].last
    <3>1. /\ ops[K].first \in Nat /\ ops[K].next \in Nat /\ ops[K].last \in Nat
          /\ ops[K].first <= ops[K].next /\ ops[K].next <= ops[K].last
          /\ ops[K].first <= from /\ from + n <= ops[K].last
          /\ ops'[K].first = ops[K].first /\ ops'[K].last = ops[K].last
          /\ (from + n = to /\ ops'[K].next = to) \/ ops'[K].next = ops[K].next
      BY <1>5, <1>6, <1>T
    <3> QED
      BY <3>1, <1>N
  <2>2. \A k \in DOMAIN ops : ops'[k].first = ops[k].first /\ ops'[k].last = ops[k].last
    BY <1>6
  <2>3. \A k \in DOMAIN ops : k # K => ops'[k].next = ops[k].next
    BY <1>6
  <2> QED
    BY <2>1, <2>2, <2>3, <1>6, <1>T DEF OpsInv
<1>8. End' = End
  <2>1. ops # <<>> /\ ops' # <<>> /\ Len(ops) \in DOMAIN ops
    BY <1>6, <1>T
  <2>2. ops'[Len(ops)].last = ops[Len(ops)].last
    BY <2>1, <1>6
  <2> QED
    BY <2>1, <2>2, <1>6 DEF End
<1>9. \A i \in DOMAIN wire' : i \in DOMAIN wire \/ (wire'[i] \in Nat /\ from <= wire'[i] /\ wire'[i] < from + n)
  <2>1. ASSUME NEW i \in 1..(L + n), i > L
        PROVE  from + (i - L) - 1 \in Nat /\ from <= from + (i - L) - 1 /\ from + (i - L) - 1 < from + n
    BY <2>1, <1>N
  <2> QED
    BY <2>1, <1>4
<1>10. ASSUME NEW k \in DOMAIN ops, k # K
       PROVE  /\ Positions(k)' = Positions(k)
              /\ \A i \in Positions(k) : wire'[i] = wire[i]
              /\ Ascending(k)' <=> Ascending(k)
              /\ Whole(k)' <=> Whole(k)
              /\ Small(k)' <=> Small(k)
              /\ \A m : Covers(k, m)' <=> Covers(k, m)
  <2>1. ops[k].last <= ops[K].first \/ ops[K].last <= ops[k].first
    <3>1. k < K \/ K < k
      BY <1>10, <1>T
    <3> QED
      BY <3>1, <1>T DEF OpsInv
  <2>2. ASSUME NEW i \in DOMAIN wire', i \notin DOMAIN wire
        PROVE  ~(ops[k].first <= wire'[i] /\ wire'[i] < ops[k].last)
    <3>1. wire'[i] \in Nat /\ from <= wire'[i] /\ wire'[i] < from + n
      BY <2>2, <1>9
    <3> QED
      <4>1. /\ ops[k].first \in Nat /\ ops[k].last \in Nat
            /\ ops[K].first \in Nat /\ ops[K].last \in Nat
        BY <1>T
      <4>2. ops[K].first <= from /\ from + n <= ops[K].last
        BY <1>5
      <4> QED
        BY <4>1, <4>2, <3>1, <2>1, <1>N
  <2>3. \A i \in DOMAIN wire' :
            i \in DOMAIN wire \/ ~(ops[k].first <= wire'[i] /\ wire'[i] < ops[k].last)
    BY <2>2
  <2>4. ops'[k].first = ops[k].first /\ ops'[k].last = ops[k].last
    BY <1>6, <1>10
  <2>5. \A i \in DOMAIN wire : i \in DOMAIN wire' /\ wire'[i] = wire[i]
    BY <1>4
  <2> QED
    BY <2>3, <2>4, <2>5, OthersBytes
<1>11. ASSUME NEW k \in DOMAIN ops, k # K PROVE Written(k)'
  <2>1. Written(k) /\ ops'[k] = ops[k]
    BY <1>6, <1>11, <1>T DEF WireInv
  <2>2. /\ Ascending(k)' <=> Ascending(k)
        /\ Whole(k)' <=> Whole(k)
        /\ Small(k)' <=> Small(k)
        /\ \A m : Covers(k, m)' <=> Covers(k, m)
    BY <1>10, <1>11
  <2>3. PICK q, r : q = ops[k].next /\ r = ops[k].last
    OBVIOUS
  <2>4. /\ ops'[k].status = "posted" => Covers(k, q)'
        /\ ops'[k].status = "done" => Covers(k, r)'
    BY <2>1, <2>2, <2>3 DEF Written
  <2>5. /\ ops'[k].status = "posted" => Covers(k, ops[k].next)'
        /\ ops'[k].status = "done" => Covers(k, ops[k].last)'
    BY <2>1, <2>3, <2>4
  <2>6. \E m \in Nat : m <= ops'[k].last /\ Covers(k, m)'
    BY <2>1, <2>2 DEF Written
  <2> QED
    BY <2>1, <2>2, <2>5, <2>6 DEF Written
<1>12. /\ \A i \in Positions(K)' : i \in Positions(K) \/ i \in (L + 1)..(L + n)
       /\ \A i \in Positions(K) : i \in Positions(K)' /\ i \in 1..L /\ wire'[i] = wire[i] /\ wire[i] \in Nat
       /\ \A i \in (L + 1)..(L + n) : i \in Positions(K)' /\ wire'[i] = from + (i - L) - 1
  <2>1. ASSUME NEW i \in Positions(K)' PROVE i \in Positions(K) \/ i \in (L + 1)..(L + n)
    <3>1. i \in DOMAIN wire' /\ ops[K].first <= wire'[i] /\ wire'[i] < ops[K].last
      BY <1>6 DEF Positions
    <3>2. CASE i \in DOMAIN wire
      BY <3>1, <3>2, <1>4 DEF Positions
    <3>3. CASE i \notin DOMAIN wire
      <4>1. i \in 1..(L + n) /\ i > L
        BY <3>1, <3>3, <1>4
      <4> QED
        BY <4>1, <1>N
    <3> QED
      BY <3>2, <3>3
  <2>2. ASSUME NEW i \in Positions(K)
        PROVE  i \in Positions(K)' /\ i \in 1..L /\ wire'[i] = wire[i] /\ wire[i] \in Nat
    BY <1>3, <1>4, <1>6, <1>T DEF Positions
  <2>3. ASSUME NEW i \in (L + 1)..(L + n) PROVE i \in Positions(K)' /\ wire'[i] = from + (i - L) - 1
    <3>1. i \in DOMAIN wire' /\ wire'[i] = from + (i - L) - 1
      BY <1>4
    <3>2. from <= from + (i - L) - 1 /\ from + (i - L) - 1 < from + n
      BY <1>N
    <3>3. ops[K].first <= wire'[i] /\ wire'[i] < ops[K].last
      <4>1. /\ ops[K].first \in Nat /\ ops[K].last \in Nat
            /\ ops[K].first <= from /\ from + n <= ops[K].last
        BY <1>5, <1>T
      <4> QED
        BY <3>1, <3>2, <4>1, <1>N
    <3> QED
      BY <3>1, <3>3, <1>6 DEF Positions
  <2> QED
    BY <2>1, <2>2, <2>3
<1>13. PICK m \in Nat : m = from + n
  BY <1>1
<1>14. Covers(K, m)'
  <2>1. ASSUME NEW i \in Positions(K)' PROVE wire'[i] < m
    <3>1. CASE i \in Positions(K)
      <4>1. wire[i] < from
        BY <3>1, <1>5 DEF Covers
      <4> QED
        BY <3>1, <4>1, <1>N, <1>12, <1>13
    <3>2. CASE i \in (L + 1)..(L + n)
      <4>1. from + (i - L) - 1 < from + n
        BY <3>2, <1>N
      <4> QED
        BY <3>2, <4>1, <1>12, <1>13
    <3> QED
      BY <3>1, <3>2, <1>12
  <2>2. ASSUME NEW b \in ops[K].first..(m - 1) PROVE \E i \in Positions(K)' : wire'[i] = b
    <3>1. CASE b < from
      <4>1. b \in ops[K].first..(from - 1)
        BY <2>2, <3>1, <1>T
      <4>2. PICK i \in Positions(K) : wire[i] = b
        BY <4>1, <1>5 DEF Covers
      <4> QED
        BY <4>2, <1>12
    <3>2. CASE ~(b < from)
      <4>1. PICK i \in (L + 1)..(L + n) : i = L + 1 + (b - from) /\ from + (i - L) - 1 = b
        <5>1. b \in Int /\ b <= from + n - 1
          BY <1>1, <1>13, <1>T
        <5>2. L + 1 + (b - from) \in (L + 1)..(L + n)
          BY <5>1, <3>2, <1>N
        <5>3. from + ((L + 1 + (b - from)) - L) - 1 = b
          BY <5>1
        <5> QED
          BY <5>2, <5>3
      <4> QED
        BY <4>1, <1>12
    <3> QED
      BY <3>1, <3>2
  <2> QED
    BY <2>1, <2>2, <1>6 DEF Covers
<1>15. Ascending(K)'
  <2>1. ASSUME NEW i \in Positions(K)', NEW j \in Positions(K)', i < j PROVE wire'[i] < wire'[j]
    <3>1. CASE i \in Positions(K) /\ j \in Positions(K)
      BY <2>1, <3>1, <1>12, <1>T DEF WireInv, Written, Ascending
    <3>2. CASE i \in Positions(K) /\ j \in (L + 1)..(L + n)
      <4>1. wire[i] < from
        BY <3>2, <1>5 DEF Covers
      <4>2. from <= from + (j - L) - 1
        BY <3>2, <1>N
      <4>3. wire'[i] = wire[i] /\ wire[i] \in Nat /\ wire'[j] = from + (j - L) - 1
        BY <3>2, <1>12
      <4> QED
        BY <3>2, <4>1, <4>2, <4>3, <1>N
    <3>3. CASE i \in (L + 1)..(L + n) /\ j \in Positions(K)
      <4>1. j \in 1..L
        BY <3>3, <1>12
      <4> QED
        BY <2>1, <3>3, <4>1, <1>N
    <3>4. CASE i \in (L + 1)..(L + n) /\ j \in (L + 1)..(L + n)
      <4>1. wire'[i] = from + (i - L) - 1 /\ wire'[j] = from + (j - L) - 1
        BY <3>4, <1>12
      <4> QED
        BY <2>1, <3>4, <4>1, <1>N
    <3> QED
      BY <3>1, <3>2, <3>3, <3>4, <1>12
  <2> QED
    BY <2>1 DEF Ascending
<1>16. Small(K) <=> Small(K)'
  BY <1>6 DEF Small
<1>17. Small(K) => Whole(K)' /\ \A i \in Positions(K)' : wire'[i] + Len(wire') = m - 1 + i
  <2>1. ASSUME Small(K), NEW i \in Positions(K)'
        PROVE  /\ i \in Nat /\ wire'[i] \in Nat
               /\ wire'[i] + Len(wire') = m - 1 + i
    <3>1. CASE i \in Positions(K)
      <4>1. wire[i] + L = from - 1 + i /\ wire'[i] = wire[i] /\ wire[i] \in Nat /\ i \in 1..L
        BY <2>1, <3>1, <1>5, <1>12
      <4> QED
        BY <4>1, <1>N, <1>13, <1>W
    <3>2. CASE i \in (L + 1)..(L + n)
      <4>1. wire'[i] = from + (i - L) - 1
        BY <3>2, <1>12
      <4> QED
        BY <3>2, <4>1, <1>N, <1>4, <1>13
    <3> QED
      BY <3>1, <3>2, <1>12
  <2>2. ASSUME Small(K), NEW i \in Positions(K)', NEW j \in Positions(K)'
        PROVE  wire'[j] - wire'[i] = j - i
    <3>1. /\ i \in Nat /\ wire'[i] \in Nat /\ wire'[i] + Len(wire') = m - 1 + i
          /\ j \in Nat /\ wire'[j] \in Nat /\ wire'[j] + Len(wire') = m - 1 + j
      BY <2>1, <2>2
    <3> QED
      BY <3>1, <1>W, <1>N
  <2> QED
    BY <2>1, <2>2 DEF Whole
<1>18. Written(K)'
  <2>1. m <= ops'[K].last
    BY <1>5, <1>6, <1>13
  <2>2. ops'[K].status = "posted" => ops'[K].next = m
    BY <1>5, <1>6, <1>13
  <2>3. ops'[K].status = "posted" => Covers(K, ops[K].next)'
    BY <2>2, <1>14
  <2>4. ops'[K].status # "done"
    BY <1>5, <1>6
  <2>5. Small(K)' => Whole(K)' /\ (ops'[K].status = "posted" => ops'[K].next = ops'[K].last)
    BY <1>5, <1>6, <1>16, <1>17
  <2> QED
    BY <2>1, <2>3, <2>4, <2>5, <1>14, <1>15 DEF Written
<1>19. WireInv'
  <2>1. ASSUME NEW i \in DOMAIN wire' PROVE wire'[i] < End'
    <3>1. CASE i \in DOMAIN wire
      BY <3>1, <1>4, <1>8, <1>T DEF WireInv
    <3>2. CASE i \notin DOMAIN wire
      <4>1. wire'[i] \in Nat /\ wire'[i] < from + n
        BY <3>2, <1>9
      <4> QED
        BY <4>1, <1>N, <1>5, <1>8, <1>T
    <3> QED
      BY <3>1, <3>2
  <2>2. ASSUME NEW k \in DOMAIN ops' PROVE Written(k)'
    <3>1. CASE k = K
      BY <3>1, <1>18
    <3>2. CASE k # K
      BY <3>2, <1>6, <1>11
    <3> QED
      BY <3>1, <3>2
  <2> QED
    BY <2>1, <2>2 DEF WireInv
<1>20. ASSUME NEW b \in DOMAIN queue, b # 1, NEW a \in Nat, NEW j, NEW lo, NEW hi,
              j = queue[b].op, lo = queue[b].from, hi = queue[b].to
       PROVE  InSocket(a, j, lo, hi)'
  <2>1. InSocket(b, j, lo, hi) /\ j \in DOMAIN ops /\ j # K
    BY <1>20, <1>1, <1>T, QueueFacts DEF QueueInv
  <2>2. /\ Positions(j)' = Positions(j)
        /\ Small(j)' <=> Small(j)
        /\ Covers(j, lo)' <=> Covers(j, lo)
    BY <2>1, <1>10
  <2>3. ops'[j] = ops[j]
    BY <2>1, <1>6
  <2>4. lo = ops[j].next /\ (Small(j) => Positions(j) = {})
    BY <2>1, <1>20 DEF InSocket
  <2>5. /\ ops'[j].status = "transfer" /\ ops'[j].next <= lo /\ lo <= hi /\ hi <= ops'[j].last
        /\ Covers(j, lo)' /\ lo = ops'[j].next
    BY <2>1, <2>2, <2>3, <2>4 DEF InSocket
  <2>6. Small(j)' => hi = ops'[j].last /\ Positions(j)' = {}
    BY <2>1, <2>2, <2>3, <2>4 DEF InSocket
  <2> QED
    BY <2>5, <2>6 DEF InSocket
<1>21. ASSUME from + n = to, queue' = Tail(queue), ops'[K].next = to, ops'[K].status = "posted"
       PROVE QueueInv' /\ queue' \in Seq([op : DOMAIN ops', from : Nat, to : Nat])
  <2>1. /\ queue' \in Seq(Transfers(DOMAIN ops))
        /\ \A a \in DOMAIN queue' :
             a \in Nat /\ a + 1 \in DOMAIN queue /\ a + 1 # 1 /\ queue'[a] = queue[a + 1]
    BY <1>1, <1>21, QueueTail
  <2>2. ASSUME NEW a \in DOMAIN queue' PROVE InSocket(a, queue[a].op, queue[a].from, queue[a].to)'
    <3>1. PICK b \in DOMAIN queue : b = a + 1 /\ b # 1
      BY <2>1
    <3>2. PICK j, lo, hi : j = queue[b].op /\ lo = queue[b].from /\ hi = queue[b].to
      OBVIOUS
    <3>3. a \in Nat /\ queue'[a] = queue[b]
      BY <2>1, <3>1
    <3>4. InSocket(a, j, lo, hi)'
      BY <3>1, <3>2, <3>3, <1>20
    <3> QED
      BY <3>2, <3>3, <3>4
  <2>3. \A a, b \in DOMAIN queue' : queue'[a].op = queue'[b].op => a = b
    <3>1. \A a, b \in DOMAIN queue' : queue'[a].op = queue'[b].op => a + 1 = b + 1
      BY <2>1, <1>T DEF QueueInv
    <3> QED
      BY <3>1, <2>1
  <2>4. QueueInv'
    BY <2>2, <2>3 DEF QueueInv
  <2>5. DOMAIN ops' = DOMAIN ops
    BY <1>6
  <2> QED
    BY <2>1, <2>4, <2>5 DEF Transfers
<1>22. ASSUME queue' = [queue EXCEPT ![1].from = from + n], ops' = ops
       PROVE QueueInv' /\ queue' \in Seq([op : DOMAIN ops', from : Nat, to : Nat])
  <2>1. /\ queue \in Seq(Transfers(DOMAIN ops)) /\ DOMAIN queue = 1..Len(queue) /\ Len(queue) \in Nat
        /\ queue[1] \in Transfers(DOMAIN ops)
    BY <1>1, QueueFacts
  <2>2. PICK y \in Transfers(DOMAIN ops) : y = [queue[1] EXCEPT !.from = m]
    <3>1. [queue[1] EXCEPT !.from = m] \in Transfers(DOMAIN ops)
      BY <2>1 DEF Transfers
    <3> QED
      BY <3>1
  <2>3. y.op = K /\ y.from = m /\ y.to = to
    BY <2>1, <2>2, <1>1 DEF Transfers
  <2>4. queue' = [queue EXCEPT ![1] = y]
    BY <1>13, <1>22, <2>2
  <2>5. queue' \in [1..Len(queue) -> Transfers(DOMAIN ops)]
    <3>1. queue \in [1..Len(queue) -> Transfers(DOMAIN ops)]
      BY <2>1
    <3> QED
      BY <2>4, <3>1
  <2>6. queue' \in Seq(Transfers(DOMAIN ops)) /\ DOMAIN queue' = DOMAIN queue
    BY <2>1, <2>5, SeqOf
  <2>7. queue'[1] = y /\ \A a \in DOMAIN queue : a # 1 => queue'[a] = queue[a]
    BY <2>4, <1>1
  <2>8. InSocket(1, K, m, to)'
    <3>1. /\ ops'[K].status = "transfer" /\ ops'[K].next <= m /\ m <= to /\ to <= ops'[K].last
      <4>1. InSocket(1, K, from, to) /\ ops'[K] = ops[K] /\ ops[K].next \in Nat /\ ops[K].last \in Nat
        BY <1>1, <1>22, <1>T
      <4>2. ops[K].next <= from /\ to <= ops[K].last
        BY <4>1 DEF InSocket
      <4> QED
        BY <4>1, <4>2, <1>N, <1>5, <1>13
    <3>2. Small(K)' => /\ to = ops'[K].last
                       /\ \A i \in Positions(K)' : wire'[i] + Len(wire') = m - 1 + i
      BY <1>5, <1>6, <1>16, <1>17
    <3> QED
      BY <3>1, <3>2, <1>14 DEF InSocket
  <2>9. ASSUME NEW a \in DOMAIN queue' PROVE InSocket(a, queue[a].op, queue[a].from, queue[a].to)'
    <3>1. CASE a = 1
      BY <3>1, <2>3, <2>7, <2>8
    <3>2. CASE a # 1
      <4>1. PICK j, lo, hi : j = queue[a].op /\ lo = queue[a].from /\ hi = queue[a].to
        OBVIOUS
      <4>2. a \in Nat /\ a \in DOMAIN queue /\ queue'[a] = queue[a]
        BY <3>2, <2>1, <2>6, <2>7
      <4>3. InSocket(a, j, lo, hi)'
        BY <3>2, <4>1, <4>2, <1>20
      <4> QED
        BY <4>1, <4>2, <4>3
    <3> QED
      BY <3>1, <3>2
  <2>10. \A a \in DOMAIN queue : queue'[a].op = queue[a].op
    BY <2>3, <2>7, <1>1
  <2>11. QueueInv'
    BY <2>6, <2>9, <2>10, <1>T DEF QueueInv
  <2> QED
    BY <1>22, <2>6, <2>11 DEF Transfers
<1>23. QueueInv' /\ queue' \in Seq([op : DOMAIN ops', from : Nat, to : Nat])
  BY <1>6, <1>21, <1>22
<1>24. TypeOK'
  <2>1. read' \in 0..Len(wire')
    <3>1. read \in 0..L
      BY <1>3, <1>T DEF TypeOK
    <3>2. read' = read /\ Len(wire') = L + n
      BY <1>2, <1>W
    <3> QED
      BY <3>1, <3>2, <1>N
  <2> QED
    BY <2>1, <1>2, <1>4, <1>6, <1>23, <1>T DEF TypeOK, Writes
<1> QED
  BY <1>7, <1>19, <1>23, <1>24 DEF SendInv

(***************************************************************************)
(* Theorems.                                                               *)
(***************************************************************************)

\* Every step keeps the invariant.
LEMMA SendInvStep == ASSUME SendAssumption, SendInv, [Next]_vars PROVE SendInv'
<1>1. ASSUME NEW batch \in Batches, Send(batch) PROVE SendInv'
  BY <1>1, SendStep
<1>2. CASE Worker
  BY <1>2, WriteMoreStep, WriteHandlerStep DEF Worker
<1>3. CASE Close \/ PeerGone \/ ClientRecv
  BY <1>3, CloseStep, PeerStep
<1>4. CASE Network
  BY <1>4, TransferErrorStep, TakeStep DEF Network
<1>5. CASE UNCHANGED vars
  <2>1. TypeOK
    BY DEF SendInv
  <2>2. UNCHANGED <<frames, start, ops, queue, wire, isOpen, peer, read, got>>
    BY <1>5 DEF vars
  <2>3. TypeOK'
    BY <2>1, <2>2 DEF TypeOK
  <2> QED
    BY <2>2, <2>3, IdleStep
<1> QED
  BY <1>1, <1>2, <1>3, <1>4, <1>5 DEF Next

\* SendInv holds in every state of the send path (Session.cpp 114-157).
THEOREM SendInvariance == Spec => []SendInv
<1>1. Init => SendInv
  BY InitSendInv, SendAssumption
<1>2. SendInv /\ [Next]_vars => SendInv'
  BY SendInvStep, SendAssumption
<1> QED
  BY <1>1, <1>2, PTL DEF Spec

\* The state of the send path has its type: the size field of every frame Send
\* builds is one of the header's values, and the client never reads past the wire.
THEOREM SendTypeCorrect == Spec => []TypeOK
<1>1. SendInv => TypeOK
  BY DEF SendInv
<1> QED
  BY <1>1, SendInvariance, PTL

\* What TCP was given of a batch is a prefix of it, in order and without repetition,
\* and all of it once its handler has seen no error (Session.cpp 136-146): with any
\* number of overlapping writes of any size, closed at any moment.
THEOREM BatchesArriveInOrder == Spec => []WritesComplete
<1>1. SendInv => WritesComplete
  <2> SUFFICES ASSUME SendInv, NEW k \in DOMAIN ops
               PROVE  LET bytes == {wire[i] : i \in Positions(k)}
                      IN  /\ \A i, j \in Positions(k) : i < j => wire[i] < wire[j]
                          /\ \A b \in bytes : ops[k].first..b \subseteq bytes
                          /\ ops[k].status = "done" => ops[k].first..(ops[k].last - 1) \subseteq bytes
    BY DEF WritesComplete
  <2> DEFINE bytes == {wire[i] : i \in Positions(k)}
  <2>1. Written(k) /\ ops[k].first \in Nat /\ ops[k].last \in Nat
    BY OpsFacts DEF SendInv, WireInv
  <2>2. \A i, j \in Positions(k) : i < j => wire[i] < wire[j]
    BY <2>1 DEF Written, Ascending
  <2>3. ASSUME NEW b \in bytes, NEW c \in ops[k].first..b PROVE c \in bytes
    <3>1. PICK m \in Nat : Covers(k, m)
      BY <2>1 DEF Written
    <3>2. b < m /\ b \in Nat
      BY <2>3, <3>1, QueueFacts DEF Covers, Positions
    <3>3. c \in ops[k].first..(m - 1)
      BY <2>1, <2>3, <3>2
    <3> QED
      BY <3>1, <3>3 DEF Covers
  <2>4. ops[k].status = "done" => ops[k].first..(ops[k].last - 1) \subseteq bytes
    BY <2>1 DEF Written, Covers
  <2> QED
    BY <2>2, <2>3, <2>4
<1> QED
  BY <1>1, SendInvariance, PTL

\* A batch that fits in one transfer is never torn (Session.cpp 136), whatever is
\* written before, after and at the same time.
THEOREM SmallBatchesStayWhole == Spec => []SmallBatchesWhole
<1>1. SendInv => SmallBatchesWhole
  BY DEF SendInv, WireInv, Written, Small, Whole, SmallBatchesWhole
<1> QED
  BY <1>1, SendInvariance, PTL
==============================================================================
