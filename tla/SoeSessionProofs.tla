-------------------------- MODULE SoeSessionProofs --------------------------
(***************************************************************************)
(* The safety properties of the sending half, for every stream, rate and   *)
(* bound of SoeSession: what the peer still misses is cached and on its    *)
(* way, and nothing is queued twice for resending.                         *)
(***************************************************************************)
EXTENDS SoeSession, NumberLemmas, FiniteSetTheorems, SequenceTheorems, TLAPS

\* A sequence cut in two.
LEMMA Cuts ==
  ASSUME NEW S, NEW s \in Seq(S), NEW n \in 0..Len(s)
  PROVE  LET front == SubSeq(s, 1, n)
             back  == SubSeq(s, n + 1, Len(s))
         IN  /\ front \in Seq(S) /\ DOMAIN front = 1..n /\ Len(front) = n
             /\ \A i \in 1..n : front[i] = s[i]
             /\ back \in Seq(S) /\ DOMAIN back = 1..(Len(s) - n)
             /\ \A i \in 1..(Len(s) - n) : back[i] = s[n + i]
<1>1. Len(s) \in Nat /\ n \in Nat /\ n <= Len(s) /\ \A i \in 1..Len(s) : s[i] \in S
  OBVIOUS
<1>2. \A i \in 1..n : s[i] \in S
  BY <1>1
<1>3. \A i \in (n + 1)..Len(s) : s[i] \in S
  BY <1>1
<1> DEFINE front == SubSeq(s, 1, n)
           back == SubSeq(s, n + 1, Len(s))
<1>4. /\ front \in Seq(S) /\ Len(front) = IF 1 <= n THEN n - 1 + 1 ELSE 0
      /\ \A i \in 1..(n - 1 + 1) : front[i] = s[1 + i - 1]
  BY <1>1, <1>2, SubSeqProperties
<1>5. /\ back \in Seq(S)
      /\ Len(back) = IF n + 1 <= Len(s) THEN Len(s) - (n + 1) + 1 ELSE 0
      /\ \A i \in 1..(Len(s) - (n + 1) + 1) : back[i] = s[(n + 1) + i - 1]
  <2>1. n + 1 \in Int /\ Len(s) \in Int
    BY <1>1
  <2> QED BY <1>3, <2>1, SubSeqProperties
<1> HIDE DEF front, back
<1>6. DOMAIN front = 1..n /\ Len(front) = n
  BY <1>1, <1>4
<1>7. DOMAIN back = 1..(Len(s) - n)
  BY <1>1, <1>5
<1>8. \A i \in 1..n : front[i] = s[i]
  BY <1>1, <1>4
<1>9. \A i \in 1..(Len(s) - n) : back[i] = s[n + i]
  BY <1>1, <1>5
<1> QED BY <1>4, <1>5, <1>6, <1>7, <1>8, <1>9 DEF front, back

\* Sending packet i: what Sendings does to the queues for it.
SendOne(q, packets, stale, unbuffered, i) ==
  IF packets[i] \in stale THEN q ELSE SendLogical(q, packets[i], unbuffered)

\* The recursive definition of Sendings has a solution.
LEMMA SendingsSteps ==
  ASSUME NEW q, NEW packets, Len(packets) \in Nat, NEW stale, NEW unbuffered
  PROVE  LET after == Sendings(q, packets, stale, unbuffered)
         IN  /\ after[0] = q
             /\ \A i \in 1..Len(packets) :
                  after[i] = SendOne(after[i - 1], packets, stale, unbuffered, i)
<1> DEFINE N == Len(packets)
           Solves(g, n) ==
             /\ g = [i \in 0..n |-> g[i]]
             /\ \A i \in 0..n :
                  g[i] = IF i = 0 THEN q
                         ELSE SendOne(g[i - 1], packets, stale, unbuffered, i)
           Solved == {n \in 0..N : \E g : Solves(g, n)}
<1>1. 0 \in Solved
  <2> DEFINE h == [i \in 0..0 |-> q]
  <2>1. h = [i \in 0..0 |-> h[i]] /\ \A i \in 0..0 : i = 0 /\ h[i] = q
    OBVIOUS
  <2>2. Solves(h, 0)
    <3> HIDE DEF h
    <3> QED BY <2>1
  <2>3. 0 \in 0..N
    OBVIOUS
  <2> QED BY <2>2, <2>3
<1>2. ASSUME NEW n \in 0..(N - 1), n \in Solved PROVE n + 1 \in Solved
  <2>1. PICK g : Solves(g, n)
    BY <1>2
  <2> DEFINE h == [i \in 0..(n + 1) |->
                     IF i <= n THEN g[i]
                     ELSE SendOne(g[n], packets, stale, unbuffered, i)]
  <2>2. \A i \in 0..n : g[i] = IF i = 0 THEN q
                     ELSE SendOne(g[i - 1], packets, stale, unbuffered, i)
    BY <2>1
  <2>3. \A i \in 0..(n + 1) :
          h[i] = IF i = 0 THEN q
                 ELSE SendOne(h[i - 1], packets, stale, unbuffered, i)
    BY <2>2
  <2>4. Solves(h, n + 1)
    <3> HIDE DEF h
    <3>1. h = [i \in 0..(n + 1) |-> h[i]]
      BY DEF h
    <3> QED BY <2>3, <3>1
  <2>5. n + 1 \in 0..N
    OBVIOUS
  <2> QED BY <2>4, <2>5
<1>3. N \in Solved
  <2>1. \A i \in 0..(N - 1) : i \in Solved => i + 1 \in Solved
    BY <1>2
  <2>2. N \in Nat
    OBVIOUS
  <2> HIDE DEF Solved, N
  <2>3. \A i \in 0..N : i \in Solved
    BY <1>1, <2>1, <2>2, UpTo
  <2> QED BY <2>2, <2>3
<1>4. \A i \in 0..N : Sendings(q, packets, stale, unbuffered)[i] =
        IF i = 0 THEN q
        ELSE SendOne(Sendings(q, packets, stale, unbuffered)[i - 1], packets,
                     stale, unbuffered, i)
  <2>1. PICK g : g = [i \in 0..Len(packets) |->
            IF i = 0 THEN q
            ELSE IF packets[i] \in stale THEN g[i - 1]
            ELSE SendLogical(g[i - 1], packets[i], unbuffered)]
    BY <1>3 DEF SendOne
  <2>2. Sendings(q, packets, stale, unbuffered) =
          [i \in 0..Len(packets) |->
            IF i = 0 THEN q
            ELSE IF packets[i] \in stale
            THEN Sendings(q, packets, stale, unbuffered)[i - 1]
            ELSE SendLogical(Sendings(q, packets, stale, unbuffered)[i - 1],
                             packets[i], unbuffered)]
    BY <2>1 DEF Sendings
  <2> DEFINE after == Sendings(q, packets, stale, unbuffered)
  <2>3. \A i \in 0..N : after[i] = IF i = 0 THEN q
                          ELSE SendOne(after[i - 1], packets, stale, unbuffered, i)
    <3> HIDE DEF after
    <3>1. after = [i \in 0..Len(packets) |->
            IF i = 0 THEN q
            ELSE IF packets[i] \in stale THEN after[i - 1]
            ELSE SendLogical(after[i - 1], packets[i], unbuffered)]
      BY <2>2 DEF after
    <3> QED BY <3>1 DEF SendOne
  <2> QED BY <2>3
<1> QED BY <1>4

\* The peer's acknowledgement: everything up to it was received, and the next
\* packet is missing.
LEMMA ContiguousOf ==
  ASSUME NEW R \in SUBSET Packets
  PROVE  LET c == CHOOSE c \in -1..(StreamLen - 1) : 0..c \subseteq R /\ c + 1 \notin R
         IN  c \in -1..(StreamLen - 1) /\ 0..c \subseteq R /\ c + 1 \notin R
<1> DEFINE Missing == {n \in Nat : n \notin R}
<1>1. StreamLen \in Missing
  BY StreamAssumption DEF Packets
<1>2. PICK m \in Missing : \A n \in Missing : m <= n
  <2>1. Missing \in SUBSET Nat
    OBVIOUS
  <2> HIDE DEF Missing
  <2> QED BY <1>1, <2>1, LeastNumber
<1>3. /\ m - 1 \in -1..(StreamLen - 1)
      /\ 0..(m - 1) \subseteq R /\ (m - 1) + 1 \notin R
  BY <1>1, <1>2, StreamAssumption
<1> QED BY <1>3

\* The same of what the peer has received.
LEMMA ContiguousFacts ==
  ASSUME received \in SUBSET Packets
  PROVE  /\ Contiguous \in -1..(StreamLen - 1)
         /\ 0..Contiguous \subseteq received
         /\ Contiguous + 1 \notin received
BY ContiguousOf DEF Contiguous

\* The remainders that an acknowledgement compares.
LEMMA MaskOf ==
  ASSUME NEW v \in Int
  PROVE  /\ v \in SequenceSpace => Mask(v) = v
         /\ v \in -MAX_SEQUENCE..-1 => Mask(v) = v + MAX_SEQUENCE + 1
<1> DEFINE d == MAX_SEQUENCE + 1
<1>1. d \in Nat \ {0}
  BY MaxSequenceAssumption
<1> HIDE DEF d
<1>2. v \in 0..(d - 1) => v % d = v
  BY <1>1
<1>3. ASSUME v \in -(d - 1)..-1 PROVE v % d = v + d
  <2> DEFINE k == v \div d
             r == v % d
  <2>1. k \in Int /\ r \in 0..(d - 1) /\ v = d * k + r
    BY <1>1
  <2> HIDE DEF k, r
  <2>2. k >= 0 => d * k >= 0
    BY <1>1, <2>1
  <2>3. k <= -2 => d * k <= -2 * d
    BY <1>1, <2>1
  <2>4. k = -1 => d * k = -d
    BY <1>1, <2>1
  <2>5. d * k \in Int
    BY <1>1, <2>1
  <2>6. k = -1
    BY <1>1, <1>3, <2>1, <2>2, <2>3, <2>5
  <2>7. r = v + d
    BY <1>1, <2>1, <2>4, <2>5, <2>6
  <2> QED BY <2>7 DEF r
<1>4. -MAX_SEQUENCE = -(d - 1) /\ d - 1 = MAX_SEQUENCE
  BY MaxSequenceAssumption DEF d
<1>5. v + MAX_SEQUENCE + 1 = v + d
  BY MaxSequenceAssumption DEF d
<1> QED BY <1>2, <1>3, <1>4, <1>5 DEF d, Mask, SequenceSpace

\* An acknowledgement that is not behind the last one passes nothing beyond
\* itself.
LEMMA AckPasses ==
  ASSUME NEW s \in Packets, NEW from \in -1..(s + 1)
  PROVE  AckedRange(from, s) \subseteq 0..s /\ wrap(s + 1) = s + 1
<1>1. s \in 0..(MAX_SEQUENCE - 1) /\ MAX_SEQUENCE \in Nat
  BY SessionAssumption, MaxSequenceAssumption, StreamAssumption DEF Packets
<1>2. wrap(s + 1) = s + 1
  BY <1>1 DEF wrap
<1>3. CASE from = -1 \/ from = s + 1
  BY <1>1, <1>2, <1>3 DEF AckedRange
<1>4. CASE from \in 0..s
  <2>1. ASSUME NEW x \in SequenceSpace, Mask(x - from) <= Mask(s - from)
        PROVE  x \in 0..s
    <3>1. x \in 0..MAX_SEQUENCE
      BY DEF SequenceSpace
    <3>2. Mask(s - from) = s - from
      BY <1>1, <1>4, MaskOf DEF SequenceSpace
    <3>3. x >= from => Mask(x - from) = x - from
      BY <1>1, <1>4, <3>1, MaskOf DEF SequenceSpace
    <3>4. x < from => Mask(x - from) = x - from + MAX_SEQUENCE + 1
      BY <1>1, <1>4, <3>1, MaskOf
    <3> QED BY <1>1, <1>4, <2>1, <3>1, <3>2, <3>3, <3>4
  <2>2. AckedRange(from, s) = {x \in SequenceSpace : Mask(x - from) <= Mask(s - from)}
    BY <1>1, <1>2, <1>4 DEF AckedRange
  <2> QED BY <1>2, <2>1, <2>2
<1> QED BY <1>1, <1>3, <1>4

\* The order in which what is due is sent again names each packet once.
LEMMA OrderFacts ==
  ASSUME NEW S \in SUBSET Packets, NEW order \in SetToSeqs(S)
  PROVE  /\ order \in Seq(S)
         /\ \A i, j \in DOMAIN order : order[i] = order[j] => i = j
         /\ \A p \in S : \E i \in DOMAIN order : order[i] = p
<1> DEFINE D == 1..Cardinality(S)
<1>1. IsFiniteSet(S) /\ Cardinality(S) \in Nat
  <2>1. IsFiniteSet(Packets)
    <3>1. StreamLen - 1 \in Int
      BY StreamAssumption
    <3> QED BY <3>1, FS_Interval DEF Packets
  <2> QED BY <2>1, FS_Subset, FS_CardinalityType
<1>2. order \in [D -> S] /\ \A i, j \in D : i # j => order[i] # order[j]
  BY DEF SetToSeqs
<1>3. order \in Injection(D, S)
  BY <1>2 DEF Injection, IsInjective
<1>4. IsFiniteSet(D) /\ Cardinality(D) = Cardinality(S)
  BY <1>1, FS_Interval
<1>5. order \in Surjection(D, S)
  BY <1>1, <1>3, <1>4, FS_Injection
<1> QED BY <1>1, <1>2, <1>5 DEF Surjection

(***************************************************************************)
(* The queues.  A packet is in at most one place: buffered, alone in a     *)
(* datagram of a queue, or tracked.  (In a MultiPacket it is tracked.)     *)
(***************************************************************************)
Alone(datagram, p) == Len(datagram) = 1 /\ datagram[1] = Data(p)

Tracked(q, p) == q.unAck[p] # "none"
Waits(q, p) == \E i \in DOMAIN q.waiting : q.waiting[i] = Data(p)
Queued(q, p) == \E i \in DOMAIN q.out : Alone(q.out[i], p)
Resending(q, p) == \E i \in DOMAIN q.priority : Alone(q.priority[i], p)
Somewhere(q, p) == Tracked(q, p) \/ Waits(q, p) \/ Queued(q, p) \/ Resending(q, p)

Shape(q) ==
  /\ q \in QueuesType
  /\ Len(q.waiting) <= MaxMulti
  /\ \A i \in DOMAIN q.priority : Len(q.priority[i]) = 1

\* The packets of a datagram are not beyond b.
Known(datagram, b) ==
  \A i \in DOMAIN datagram : datagram[i].name = "Data" => datagram[i].seq <= b

Bounded(q, b) ==
  /\ Known(q.waiting, b)
  /\ \A i \in DOMAIN q.out : Known(q.out[i], b)
  /\ \A i \in DOMAIN q.priority : Known(q.priority[i], b)
  /\ \A p \in Packets : p > b => ~Tracked(q, p)

OnePlace(q) ==
  \A p \in Packets :
    /\ Tracked(q, p) => ~Waits(q, p) /\ ~Queued(q, p) /\ ~Resending(q, p)
    /\ Waits(q, p) => ~Queued(q, p) /\ ~Resending(q, p)
    /\ Queued(q, p) => ~Resending(q, p)

NotTwice(q) ==
  \A p \in Packets :
    /\ \A i, j \in DOMAIN q.waiting :
         q.waiting[i] = Data(p) /\ q.waiting[j] = Data(p) => i = j
    /\ \A i, j \in DOMAIN q.out : Alone(q.out[i], p) /\ Alone(q.out[j], p) => i = j
    /\ \A i, j \in DOMAIN q.priority :
         Alone(q.priority[i], p) /\ Alone(q.priority[j], p) => i = j

QueueInv(q, b) == Shape(q) /\ Bounded(q, b) /\ OnePlace(q) /\ NotTwice(q)

TimerSet(q) == q.timer = (q.waiting # <<>>)

\* No packet is forgotten from q to r; packet 0 may be.
Keeps(q, r) == \A p \in Packets \ {0} : Somewhere(q, p) => Somewhere(r, p)

\* The kinds of logical packets are told apart by their names.
LEMMA Names ==
  /\ \A p \in Packets : /\ Data(p) \in LogicalPackets
                         /\ Data(p).name = "Data" /\ Data(p).seq = p
  /\ \A s \in 0..(InboundLen - 1) :
       /\ Ack(s) \in LogicalPackets /\ Ack(s).name = "Ack" /\ Ack(s).seq = s
       /\ OutOfOrder(s) \in LogicalPackets /\ OutOfOrder(s).name = "OutOfOrder"
       /\ OutOfOrder(s).seq = s
  /\ \A n \in {"SessionReply", "Ping"} :
       Control(n) \in LogicalPackets /\ Control(n).name = n
  /\ \A e \in LogicalPackets :
       /\ e.name = "Data" => e.seq \in Packets /\ e = Data(e.seq)
       /\ e.name \in {"Ack", "OutOfOrder"} => e.seq \in 0..(InboundLen - 1)
BY DEF LogicalPackets, Data, Ack, OutOfOrder, Control

\* The parts of the queues after the waiting queue was flushed.
LEMMA FlushFields ==
  ASSUME NEW q \in QueuesType
  PROVE  LET r == FlushWaiting(q)
         IN  /\ r \in QueuesType
             /\ r.waiting = <<>> /\ r.timer = FALSE /\ r.priority = q.priority
             /\ q.waiting = <<>> => r.out = q.out /\ r.unAck = q.unAck
             /\ q.waiting # <<>> => r.out = Append(q.out, q.waiting)
             /\ Len(q.waiting) = 1 => r.unAck = q.unAck
             /\ q.waiting # <<>> /\ Len(q.waiting) # 1 =>
                  r.unAck = [p \in Packets |-> IF p \in TrackedTogether(q.waiting)
                                              THEN "fresh" ELSE q.unAck[p]]
<1> DEFINE flushed == [q EXCEPT !.timer = FALSE, !.waiting = <<>>]
           queued  == [flushed EXCEPT !.out = Append(@, q.waiting)]
           multi   == Track(queued, TrackedTogether(q.waiting))
<1>1. /\ flushed \in QueuesType
      /\ flushed.waiting = <<>> /\ flushed.timer = FALSE
      /\ flushed.priority = q.priority /\ flushed.out = q.out
      /\ flushed.unAck = q.unAck
  <2>1. <<>> \in Seq(LogicalPackets)
    OBVIOUS
  <2> QED BY <2>1, Zenon DEF QueuesType
<1> HIDE DEF flushed
<1>2. Append(q.out, q.waiting) \in Seq(Seq(LogicalPackets))
  <2>1. q.waiting \in Seq(LogicalPackets) /\ q.out \in Seq(Seq(LogicalPackets))
    BY DEF QueuesType
  <2> QED BY <2>1
<1>3. /\ queued \in QueuesType
      /\ queued.waiting = <<>> /\ queued.timer = FALSE
      /\ queued.priority = q.priority /\ queued.out = Append(q.out, q.waiting)
      /\ queued.unAck = q.unAck
  BY <1>1, <1>2, Zenon DEF QueuesType
<1> HIDE DEF queued
<1>4. /\ multi \in QueuesType
      /\ multi.waiting = <<>> /\ multi.timer = FALSE
      /\ multi.priority = q.priority /\ multi.out = Append(q.out, q.waiting)
      /\ multi.unAck = [p \in Packets |-> IF p \in TrackedTogether(q.waiting)
                                         THEN "fresh" ELSE q.unAck[p]]
  BY <1>3 DEF QueuesType, Track
<1> HIDE DEF multi
<1>5. Len(<<>>) # 1
  OBVIOUS
<1>6. FlushWaiting(q) = IF q.waiting = <<>> THEN flushed
                        ELSE IF Len(q.waiting) = 1 THEN queued ELSE multi
  BY DEF FlushWaiting, flushed, queued, multi
<1> QED BY <1>1, <1>3, <1>4, <1>5, <1>6

\* What a MultiPacket tracks was buffered, and only packet 0 may be left out.
LEMMA TogetherFacts ==
  ASSUME NEW q \in QueuesType
  PROVE  /\ TrackedTogether(q.waiting) \subseteq Packets
         /\ \A p \in Packets :
              /\ p \in TrackedTogether(q.waiting) => Waits(q, p)
              /\ Waits(q, p) /\ p # 0 => p \in TrackedTogether(q.waiting)
<1>1. q.waiting \in Seq(LogicalPackets)
  BY DEF QueuesType
<1>2. \A i \in DOMAIN q.waiting : q.waiting[i] \in LogicalPackets
  BY <1>1
<1>3. ASSUME NEW p \in TrackedTogether(q.waiting)
      PROVE  p \in Packets /\ Waits(q, p)
  BY <1>2, <1>3, Names DEF TrackedTogether, Waits
<1>4. ASSUME NEW p \in Packets, Waits(q, p), p # 0
      PROVE  p \in TrackedTogether(q.waiting)
  BY <1>4, Names DEF TrackedTogether, Waits
<1> QED BY <1>3, <1>4

\* The parts of queues that satisfy the type.
LEMMA QueuesParts ==
  ASSUME NEW q \in QueuesType
  PROVE  /\ q.waiting \in Seq(LogicalPackets)
         /\ q.out \in Seq(Seq(LogicalPackets))
         /\ q.priority \in Seq(Seq(LogicalPackets))
         /\ q.unAck \in [Packets -> {"none", "fresh", "due"}]
BY DEF QueuesType

\* A datagram appended to the out queue.
LEMMA OutAppended ==
  ASSUME NEW q \in QueuesType, NEW r, NEW d \in Seq(LogicalPackets),
         r.out = Append(q.out, d)
  PROVE  /\ DOMAIN r.out = DOMAIN q.out \cup {Len(q.out) + 1}
         /\ Len(q.out) + 1 \notin DOMAIN q.out
         /\ \A i \in DOMAIN q.out : r.out[i] = q.out[i]
         /\ r.out[Len(q.out) + 1] = d
         /\ \A p \in Packets : Queued(r, p) <=> Queued(q, p) \/ Alone(d, p)
<1>1. q.out \in Seq(Seq(LogicalPackets))
  BY QueuesParts
<1>2. /\ DOMAIN r.out = DOMAIN q.out \cup {Len(q.out) + 1}
      /\ Len(q.out) + 1 \notin DOMAIN q.out
      /\ \A i \in DOMAIN q.out : r.out[i] = q.out[i]
      /\ r.out[Len(q.out) + 1] = d
  BY <1>1, SMTT(30)
<1> QED BY <1>2 DEF Queued

\* The waiting queue flushed: nothing appears, and only packet 0 can be
\* forgotten, whose sequence number a MultiPacket does not track.
LEMMA Flushes ==
  ASSUME NEW b \in Int, NEW q, QueueInv(q, b)
  PROVE  LET r == FlushWaiting(q)
         IN  /\ QueueInv(r, b) /\ r.waiting = <<>>
             /\ Keeps(q, r)
             /\ \A p \in Packets : Somewhere(r, p) => Somewhere(q, p)
<1> DEFINE r == FlushWaiting(q)
<1>q. q \in QueuesType
  BY DEF QueueInv, Shape
<1>1. /\ r \in QueuesType
      /\ r.waiting = <<>> /\ r.priority = q.priority
      /\ q.waiting = <<>> => r.out = q.out /\ r.unAck = q.unAck
      /\ q.waiting # <<>> => r.out = Append(q.out, q.waiting)
      /\ Len(q.waiting) = 1 => r.unAck = q.unAck
      /\ q.waiting # <<>> /\ Len(q.waiting) # 1 =>
           r.unAck = [p \in Packets |-> IF p \in TrackedTogether(q.waiting)
                                       THEN "fresh" ELSE q.unAck[p]]
  BY <1>q, FlushFields
<1> HIDE DEF r
<1>2. q.waiting \in Seq(LogicalPackets) /\ q.unAck \in [Packets -> {"none", "fresh", "due"}]
  BY <1>q, QueuesParts
<1>3. Shape(r)
  <2>1. Len(r.waiting) <= MaxMulti
    BY <1>1, SessionAssumption
  <2> QED BY <1>1, <2>1 DEF QueueInv, Shape
<1>4. \A p \in Packets : ~Waits(r, p) /\ (Resending(r, p) <=> Resending(q, p))
  BY <1>1 DEF Waits, Resending
<1>5. CASE q.waiting = <<>>
  <2>1. \A p \in Packets : /\ Tracked(r, p) <=> Tracked(q, p)
                           /\ Queued(r, p) <=> Queued(q, p)
                           /\ ~Waits(q, p)
    BY <1>1, <1>5 DEF Tracked, Queued, Waits
  <2>2. Bounded(r, b)
    BY <1>1, <1>5, <2>1 DEF QueueInv, Bounded
  <2>3. NotTwice(r)
    BY <1>1, <1>5 DEF QueueInv, NotTwice
  <2>4. OnePlace(r)
    BY <1>4, <2>1 DEF QueueInv, OnePlace
  <2>5. \A p \in Packets : Somewhere(r, p) <=> Somewhere(q, p)
    BY <1>4, <2>1 DEF Somewhere
  <2> QED BY <1>1, <1>3, <2>2, <2>3, <2>4, <2>5 DEF QueueInv, Keeps, r
<1>6. CASE q.waiting # <<>>
  <2>1. /\ DOMAIN r.out = DOMAIN q.out \cup {Len(q.out) + 1}
        /\ Len(q.out) + 1 \notin DOMAIN q.out
        /\ \A i \in DOMAIN q.out : r.out[i] = q.out[i]
        /\ r.out[Len(q.out) + 1] = q.waiting
        /\ \A p \in Packets : Queued(r, p) <=> Queued(q, p) \/ Alone(q.waiting, p)
    BY <1>q, <1>1, <1>2, <1>6, OutAppended
  <2>2. \A p \in Packets : Alone(q.waiting, p) <=> Len(q.waiting) = 1 /\ Waits(q, p)
    BY <1>2 DEF Alone, Waits
  <2>3. \A p \in Packets :
          /\ Tracked(q, p) => Tracked(r, p)
          /\ Tracked(r, p) => Tracked(q, p) \/ (Len(q.waiting) # 1 /\ Waits(q, p))
          /\ Len(q.waiting) # 1 /\ Waits(q, p) /\ p # 0 => Tracked(r, p)
    <3>1. CASE Len(q.waiting) = 1
      BY <1>1, <3>1 DEF Tracked
    <3>2. CASE Len(q.waiting) # 1
      BY <1>q, <1>1, <1>6, <3>2, TogetherFacts DEF Tracked
    <3> QED BY <3>1, <3>2
  <2>4. Bounded(r, b)
    <3>1. Known(r.waiting, b)
      BY <1>1 DEF Known
    <3>2. \A i \in DOMAIN r.out : Known(r.out[i], b)
      BY <2>1 DEF QueueInv, Bounded
    <3>3. \A i \in DOMAIN r.priority : Known(r.priority[i], b)
      BY <1>1 DEF QueueInv, Bounded
    <3>4. \A p \in Packets : Waits(q, p) => p <= b
      BY Names DEF QueueInv, Bounded, Known, Waits
    <3>5. \A p \in Packets : p > b => ~Tracked(r, p)
      BY <2>3, <3>4 DEF QueueInv, Bounded, Packets
    <3> QED BY <3>1, <3>2, <3>3, <3>5 DEF Bounded
  <2>5. NotTwice(r)
    <3> SUFFICES ASSUME NEW p \in Packets, NEW i \in DOMAIN r.out, NEW j \in DOMAIN r.out,
                        Alone(r.out[i], p), Alone(r.out[j], p)
                 PROVE  i = j
      BY <1>1 DEF QueueInv, NotTwice
    <3>1. Alone(q.waiting, p) => ~Queued(q, p)
      BY <2>2 DEF QueueInv, OnePlace
    <3>2. i \in DOMAIN q.out /\ j \in DOMAIN q.out => i = j
      BY <2>1 DEF QueueInv, NotTwice
    <3> QED BY <2>1, <3>1, <3>2 DEF Queued
  <2>6. OnePlace(r)
    BY <1>4, <2>1, <2>2, <2>3 DEF QueueInv, OnePlace
  <2>7. \A p \in Packets : Somewhere(r, p) => Somewhere(q, p)
    BY <1>4, <2>1, <2>2, <2>3 DEF Somewhere
  <2>8. Keeps(q, r)
    BY <1>4, <2>1, <2>2, <2>3 DEF Somewhere, Keeps
  <2> QED BY <1>1, <1>3, <2>4, <2>5, <2>6, <2>7, <2>8 DEF QueueInv, r
<1> QED BY <1>5, <1>6

\* The two ways a logical packet enters the queues.
Buffer(q, packet) == [q EXCEPT !.waiting = Append(@, packet), !.timer = TRUE]
Enqueue(q, packet) == [q EXCEPT !.out = Append(@, <<packet>>)]

\* packet may be sent: its number is not beyond b, and it is nowhere yet.
New(q, packet, b) ==
  packet.name = "Data" => packet.seq <= b /\ ~Somewhere(q, packet.seq)

\* From q to r the packet, and nothing else, was added.
Added(q, r, packet) ==
  /\ Keeps(q, r)
  /\ \A p \in Packets : Somewhere(r, p) => Somewhere(q, p) \/ packet = Data(p)
  /\ \A p \in Packets : packet = Data(p) => Somewhere(r, p)

\* A packet that fits joins the waiting queue and sets its timer.
LEMMA Buffers ==
  ASSUME NEW b \in Int, NEW q, QueueInv(q, b), NEW packet \in LogicalPackets,
         New(q, packet, b), Len(q.waiting) < MaxMulti
  PROVE  LET r == Buffer(q, packet)
         IN  QueueInv(r, b) /\ Added(q, r, packet) /\ r.timer = TRUE /\ r.waiting # <<>>
<1> DEFINE r == Buffer(q, packet)
<1>q. q \in QueuesType
  BY DEF QueueInv, Shape
<1>1. q.waiting \in Seq(LogicalPackets) /\ Append(q.waiting, packet) \in Seq(LogicalPackets)
  <2>1. q.waiting \in Seq(LogicalPackets)
    BY <1>q, QueuesParts
  <2> QED BY <2>1
<1>2. /\ r \in QueuesType
      /\ r.waiting = Append(q.waiting, packet) /\ r.timer = TRUE
      /\ r.out = q.out /\ r.priority = q.priority /\ r.unAck = q.unAck
  BY <1>q, <1>1, Zenon DEF Buffer, QueuesType
<1> HIDE DEF r
<1>3. /\ DOMAIN r.waiting = DOMAIN q.waiting \cup {Len(q.waiting) + 1}
      /\ Len(q.waiting) + 1 \notin DOMAIN q.waiting
      /\ \A i \in DOMAIN q.waiting : r.waiting[i] = q.waiting[i]
      /\ r.waiting[Len(q.waiting) + 1] = packet
      /\ Len(r.waiting) = Len(q.waiting) + 1 /\ Len(q.waiting) \in Nat
      /\ r.waiting # <<>>
  BY <1>1, <1>2
<1>4. \A p \in Packets : /\ Tracked(r, p) <=> Tracked(q, p)
                         /\ Queued(r, p) <=> Queued(q, p)
                         /\ Resending(r, p) <=> Resending(q, p)
                         /\ Waits(r, p) <=> Waits(q, p) \/ packet = Data(p)
  <2>1. \A p \in Packets : /\ Tracked(r, p) <=> Tracked(q, p)
                           /\ Queued(r, p) <=> Queued(q, p)
                           /\ Resending(r, p) <=> Resending(q, p)
    BY <1>2 DEF Tracked, Queued, Resending
  <2>2. \A p \in Packets : Waits(r, p) <=> Waits(q, p) \/ packet = Data(p)
    BY <1>3 DEF Waits
  <2> QED BY <2>1, <2>2
<1>5. \A p \in Packets : packet = Data(p) => p <= b /\ ~Somewhere(q, p)
  BY Names DEF New
<1>6. Shape(r)
  <2>1. MaxMulti \in Nat
    BY SessionAssumption
  <2>2. Len(r.waiting) <= MaxMulti
    BY <1>3, <2>1
  <2> QED BY <1>2, <2>2 DEF QueueInv, Shape
<1>7. Bounded(r, b)
  <2>1. Known(r.waiting, b)
    BY <1>3 DEF QueueInv, Bounded, Known, New
  <2> QED BY <1>2, <1>4, <2>1 DEF QueueInv, Bounded
<1>8. NotTwice(r)
  <2> SUFFICES ASSUME NEW p \in Packets,
                      NEW i \in DOMAIN r.waiting, NEW j \in DOMAIN r.waiting,
                      r.waiting[i] = Data(p), r.waiting[j] = Data(p)
               PROVE  i = j
    BY <1>2 DEF QueueInv, NotTwice
  <2>1. packet = Data(p) => ~Waits(q, p)
    BY <1>5 DEF Somewhere
  <2>2. i \in DOMAIN q.waiting /\ j \in DOMAIN q.waiting => i = j
    BY <1>3 DEF QueueInv, NotTwice
  <2> QED BY <1>3, <2>1, <2>2 DEF Waits
<1>9. OnePlace(r)
  BY <1>4, <1>5 DEF QueueInv, OnePlace, Somewhere
<1>10. Added(q, r, packet)
  BY <1>4 DEF Added, Keeps, Somewhere
<1> QED BY <1>2, <1>3, <1>6, <1>7, <1>8, <1>9, <1>10 DEF QueueInv, r

\* A packet that is not buffered joins the out queue, alone in its datagram.
LEMMA Enqueues ==
  ASSUME NEW b \in Int, NEW q, QueueInv(q, b), NEW packet \in LogicalPackets,
         New(q, packet, b)
  PROVE  LET r == Enqueue(q, packet)
         IN  QueueInv(r, b) /\ Added(q, r, packet)
             /\ r.timer = q.timer /\ r.waiting = q.waiting
<1> DEFINE r == Enqueue(q, packet)
<1>q. q \in QueuesType
  BY DEF QueueInv, Shape
<1>1. <<packet>> \in Seq(LogicalPackets) /\ Append(q.out, <<packet>>) \in Seq(Seq(LogicalPackets))
  <2>1. q.out \in Seq(Seq(LogicalPackets))
    BY <1>q, QueuesParts
  <2> QED BY <2>1
<1>2. /\ r \in QueuesType
      /\ r.out = Append(q.out, <<packet>>) /\ r.timer = q.timer
      /\ r.waiting = q.waiting /\ r.priority = q.priority /\ r.unAck = q.unAck
  BY <1>q, <1>1, Zenon DEF Enqueue, QueuesType
<1> HIDE DEF r
<1>3. /\ DOMAIN r.out = DOMAIN q.out \cup {Len(q.out) + 1}
      /\ Len(q.out) + 1 \notin DOMAIN q.out
      /\ \A i \in DOMAIN q.out : r.out[i] = q.out[i]
      /\ r.out[Len(q.out) + 1] = <<packet>>
      /\ \A p \in Packets : Queued(r, p) <=> Queued(q, p) \/ Alone(<<packet>>, p)
  BY <1>q, <1>1, <1>2, OutAppended
<1>4. \A p \in Packets : /\ Tracked(r, p) <=> Tracked(q, p)
                         /\ Waits(r, p) <=> Waits(q, p)
                         /\ Resending(r, p) <=> Resending(q, p)
                         /\ Alone(<<packet>>, p) <=> packet = Data(p)
  <2>1. \A p \in Packets : Alone(<<packet>>, p) <=> packet = Data(p)
    BY DEF Alone
  <2> QED BY <1>2, <2>1 DEF Tracked, Waits, Resending
<1>5. \A p \in Packets : packet = Data(p) => p <= b /\ ~Somewhere(q, p)
  BY Names DEF New
<1>6. Shape(r)
  BY <1>2 DEF QueueInv, Shape
<1>7. Bounded(r, b)
  <2>1. Known(<<packet>>, b)
    BY DEF Known, New
  <2>2. \A i \in DOMAIN r.out : Known(r.out[i], b)
    BY <1>3, <2>1 DEF QueueInv, Bounded
  <2> QED BY <1>2, <1>4, <2>2 DEF QueueInv, Bounded
<1>8. NotTwice(r)
  <2> SUFFICES ASSUME NEW p \in Packets,
                      NEW i \in DOMAIN r.out, NEW j \in DOMAIN r.out,
                      Alone(r.out[i], p), Alone(r.out[j], p)
               PROVE  i = j
    BY <1>2 DEF QueueInv, NotTwice
  <2>1. Alone(<<packet>>, p) => ~Queued(q, p)
    BY <1>4, <1>5 DEF Somewhere
  <2>2. i \in DOMAIN q.out /\ j \in DOMAIN q.out => i = j
    BY <1>3 DEF QueueInv, NotTwice
  <2> QED BY <1>3, <2>1, <2>2 DEF Queued
<1>9. OnePlace(r)
  BY <1>3, <1>4, <1>5 DEF QueueInv, OnePlace, Somewhere
<1>10. Added(q, r, packet)
  BY <1>3, <1>4 DEF Added, Keeps, Somewhere
<1> QED BY <1>2, <1>6, <1>7, <1>8, <1>9, <1>10 DEF QueueInv, r

\* _sendLogicalPacket without priority.
LEMMA SendLogicalAdds ==
  ASSUME NEW b \in Int, NEW q, QueueInv(q, b), TimerSet(q),
         NEW packet \in LogicalPackets, New(q, packet, b), NEW unbuffered
  PROVE  LET r == SendLogical(q, packet, unbuffered)
         IN  QueueInv(r, b) /\ TimerSet(r) /\ Added(q, r, packet)
<1> DEFINE r == SendLogical(q, packet, unbuffered)
           f == FlushWaiting(q)
<1>1. CASE ~unbuffered /\ Fits(packet) /\ Len(q.waiting) < MaxMulti
  <2>1. r = Buffer(q, packet)
    BY <1>1 DEF SendLogical, Buffer
  <2>2. QueueInv(r, b) /\ Added(q, r, packet) /\ r.timer = TRUE /\ r.waiting # <<>>
    BY <1>1, <2>1, Buffers
  <2>3. TimerSet(r)
    BY <2>2, Zenon DEF TimerSet
  <2> QED BY <2>2, <2>3
<1>2. CASE ~(~unbuffered /\ Fits(packet) /\ Len(q.waiting) < MaxMulti)
  <2>1. r = Enqueue(f, packet)
    BY <1>2, Zenon DEF SendLogical, Enqueue
  <2>2. /\ QueueInv(f, b) /\ f.waiting = <<>>
        /\ Keeps(q, f)
        /\ \A p \in Packets : Somewhere(f, p) => Somewhere(q, p)
    BY Flushes
  <2>3. f.timer = FALSE
    BY FlushFields DEF QueueInv, Shape
  <2> HIDE DEF f
  <2>4. New(f, packet, b)
    BY <2>2, Names DEF New
  <2>5. /\ QueueInv(r, b) /\ Added(f, r, packet)
        /\ r.timer = f.timer /\ r.waiting = f.waiting
    BY <2>1, <2>2, <2>4, Enqueues
  <2>6. TimerSet(r)
    BY <2>2, <2>3, <2>5, Zenon DEF TimerSet
  <2> HIDE DEF r
  <2>7. Added(q, r, packet)
    BY <2>2, <2>5 DEF Added, Keeps
  <2> QED BY <2>5, <2>6, <2>7 DEF r
<1> QED BY <1>1, <1>2

\* Logical packets sent one after the other, by induction on their number.
LEMMA SendAllAdds ==
  ASSUME NEW b \in Int, NEW q, QueueInv(q, b), TimerSet(q),
         NEW packets \in Seq(LogicalPackets), NEW stale, NEW unbuffered,
         \A i \in DOMAIN packets : New(q, packets[i], b),
         \A i, j \in DOMAIN packets :
           packets[i].name = "Data" /\ packets[i] = packets[j] => i = j
  PROVE  LET r == SendAll(q, packets, stale, unbuffered)
         IN  /\ QueueInv(r, b) /\ TimerSet(r) /\ Keeps(q, r)
             /\ \A i \in DOMAIN packets : \A p \in Packets \ {0} :
                  packets[i] = Data(p) /\ packets[i] \notin stale => Somewhere(r, p)
<1> DEFINE N == Len(packets)
           after == Sendings(q, packets, stale, unbuffered)
           Good(i) == /\ QueueInv(after[i], b) /\ TimerSet(after[i])
                      /\ Keeps(q, after[i])
                      /\ \A j \in 1..i : \A p \in Packets \ {0} :
                           packets[j] = Data(p) /\ packets[j] \notin stale =>
                             Somewhere(after[i], p)
                      /\ \A j \in (i + 1)..N : New(after[i], packets[j], b)
           Goods == {i \in 0..N : Good(i)}
<1>1. N \in Nat /\ DOMAIN packets = 1..N /\ \A i \in 1..N : packets[i] \in LogicalPackets
  OBVIOUS
<1>2. /\ after[0] = q
      /\ \A i \in 1..N : after[i] = SendOne(after[i - 1], packets, stale, unbuffered, i)
  <2>1. Len(packets) \in Nat
    OBVIOUS
  <2>2. /\ Sendings(q, packets, stale, unbuffered)[0] = q
        /\ \A i \in 1..Len(packets) :
             Sendings(q, packets, stale, unbuffered)[i] =
               SendOne(Sendings(q, packets, stale, unbuffered)[i - 1], packets,
                       stale, unbuffered, i)
    BY <2>1, SendingsSteps
  <2> QED BY <2>2
<1> HIDE DEF N, after
<1>3. Good(0)
  BY <1>1, <1>2 DEF Keeps
<1>4. ASSUME NEW i \in 0..(N - 1), Good(i) PROVE Good(i + 1)
  <2> DEFINE a == after[i]
             r == after[i + 1]
             packet == packets[i + 1]
  <2>1. /\ i + 1 \in 1..N /\ r = SendOne(a, packets, stale, unbuffered, i + 1)
        /\ packet \in LogicalPackets /\ New(a, packet, b)
    <3>1. i + 1 \in 1..N /\ i + 1 \in (i + 1)..N /\ (i + 1) - 1 = i
      BY <1>1
    <3> QED BY <1>1, <1>2, <1>4, <3>1
  <2>2. ASSUME NEW j \in 1..(i + 1) PROVE j \in 1..i \/ j = i + 1
    BY <1>1
  <2>3. ASSUME NEW j \in ((i + 1) + 1)..N
        PROVE  j \in (i + 1)..N /\ j \in 1..N /\ j # i + 1
    BY <1>1
  <2>4. CASE packet \in stale
    <3>1. r = a
      BY <2>1, <2>4 DEF SendOne
    <3>2. \A j \in 1..(i + 1) : \A p \in Packets \ {0} :
            packets[j] = Data(p) /\ packets[j] \notin stale => Somewhere(r, p)
      BY <1>4, <2>2, <2>4, <3>1
    <3>3. \A j \in ((i + 1) + 1)..N : New(r, packets[j], b)
      BY <1>4, <2>3, <3>1
    <3> QED BY <1>4, <3>1, <3>2, <3>3
  <2>5. CASE packet \notin stale
    <3>1. r = SendLogical(a, packet, unbuffered)
      BY <2>1, <2>5 DEF SendOne
    <3>2. QueueInv(r, b) /\ TimerSet(r) /\ Added(a, r, packet)
      <4>1. QueueInv(a, b) /\ TimerSet(a)
        BY <1>4
      <4> HIDE DEF a, r, packet
      <4> QED BY <2>1, <3>1, <4>1, SendLogicalAdds
    <3>3. Keeps(q, r)
      BY <1>4, <3>2 DEF Keeps, Added
    <3>4. \A j \in 1..(i + 1) : \A p \in Packets \ {0} :
            packets[j] = Data(p) /\ packets[j] \notin stale => Somewhere(r, p)
      BY <1>4, <2>2, <3>2 DEF Keeps, Added
    <3>5. ASSUME NEW j \in ((i + 1) + 1)..N PROVE New(r, packets[j], b)
      <4>1. /\ packets[j] \in LogicalPackets /\ New(a, packets[j], b)
            /\ packets[j].name = "Data" => packets[j] # packet
        BY <1>1, <1>4, <2>1, <2>3
      <4> QED BY <3>2, <4>1, Names DEF Added, New
    <3> QED BY <3>2, <3>3, <3>4, <3>5
  <2> QED BY <2>4, <2>5
<1>5. Good(N)
  <2>1. 0 \in Goods
    BY <1>1, <1>3
  <2>2. \A i \in 0..(N - 1) : i \in Goods => i + 1 \in Goods
    <3>1. \A i \in 0..(N - 1) : i + 1 \in 0..N
      BY <1>1
    <3>2. \A i \in 0..(N - 1) : Good(i) => Good(i + 1)
      BY <1>4
    <3> HIDE DEF Good
    <3> QED BY <3>1, <3>2
  <2>3. \A i \in 0..N : i \in Goods
    <3> HIDE DEF Goods
    <3> QED BY <1>1, <2>1, <2>2, UpTo
  <2> QED BY <1>1, <2>3
<1>6. SendAll(q, packets, stale, unbuffered) = after[N]
  BY DEF SendAll, N, after
<1> QED BY <1>1, <1>5, <1>6

(***************************************************************************)
(* The steps of the client's routine.                                      *)
(***************************************************************************)
ClientType ==
  [q : QueuesType, lastAck : -1..(InboundLen - 1),
   outOfOrder : Seq(0..(InboundLen - 1)), issues : BOOLEAN, sent : 0..PacketRate,
   wire : SUBSET Seq(LogicalPackets)]

ClientInv(c, b) ==
  /\ c \in ClientType
  /\ QueueInv(c.q, b) /\ TimerSet(c.q)
  /\ c.lastAck <= nextAck
  /\ \A d \in c.wire : Known(d, b)

\* Changing the queues alone.
LEMMA NewQueues ==
  ASSUME NEW b, NEW c, ClientInv(c, b), NEW q, QueueInv(q, b), TimerSet(q)
  PROVE  LET r == [c EXCEPT !.q = q]
         IN  ClientInv(r, b) /\ r.q = q /\ r.issues = c.issues
<1> DEFINE r == [c EXCEPT !.q = q]
<1>1. c \in ClientType /\ q \in QueuesType
  BY DEF ClientInv, QueueInv, Shape
<1>2. /\ r \in ClientType /\ r.q = q /\ r.lastAck = c.lastAck /\ r.wire = c.wire
      /\ r.issues = c.issues
  BY <1>1, Zenon DEF ClientType
<1> HIDE DEF r
<1>3. ClientInv(r, b)
  BY <1>2 DEF ClientInv
<1> QED BY <1>2, <1>3 DEF r

\* checkAck: the routine's acknowledgement enters the queues and disturbs no
\* packet in them.
LEMMA CheckAckKeeps ==
  ASSUME NEW b \in Int, nextAck \in -1..(InboundLen - 1), NEW c, ClientInv(c, b)
  PROVE  ClientInv(CheckAck(c), b) /\ Keeps(c.q, CheckAck(c).q)
<1> DEFINE q == SendLogical(c.q, Ack(nextAck), FALSE)
           acked == [c EXCEPT !.q = q]
<1>1. CASE c.lastAck = nextAck
  <2>1. CheckAck(c) = c
    BY <1>1 DEF CheckAck
  <2> QED BY <2>1 DEF Keeps
<1>2. CASE c.lastAck # nextAck
  <2>1. nextAck \in 0..(InboundLen - 1)
    <3>1. c.lastAck \in -1..(InboundLen - 1) /\ c.lastAck <= nextAck
      BY DEF ClientInv, ClientType
    <3> QED BY <1>2, <3>1, SessionAssumption
  <2>2. Ack(nextAck) \in LogicalPackets /\ New(c.q, Ack(nextAck), b)
    BY <2>1, Names DEF New
  <2>3. QueueInv(q, b) /\ TimerSet(q) /\ Keeps(c.q, q)
    BY <2>2, SendLogicalAdds DEF ClientInv, Added
  <2> HIDE DEF q
  <2>4. ClientInv(acked, b) /\ acked.q = q
    BY <2>3, NewQueues
  <2> HIDE DEF acked
  <2> DEFINE r == [acked EXCEPT !.lastAck = nextAck]
  <2>5. /\ r \in ClientType /\ r.q = q /\ r.wire = acked.wire /\ r.lastAck = nextAck
    BY <2>4, Zenon DEF ClientType, ClientInv
  <2>6. CheckAck(c) = r
    <3>1. CheckAck(c) = [c EXCEPT !.lastAck = nextAck, !.q = q]
      BY <1>2 DEF CheckAck, q
    <3>2. [c EXCEPT !.lastAck = nextAck, !.q = q] = [[c EXCEPT !.q = q] EXCEPT !.lastAck = nextAck]
      BY DEF ClientInv, ClientType
    <3> QED BY <3>1, <3>2 DEF acked
  <2> HIDE DEF r
  <2>7. ClientInv(r, b)
    BY <2>1, <2>3, <2>4, <2>5 DEF ClientInv
  <2> QED BY <2>3, <2>5, <2>6, <2>7
<1> QED BY <1>1, <1>2

\* checkOutOfOrderQueue: reports taken from the queue, however many, disturb no
\* packet in the queues.
LEMMA ReportKeeps ==
  ASSUME NEW b \in Int, NEW c, ClientInv(c, b), NEW n \in 0..Len(c.outOfOrder)
  PROVE  ClientInv(Report(c, n), b) /\ Keeps(c.q, Report(c, n).q)
<1> DEFINE reports == [i \in 1..n |-> OutOfOrder(c.outOfOrder[i])]
           stale == {OutOfOrder(s) : s \in 0..c.lastAck}
           rest == SubSeq(c.outOfOrder, n + 1, Len(c.outOfOrder))
           q == SendAll(c.q, reports, stale, FALSE)
<1>1. c.outOfOrder \in Seq(0..(InboundLen - 1))
  BY DEF ClientInv, ClientType
<1>2. rest \in Seq(0..(InboundLen - 1))
  BY <1>1, Cuts
<1>3. \A i \in 1..n : reports[i] \in LogicalPackets /\ reports[i].name = "OutOfOrder"
  <2>1. \A i \in 1..n : c.outOfOrder[i] \in 0..(InboundLen - 1)
    <3>1. \A i \in 1..Len(c.outOfOrder) : c.outOfOrder[i] \in 0..(InboundLen - 1)
      BY <1>1, ElementOfSeq
    <3>2. Len(c.outOfOrder) \in Nat
      BY <1>1
    <3> QED BY <3>1, <3>2
  <2> QED BY <2>1, Names
<1>4. reports \in Seq(LogicalPackets) /\ DOMAIN reports = 1..n
  <2>1. n \in Nat /\ reports = [i \in 1..n |-> reports[i]]
    BY <1>1
  <2> HIDE DEF reports
  <2> QED BY <1>3, <2>1
<1>5. QueueInv(q, b) /\ TimerSet(q) /\ Keeps(c.q, q)
  <2>1. \A i \in DOMAIN reports : New(c.q, reports[i], b)
    BY <1>3, <1>4 DEF New
  <2>2. \A i, j \in DOMAIN reports :
          reports[i].name = "Data" /\ reports[i] = reports[j] => i = j
    BY <1>3, <1>4
  <2>3. QueueInv(c.q, b) /\ TimerSet(c.q)
    BY DEF ClientInv
  <2> HIDE DEF reports, stale
  <2> QED BY <1>4, <2>1, <2>2, <2>3, SendAllAdds
<1>6. Report(c, n) = [c EXCEPT !.outOfOrder = rest, !.q = q]
  BY DEF Report
<1> HIDE DEF rest, q
<1> DEFINE r == [c EXCEPT !.outOfOrder = rest, !.q = q]
<1>7. /\ r \in ClientType /\ r.q = q /\ r.wire = c.wire /\ r.lastAck = c.lastAck
  BY <1>2, <1>5, Zenon DEF ClientType, ClientInv, QueueInv, Shape
<1> HIDE DEF r
<1>8. ClientInv(r, b)
  BY <1>5, <1>7 DEF ClientInv
<1> QED BY <1>5, <1>6, <1>7, <1>8 DEF r

\* What is due is sent again, if it is still cached.
LEMMA CheckResendKeeps ==
  ASSUME NEW b \in Int, NEW c, ClientInv(c, b), NEW order \in SetToSeqs(Due(c) \cap cache)
  PROVE  LET r == CheckResend(c, order)
         IN  /\ ClientInv(r, b)
             /\ \A p \in Packets \ {0} :
                  p \in cache /\ Somewhere(c.q, p) => Somewhere(r.q, p)
<1> DEFINE more == [i \in DOMAIN order |-> <<Data(order[i])>>]
           untracked == [p \in Packets |-> IF p \in Due(c) THEN "none" ELSE c.q.unAck[p]]
           q == [c.q EXCEPT !.priority = @ \o more, !.unAck = untracked]
           n == Len(c.q.priority)
<1>1. Due(c) \cap cache \in SUBSET Packets
  BY DEF Due
<1>2. /\ order \in Seq(Due(c) \cap cache)
      /\ \A i, j \in DOMAIN order : order[i] = order[j] => i = j
      /\ \A p \in Due(c) \cap cache : \E i \in DOMAIN order : order[i] = p
  BY <1>1, OrderFacts
<1>3. /\ Len(order) \in Nat /\ DOMAIN order = 1..Len(order)
      /\ \A i \in DOMAIN order : order[i] \in Packets /\ order[i] \in Due(c)
  BY <1>1, <1>2
<1>4. /\ more \in Seq(Seq(LogicalPackets)) /\ Len(more) = Len(order)
      /\ DOMAIN more = DOMAIN order
      /\ \A i \in DOMAIN order : more[i] = <<Data(order[i])>>
  <2>1. \A i \in DOMAIN order : <<Data(order[i])>> \in Seq(LogicalPackets)
    BY <1>3, Names
  <2> QED BY <1>3, <2>1
<1>5. /\ c \in ClientType /\ c.q \in QueuesType /\ QueueInv(c.q, b) /\ TimerSet(c.q)
      /\ c.q.priority \in Seq(Seq(LogicalPackets))
      /\ c.q.unAck \in [Packets -> {"none", "fresh", "due"}]
      /\ n \in Nat
  <2>1. c \in ClientType /\ c.q \in QueuesType /\ QueueInv(c.q, b) /\ TimerSet(c.q)
    BY DEF ClientInv, QueueInv, Shape
  <2> QED BY <2>1, QueuesParts
<1>6. /\ c.q.priority \o more \in Seq(Seq(LogicalPackets))
      /\ untracked \in [Packets -> {"none", "fresh", "due"}]
      /\ \A p \in Packets : untracked[p] = IF p \in Due(c) THEN "none" ELSE c.q.unAck[p]
  <2>1. c.q.priority \o more \in Seq(Seq(LogicalPackets))
    <3> HIDE DEF more
    <3> QED BY <1>4, <1>5
  <2>2. untracked \in [Packets -> {"none", "fresh", "due"}]
    BY <1>5
  <2> QED BY <2>1, <2>2
<1>7. \A p \in Packets : p \in Due(c) => Tracked(c.q, p)
  BY DEF Due, Tracked
<1> HIDE DEF more, untracked
<1>8. /\ q \in QueuesType
      /\ q.waiting = c.q.waiting /\ q.timer = c.q.timer /\ q.out = c.q.out
      /\ q.priority = c.q.priority \o more /\ q.unAck = untracked
  BY <1>5, <1>6, Zenon DEF QueuesType
<1>9. CheckResend(c, order) = [c EXCEPT !.q = q]
  BY DEF CheckResend, q, more, untracked
<1> HIDE DEF q
<1>10. /\ DOMAIN q.priority = 1..(n + Len(order))
       /\ \A i \in 1..n : q.priority[i] = c.q.priority[i]
       /\ \A i \in 1..Len(order) : q.priority[n + i] = <<Data(order[i])>>
       /\ DOMAIN c.q.priority = 1..n
  <2> DEFINE all == c.q.priority \o more
  <2>1. /\ all \in Seq(Seq(LogicalPackets))
        /\ Len(all) = n + Len(more)
        /\ \A i \in 1..n : all[i] = c.q.priority[i]
        /\ \A i \in 1..Len(more) : all[n + i] = more[i]
    <3>1. /\ all \in Seq(Seq(LogicalPackets))
          /\ Len(all) = n + Len(more)
          /\ \A i \in 1..(n + Len(more)) :
               all[i] = IF i <= n THEN c.q.priority[i] ELSE more[i - n]
      <4> DEFINE S == Seq(LogicalPackets)
                 s == c.q.priority
      <4>1. s \in Seq(S) /\ more \in Seq(S)
        BY <1>4, <1>5
      <4> HIDE DEF S, s, more
      <4>2. s \o more \in Seq(S) /\ Len(s \o more) = Len(s) + Len(more)
            /\ \A i \in 1..(Len(s) + Len(more)) :
                 (s \o more)[i] = IF i <= Len(s) THEN s[i] ELSE more[i - Len(s)]
        BY <4>1, ConcatProperties
      <4> QED BY <4>2 DEF S, s
    <3>2. Len(more) \in Nat
      BY <1>3, <1>4
    <3> HIDE DEF n, all
    <3>3. \A i \in 1..n : i \in 1..(n + Len(more)) /\ i <= n
      BY <1>5, <3>2
    <3>4. \A i \in 1..Len(more) :
            n + i \in 1..(n + Len(more)) /\ ~(n + i <= n) /\ (n + i) - n = i
      BY <1>5, <3>2
    <3> QED BY <3>1, <3>3, <3>4
  <2>2. DOMAIN all = 1..Len(all) /\ DOMAIN c.q.priority = 1..n
    BY <1>5, <2>1
  <2> HIDE DEF all
  <2> QED BY <1>3, <1>4, <1>8, <2>1, <2>2 DEF all
<1> HIDE DEF n
<1>11. \A i \in DOMAIN q.priority :
         \/ i \in DOMAIN c.q.priority /\ q.priority[i] = c.q.priority[i]
         \/ \E j \in DOMAIN order : i = n + j /\ q.priority[i] = <<Data(order[j])>>
  <2> TAKE i \in DOMAIN q.priority
  <2>1. CASE i <= n
    BY <1>5, <1>10, <2>1
  <2>2. CASE i > n
    <3>1. i - n \in 1..Len(order) /\ i = n + (i - n)
      BY <1>3, <1>5, <1>10, <2>2
    <3> QED BY <1>3, <1>10, <3>1
  <2> QED BY <1>3, <1>5, <1>10, <2>1, <2>2
<1>12. \A j \in DOMAIN order : \A p \in Packets :
         Alone(<<Data(order[j])>>, p) <=> order[j] = p
  BY <1>3, Names DEF Alone
<1>13. \A p \in Packets :
         /\ Waits(q, p) <=> Waits(c.q, p)
         /\ Queued(q, p) <=> Queued(c.q, p)
         /\ Tracked(q, p) <=> Tracked(c.q, p) /\ p \notin Due(c)
         /\ Resending(q, p) => Resending(c.q, p) \/ p \in Due(c)
         /\ Resending(c.q, p) => Resending(q, p)
         /\ p \in Due(c) \cap cache => Resending(q, p)
  <2> TAKE p \in Packets
  <2>1. Waits(q, p) <=> Waits(c.q, p)
    BY <1>8 DEF Waits
  <2>2. Queued(q, p) <=> Queued(c.q, p)
    BY <1>8 DEF Queued
  <2>3. Tracked(q, p) <=> Tracked(c.q, p) /\ p \notin Due(c)
    BY <1>6, <1>7, <1>8 DEF Tracked
  <2>4. Resending(q, p) => Resending(c.q, p) \/ p \in Due(c)
    <3> SUFFICES ASSUME NEW i \in DOMAIN q.priority, Alone(q.priority[i], p)
                 PROVE  Resending(c.q, p) \/ p \in Due(c)
      BY DEF Resending
    <3>1. CASE i \in DOMAIN c.q.priority /\ q.priority[i] = c.q.priority[i]
      BY <3>1 DEF Resending
    <3>2. CASE \E j \in DOMAIN order : q.priority[i] = <<Data(order[j])>>
      BY <1>3, <1>12, <3>2
    <3> QED BY <1>11, <3>1, <3>2
  <2>5. Resending(c.q, p) => Resending(q, p)
    <3>1. DOMAIN c.q.priority \subseteq DOMAIN q.priority
      BY <1>3, <1>5, <1>10
    <3> QED BY <1>10, <3>1 DEF Resending
  <2>6. p \in Due(c) \cap cache => Resending(q, p)
    <3> SUFFICES ASSUME p \in Due(c) \cap cache PROVE Resending(q, p)
      OBVIOUS
    <3>1. PICK j \in DOMAIN order : order[j] = p
      BY <1>2
    <3>2. j \in 1..Len(order) /\ n + j \in DOMAIN q.priority
      BY <1>3, <1>5, <1>10
    <3>3. Alone(q.priority[n + j], p)
      BY <1>10, <1>12, <3>1, <3>2
    <3> QED BY <3>2, <3>3 DEF Resending
  <2> QED BY <2>1, <2>2, <2>3, <2>4, <2>5, <2>6
<1>14. Shape(q)
  <2>1. \A i \in DOMAIN q.priority : Len(q.priority[i]) = 1
    <3>1. \A i \in DOMAIN c.q.priority : Len(c.q.priority[i]) = 1
      BY <1>5 DEF QueueInv, Shape
    <3>2. \A j \in DOMAIN order : Len(<<Data(order[j])>>) = 1
      OBVIOUS
    <3> QED BY <1>11, <3>1, <3>2
  <2> QED BY <1>5, <1>8, <2>1 DEF QueueInv, Shape
<1>15. Bounded(q, b)
  <2>1. \A j \in DOMAIN order : order[j] <= b
    BY <1>3, <1>5, <1>7 DEF QueueInv, Bounded, Packets
  <2>2. \A i \in DOMAIN q.priority : Known(q.priority[i], b)
    <3>1. \A j \in DOMAIN order : Known(<<Data(order[j])>>, b)
      BY <1>3, <2>1, Names DEF Known
    <3> QED BY <1>5, <1>11, <3>1 DEF QueueInv, Bounded
  <2> QED BY <1>5, <1>8, <1>13, <2>2 DEF QueueInv, Bounded
<1>16. NotTwice(q)
  <2> SUFFICES ASSUME NEW p \in Packets,
                      NEW i \in DOMAIN q.priority, NEW j \in DOMAIN q.priority,
                      Alone(q.priority[i], p), Alone(q.priority[j], p)
               PROVE  i = j
    BY <1>5, <1>8 DEF QueueInv, NotTwice
  <2>1. p \in Due(c) => ~Resending(c.q, p)
    BY <1>5, <1>7 DEF QueueInv, OnePlace
  <2>2. i \in DOMAIN c.q.priority /\ j \in DOMAIN c.q.priority =>
          /\ Alone(c.q.priority[i], p) /\ Alone(c.q.priority[j], p)
          /\ i = j
    BY <1>5, <1>10 DEF QueueInv, NotTwice
  <2>3. i \in DOMAIN c.q.priority => Resending(c.q, p)
    BY <1>10 DEF Resending
  <2>4. j \in DOMAIN c.q.priority => Resending(c.q, p)
    BY <1>10 DEF Resending
  <2>5. CASE i \in DOMAIN c.q.priority
    BY <1>3, <1>11, <1>12, <2>1, <2>2, <2>3, <2>5, ZenonT(40)
  <2>6. CASE i \notin DOMAIN c.q.priority
    <3>1. PICK k \in DOMAIN order : i = n + k /\ q.priority[i] = <<Data(order[k])>>
      BY <1>11, <2>6
    <3>2. order[k] = p /\ p \in Due(c)
      BY <1>3, <1>12, <3>1
    <3>3. PICK l \in DOMAIN order : j = n + l /\ q.priority[j] = <<Data(order[l])>>
      BY <1>11, <2>1, <2>4, <3>2
    <3>4. order[l] = p
      BY <1>12, <3>3
    <3> QED BY <1>2, <3>1, <3>2, <3>3, <3>4
  <2> QED BY <2>5, <2>6
<1>17. OnePlace(q)
  BY <1>5, <1>7, <1>13 DEF QueueInv, OnePlace
<1>18. \A p \in Packets \ {0} : p \in cache /\ Somewhere(c.q, p) => Somewhere(q, p)
  BY <1>13 DEF Somewhere
<1>19. TimerSet(q)
  BY <1>5, <1>8, Zenon DEF TimerSet
<1>20. QueueInv(q, b)
  BY <1>14, <1>15, <1>16, <1>17 DEF QueueInv
<1>21. ClientInv(CheckResend(c, order), b) /\ CheckResend(c, order).q = q
  BY <1>9, <1>19, <1>20, NewQueues
<1> QED BY <1>18, <1>21

\* The rate limit.
LEMMA AllowedFacts ==
  ASSUME NEW queue, Len(queue) \in Nat, NEW sent \in 0..PacketRate
  PROVE  Allowed(queue, sent) \in 0..Len(queue) /\ sent + Allowed(queue, sent) <= PacketRate
BY SessionAssumption DEF Allowed

\* Tracking changes the resend timers alone, and stops none.
LEMMA TrackFields ==
  ASSUME NEW q \in QueuesType, NEW ps
  PROVE  LET r == Track(q, ps)
         IN  /\ r \in QueuesType
             /\ r.waiting = q.waiting /\ r.timer = q.timer /\ r.out = q.out
             /\ r.priority = q.priority
             /\ \A p \in Packets : Tracked(r, p) <=> Tracked(q, p) \/ p \in ps
<1> DEFINE unAck == [p \in Packets |-> IF p \in ps THEN "fresh" ELSE q.unAck[p]]
           r == [q EXCEPT !.unAck = unAck]
<1>1. unAck \in [Packets -> {"none", "fresh", "due"}]
  BY QueuesParts
<1>2. \A p \in Packets : unAck[p] # "none" <=> q.unAck[p] # "none" \/ p \in ps
  OBVIOUS
<1>3. Track(q, ps) = r
  BY DEF Track
<1> HIDE DEF unAck
<1>4. /\ r \in QueuesType /\ r.unAck = unAck
      /\ r.waiting = q.waiting /\ r.timer = q.timer /\ r.out = q.out
      /\ r.priority = q.priority
  BY <1>1, Zenon DEF QueuesType
<1> HIDE DEF r
<1> QED BY <1>2, <1>3, <1>4 DEF Tracked

\* What is tracked when datagrams leave: the packets alone in theirs.
LEMMA TrackedOnSendFacts ==
  ASSUME NEW ds \in Seq(Seq(LogicalPackets)), NEW p \in Packets
  PROVE  p \in TrackedOnSend(ds) <=> p # 0 /\ \E i \in DOMAIN ds : Alone(ds[i], p)
<1>1. ASSUME NEW i \in DOMAIN ds, Len(ds[i]) = 1
      PROVE  ds[i][1] \in LogicalPackets
  <2>1. ds[i] \in Seq(LogicalPackets)
    OBVIOUS
  <2>2. 1 \in 1..Len(ds[i])
    BY <1>1
  <2> QED BY <2>1, <2>2, ElementOfSeq
<1>2. ASSUME p \in TrackedOnSend(ds)
      PROVE  p # 0 /\ \E i \in DOMAIN ds : Alone(ds[i], p)
  <2>1. PICK i \in DOMAIN ds : /\ Len(ds[i]) = 1 /\ ds[i][1].name = "Data"
                              /\ ds[i][1].seq # 0 /\ p = ds[i][1].seq
    BY <1>2 DEF TrackedOnSend, ToSet
  <2> QED BY <1>1, <2>1, Names DEF Alone
<1>3. ASSUME p # 0, NEW i \in DOMAIN ds, Alone(ds[i], p)
      PROVE  p \in TrackedOnSend(ds)
  <2>1. ds[i] \in ToSet(ds)
    BY DEF ToSet
  <2>2. Len(ds[i]) = 1 /\ ds[i][1].name = "Data" /\ ds[i][1].seq # 0 /\ ds[i][1].seq = p
    BY <1>3, Names DEF Alone
  <2> QED BY <2>1, <2>2 DEF TrackedOnSend
<1> QED BY <1>2, <1>3

\* Datagrams that leave within the rate limit keep the client's invariant if
\* the queues without them do.
LEMMA SendKeeps ==
  ASSUME NEW b \in Int, NEW c, ClientInv(c, b),
         NEW ds \in Seq(Seq(LogicalPackets)), \A i \in DOMAIN ds : Known(ds[i], b),
         c.sent + Len(ds) <= PacketRate, NEW q,
         QueueInv(Track(q, TrackedOnSend(ds)), b), TimerSet(Track(q, TrackedOnSend(ds)))
  PROVE  /\ ClientInv(Send(c, ds, q), b)
         /\ Send(c, ds, q).q = Track(q, TrackedOnSend(ds))
<1> DEFINE t == Track(q, TrackedOnSend(ds))
           sent == c.sent + Len(ds)
           wire == c.wire \cup ToSet(ds)
           r == [c EXCEPT !.q = t, !.sent = sent, !.wire = wire]
<1>1. /\ c \in ClientType /\ t \in QueuesType
      /\ c.sent \in 0..PacketRate /\ c.wire \in SUBSET Seq(LogicalPackets)
  BY DEF ClientInv, ClientType, QueueInv, Shape
<1>2. sent \in 0..PacketRate
  <2>1. Len(ds) \in Nat
    OBVIOUS
  <2> QED BY <1>1, <2>1, SessionAssumption
<1>3. wire \in SUBSET Seq(LogicalPackets) /\ \A d \in wire : Known(d, b)
  BY <1>1 DEF ToSet, ClientInv
<1>4. Send(c, ds, q) = r
  BY DEF Send
<1> HIDE DEF t, sent, wire
<1>5. r \in ClientType /\ r.q = t /\ r.lastAck = c.lastAck /\ r.wire = wire
  BY <1>1, <1>2, <1>3, Zenon DEF ClientType
<1> HIDE DEF r
<1> QED BY <1>3, <1>4, <1>5 DEF ClientInv, t

\* What leaves the priority queue is tracked again.
LEMMA SendPriorityKeeps ==
  ASSUME NEW b \in Int, NEW c, ClientInv(c, b)
  PROVE  ClientInv(SendPriorityQueue(c), b) /\ Keeps(c.q, SendPriorityQueue(c).q)
<1> DEFINE s == c.q.priority
           n == Allowed(s, c.sent)
           front == SubSeq(s, 1, n)
           back == SubSeq(s, n + 1, Len(s))
           q == [c.q EXCEPT !.priority = back]
           t == Track(q, TrackedOnSend(front))
           Leaves(p) == \E i \in 1..n : Alone(s[i], p)
           Stays(p) == \E i \in 1..(Len(s) - n) : Alone(s[n + i], p)
<1>1. /\ c \in ClientType /\ c.q \in QueuesType /\ QueueInv(c.q, b) /\ TimerSet(c.q)
      /\ c.sent \in 0..PacketRate /\ s \in Seq(Seq(LogicalPackets)) /\ Len(s) \in Nat
  <2>1. /\ c \in ClientType /\ c.q \in QueuesType /\ QueueInv(c.q, b) /\ TimerSet(c.q)
        /\ c.sent \in 0..PacketRate
    BY DEF ClientInv, ClientType, QueueInv, Shape
  <2> QED BY <2>1, QueuesParts
<1>2. n \in 0..Len(s) /\ c.sent + n <= PacketRate
  BY <1>1, AllowedFacts
<1>3. /\ front \in Seq(Seq(LogicalPackets)) /\ DOMAIN front = 1..n /\ Len(front) = n
      /\ \A i \in 1..n : front[i] = s[i]
      /\ back \in Seq(Seq(LogicalPackets)) /\ DOMAIN back = 1..(Len(s) - n)
      /\ \A i \in 1..(Len(s) - n) : back[i] = s[n + i]
  <2> HIDE DEF s, n
  <2> QED BY <1>1, <1>2, Cuts
<1>4. /\ DOMAIN s = 1..Len(s) /\ n \in Nat
      /\ \A i \in 1..n : i \in DOMAIN s
      /\ \A i \in 1..(Len(s) - n) : n + i \in DOMAIN s
      /\ \A i \in DOMAIN s : i \in 1..n \/ (i - n \in 1..(Len(s) - n) /\ n + (i - n) = i)
  <2>1. DOMAIN s = 1..Len(s) /\ n \in Nat /\ n <= Len(s) /\ Len(s) \in Nat
    BY <1>1, <1>2
  <2> HIDE DEF s, n
  <2>2. \A i \in 1..n : i \in DOMAIN s
    BY <2>1
  <2>3. \A i \in 1..(Len(s) - n) : n + i \in DOMAIN s
    BY <2>1
  <2>4. ASSUME NEW i \in DOMAIN s, i \notin 1..n
        PROVE  i - n \in 1..(Len(s) - n) /\ n + (i - n) = i
    BY <2>1, <2>4
  <2> QED BY <2>1, <2>2, <2>3, <2>4
<1> HIDE DEF n, front, back
<1>5. /\ q \in QueuesType /\ q.waiting = c.q.waiting /\ q.timer = c.q.timer
      /\ q.priority = back /\ q.out = c.q.out /\ q.unAck = c.q.unAck
  BY <1>1, <1>3, Zenon DEF QueuesType
<1> HIDE DEF q
<1>6. /\ t \in QueuesType /\ t.waiting = c.q.waiting /\ t.timer = c.q.timer
      /\ t.priority = back /\ t.out = c.q.out
      /\ \A p \in Packets :
           Tracked(t, p) <=> Tracked(q, p) \/ p \in TrackedOnSend(front)
  BY <1>5, TrackFields
<1> HIDE DEF t
<1>7. \A p \in Packets : p \in TrackedOnSend(front) <=> p # 0 /\ Leaves(p)
  BY <1>3, TrackedOnSendFacts, ZenonT(40)
<1>8. \A p \in Packets :
        /\ Waits(t, p) <=> Waits(c.q, p)
        /\ Queued(t, p) <=> Queued(c.q, p)
        /\ Tracked(t, p) <=> Tracked(c.q, p) \/ (p # 0 /\ Leaves(p))
        /\ Resending(t, p) <=> Stays(p)
        /\ Resending(c.q, p) <=> Leaves(p) \/ Stays(p)
        /\ ~(Leaves(p) /\ Stays(p))
  <2> TAKE p \in Packets
  <2>1. Waits(t, p) <=> Waits(c.q, p)
    BY <1>6 DEF Waits
  <2>2. Queued(t, p) <=> Queued(c.q, p)
    BY <1>6 DEF Queued
  <2>3. Tracked(t, p) <=> Tracked(c.q, p) \/ (p # 0 /\ Leaves(p))
    BY <1>5, <1>6, <1>7 DEF Tracked
  <2>4. Resending(t, p) <=> Stays(p)
    BY <1>3, <1>6 DEF Resending
  <2>5. Resending(c.q, p) <=> Leaves(p) \/ Stays(p)
    BY <1>4 DEF Resending
  <2>6. ASSUME Leaves(p), Stays(p) PROVE FALSE
    <3>1. PICK i \in 1..n : Alone(s[i], p)
      BY <2>6
    <3>2. PICK j \in 1..(Len(s) - n) : Alone(s[n + j], p)
      BY <2>6
    <3>3. i \in DOMAIN s /\ n + j \in DOMAIN s /\ i # n + j
      BY <1>1, <1>4, <3>1, <3>2
    <3> QED BY <1>1, <3>1, <3>2, <3>3 DEF QueueInv, NotTwice
  <2> HIDE DEF Leaves, Stays
  <2> QED BY <2>1, <2>2, <2>3, <2>4, <2>5, <2>6
<1>9. Shape(t)
  <2>1. \A i \in DOMAIN t.priority : Len(t.priority[i]) = 1
    <3>1. \A i \in DOMAIN s : Len(s[i]) = 1
      BY <1>1 DEF QueueInv, Shape
    <3>2. \A i \in DOMAIN t.priority :
            n + i \in DOMAIN s /\ t.priority[i] = s[n + i]
      BY <1>3, <1>4, <1>6
    <3> QED BY <3>1, <3>2
  <2> QED BY <1>1, <1>6, <2>1 DEF QueueInv, Shape
<1>10. Bounded(t, b)
  <2>1. \A i \in DOMAIN t.priority : Known(t.priority[i], b)
    BY <1>1, <1>3, <1>4, <1>6, ZenonT(40) DEF QueueInv, Bounded
  <2>2. ASSUME NEW p \in Packets, p > b PROVE ~Tracked(t, p)
    <3>1. ~Leaves(p)
      <4> SUFFICES ASSUME NEW i \in 1..n, Alone(s[i], p) PROVE FALSE
        OBVIOUS
      <4>1. i \in DOMAIN s /\ Known(s[i], b)
        BY <1>1, <1>4 DEF QueueInv, Bounded
      <4>2. s[i] \in Seq(LogicalPackets) /\ 1 \in DOMAIN s[i] /\ s[i][1] = Data(p)
        BY <1>1, <4>1 DEF Alone
      <4> QED BY <2>2, <4>1, <4>2, Names DEF Known, Packets
    <3> QED BY <1>1, <1>8, <2>2, <3>1 DEF QueueInv, Bounded
  <2> QED BY <1>1, <1>6, <2>1, <2>2 DEF QueueInv, Bounded
<1>11. NotTwice(t)
  <2> SUFFICES ASSUME NEW p \in Packets, NEW i \in DOMAIN t.priority, NEW j \in DOMAIN t.priority,
                      Alone(t.priority[i], p), Alone(t.priority[j], p)
               PROVE  i = j
    BY <1>1, <1>6 DEF QueueInv, NotTwice
  <2>1. /\ n + i \in DOMAIN s /\ Alone(s[n + i], p)
        /\ n + j \in DOMAIN s /\ Alone(s[n + j], p)
    BY <1>3, <1>4, <1>6
  <2>2. n + i = n + j
    BY <1>1, <2>1 DEF QueueInv, NotTwice
  <2> QED BY <1>3, <1>4, <1>6, <2>2
<1>12. OnePlace(t)
  <2> HIDE DEF Leaves, Stays
  <2> QED BY <1>1, <1>8 DEF QueueInv, OnePlace
<1>13. Keeps(c.q, t)
  <2> HIDE DEF Leaves, Stays
  <2> QED BY <1>8 DEF Keeps, Somewhere
<1>14. TimerSet(t)
  BY <1>1, <1>6, Zenon DEF TimerSet
<1>15. \A i \in DOMAIN front : Known(front[i], b)
  BY <1>1, <1>3, <1>4 DEF QueueInv, Bounded
<1>16. QueueInv(t, b)
  BY <1>9, <1>10, <1>11, <1>12 DEF QueueInv
<1>17. SendPriorityQueue(c) = Send(c, front, q)
  BY DEF SendPriorityQueue, front, q, back, n
<1>18. ClientInv(Send(c, front, q), b) /\ Send(c, front, q).q = t
  <2>1. c.sent + Len(front) <= PacketRate
    BY <1>2, <1>3
  <2>2. /\ QueueInv(Track(q, TrackedOnSend(front)), b)
        /\ TimerSet(Track(q, TrackedOnSend(front)))
    BY <1>14, <1>16 DEF t
  <2>3. front \in Seq(Seq(LogicalPackets))
    BY <1>3
  <2>4. /\ ClientInv(Send(c, front, q), b)
        /\ Send(c, front, q).q = Track(q, TrackedOnSend(front))
    BY <1>15, <2>1, <2>2, <2>3, SendKeeps
  <2> QED BY <2>4 DEF t
<1> QED BY <1>13, <1>17, <1>18

\* What leaves the out queue is tracked, if it is alone in its datagram.
LEMMA SendOutKeeps ==
  ASSUME NEW b \in Int, NEW c, ClientInv(c, b)
  PROVE  ClientInv(SendOutQueue(c), b) /\ Keeps(c.q, SendOutQueue(c).q)
<1> DEFINE s == c.q.out
           n == Allowed(s, c.sent)
           front == SubSeq(s, 1, n)
           back == SubSeq(s, n + 1, Len(s))
           q == [c.q EXCEPT !.out = back]
           t == Track(q, TrackedOnSend(front))
           Leaves(p) == \E i \in 1..n : Alone(s[i], p)
           Stays(p) == \E i \in 1..(Len(s) - n) : Alone(s[n + i], p)
<1>1. /\ c \in ClientType /\ c.q \in QueuesType /\ QueueInv(c.q, b) /\ TimerSet(c.q)
      /\ c.sent \in 0..PacketRate /\ s \in Seq(Seq(LogicalPackets)) /\ Len(s) \in Nat
  <2>1. /\ c \in ClientType /\ c.q \in QueuesType /\ QueueInv(c.q, b) /\ TimerSet(c.q)
        /\ c.sent \in 0..PacketRate
    BY DEF ClientInv, ClientType, QueueInv, Shape
  <2> QED BY <2>1, QueuesParts
<1>2. n \in 0..Len(s) /\ c.sent + n <= PacketRate
  BY <1>1, AllowedFacts
<1>3. /\ front \in Seq(Seq(LogicalPackets)) /\ DOMAIN front = 1..n /\ Len(front) = n
      /\ \A i \in 1..n : front[i] = s[i]
      /\ back \in Seq(Seq(LogicalPackets)) /\ DOMAIN back = 1..(Len(s) - n)
      /\ \A i \in 1..(Len(s) - n) : back[i] = s[n + i]
  <2> HIDE DEF s, n
  <2> QED BY <1>1, <1>2, Cuts
<1>4. /\ DOMAIN s = 1..Len(s) /\ n \in Nat
      /\ \A i \in 1..n : i \in DOMAIN s
      /\ \A i \in 1..(Len(s) - n) : n + i \in DOMAIN s
      /\ \A i \in DOMAIN s : i \in 1..n \/ (i - n \in 1..(Len(s) - n) /\ n + (i - n) = i)
  <2>1. DOMAIN s = 1..Len(s) /\ n \in Nat /\ n <= Len(s) /\ Len(s) \in Nat
    BY <1>1, <1>2
  <2> HIDE DEF s, n
  <2>2. \A i \in 1..n : i \in DOMAIN s
    BY <2>1
  <2>3. \A i \in 1..(Len(s) - n) : n + i \in DOMAIN s
    BY <2>1
  <2>4. ASSUME NEW i \in DOMAIN s, i \notin 1..n
        PROVE  i - n \in 1..(Len(s) - n) /\ n + (i - n) = i
    BY <2>1, <2>4
  <2> QED BY <2>1, <2>2, <2>3, <2>4
<1> HIDE DEF n, front, back
<1>5. /\ q \in QueuesType /\ q.waiting = c.q.waiting /\ q.timer = c.q.timer
      /\ q.out = back /\ q.priority = c.q.priority /\ q.unAck = c.q.unAck
  BY <1>1, <1>3, Zenon DEF QueuesType
<1> HIDE DEF q
<1>6. /\ t \in QueuesType /\ t.waiting = c.q.waiting /\ t.timer = c.q.timer
      /\ t.out = back /\ t.priority = c.q.priority
      /\ \A p \in Packets :
           Tracked(t, p) <=> Tracked(q, p) \/ p \in TrackedOnSend(front)
  BY <1>5, TrackFields
<1> HIDE DEF t
<1>7. \A p \in Packets : p \in TrackedOnSend(front) <=> p # 0 /\ Leaves(p)
  BY <1>3, TrackedOnSendFacts, ZenonT(40)
<1>8. \A p \in Packets :
        /\ Waits(t, p) <=> Waits(c.q, p)
        /\ Resending(t, p) <=> Resending(c.q, p)
        /\ Tracked(t, p) <=> Tracked(c.q, p) \/ (p # 0 /\ Leaves(p))
        /\ Queued(t, p) <=> Stays(p)
        /\ Queued(c.q, p) <=> Leaves(p) \/ Stays(p)
        /\ ~(Leaves(p) /\ Stays(p))
  <2> TAKE p \in Packets
  <2>1. Waits(t, p) <=> Waits(c.q, p)
    BY <1>6 DEF Waits
  <2>2. Resending(t, p) <=> Resending(c.q, p)
    BY <1>6 DEF Resending
  <2>3. Tracked(t, p) <=> Tracked(c.q, p) \/ (p # 0 /\ Leaves(p))
    BY <1>5, <1>6, <1>7 DEF Tracked
  <2>4. Queued(t, p) <=> Stays(p)
    BY <1>3, <1>6 DEF Queued
  <2>5. Queued(c.q, p) <=> Leaves(p) \/ Stays(p)
    BY <1>4 DEF Queued
  <2>6. ASSUME Leaves(p), Stays(p) PROVE FALSE
    <3>1. PICK i \in 1..n : Alone(s[i], p)
      BY <2>6
    <3>2. PICK j \in 1..(Len(s) - n) : Alone(s[n + j], p)
      BY <2>6
    <3>3. i \in DOMAIN s /\ n + j \in DOMAIN s /\ i # n + j
      BY <1>1, <1>4, <3>1, <3>2
    <3> QED BY <1>1, <3>1, <3>2, <3>3 DEF QueueInv, NotTwice
  <2> HIDE DEF Leaves, Stays
  <2> QED BY <2>1, <2>2, <2>3, <2>4, <2>5, <2>6
<1>9. Shape(t)
  BY <1>1, <1>3, <1>4, <1>6 DEF QueueInv, Shape
<1>10. Bounded(t, b)
  <2>1. \A i \in DOMAIN t.out : Known(t.out[i], b)
    BY <1>1, <1>3, <1>4, <1>6, ZenonT(40) DEF QueueInv, Bounded
  <2>2. ASSUME NEW p \in Packets, p > b PROVE ~Tracked(t, p)
    <3>1. ~Leaves(p)
      <4> SUFFICES ASSUME NEW i \in 1..n, Alone(s[i], p) PROVE FALSE
        OBVIOUS
      <4>1. i \in DOMAIN s /\ Known(s[i], b)
        BY <1>1, <1>4 DEF QueueInv, Bounded
      <4>2. s[i] \in Seq(LogicalPackets) /\ 1 \in DOMAIN s[i] /\ s[i][1] = Data(p)
        BY <1>1, <4>1 DEF Alone
      <4> QED BY <2>2, <4>1, <4>2, Names DEF Known, Packets
    <3> QED BY <1>1, <1>8, <2>2, <3>1 DEF QueueInv, Bounded
  <2> QED BY <1>1, <1>6, <2>1, <2>2 DEF QueueInv, Bounded
<1>11. NotTwice(t)
  <2> SUFFICES ASSUME NEW p \in Packets, NEW i \in DOMAIN t.out, NEW j \in DOMAIN t.out,
                      Alone(t.out[i], p), Alone(t.out[j], p)
               PROVE  i = j
    BY <1>1, <1>6 DEF QueueInv, NotTwice
  <2>1. /\ n + i \in DOMAIN s /\ Alone(s[n + i], p)
        /\ n + j \in DOMAIN s /\ Alone(s[n + j], p)
    BY <1>3, <1>4, <1>6
  <2>2. n + i = n + j
    BY <1>1, <2>1 DEF QueueInv, NotTwice
  <2> QED BY <1>3, <1>4, <1>6, <2>2
<1>12. OnePlace(t)
  <2> HIDE DEF Leaves, Stays
  <2> QED BY <1>1, <1>8 DEF QueueInv, OnePlace
<1>13. Keeps(c.q, t)
  <2> HIDE DEF Leaves, Stays
  <2> QED BY <1>8 DEF Keeps, Somewhere
<1>14. TimerSet(t)
  BY <1>1, <1>6, Zenon DEF TimerSet
<1>15. \A i \in DOMAIN front : Known(front[i], b)
  BY <1>1, <1>3, <1>4 DEF QueueInv, Bounded
<1>16. QueueInv(t, b)
  BY <1>9, <1>10, <1>11, <1>12 DEF QueueInv
<1>17. SendOutQueue(c) = Send(c, front, q)
  BY DEF SendOutQueue, front, q, back, n
<1>18. ClientInv(Send(c, front, q), b) /\ Send(c, front, q).q = t
  <2>1. c.sent + Len(front) <= PacketRate
    BY <1>2, <1>3
  <2>2. /\ QueueInv(Track(q, TrackedOnSend(front)), b)
        /\ TimerSet(Track(q, TrackedOnSend(front)))
    BY <1>14, <1>16 DEF t
  <2>3. front \in Seq(Seq(LogicalPackets))
    BY <1>3
  <2>4. /\ ClientInv(Send(c, front, q), b)
        /\ Send(c, front, q).q = Track(q, TrackedOnSend(front))
    BY <1>15, <2>1, <2>2, <2>3, SendKeeps
  <2> QED BY <2>4 DEF t
<1> QED BY <1>13, <1>17, <1>18

\* Changing the warning alone.
LEMMA NewIssues ==
  ASSUME NEW b, NEW c, ClientInv(c, b), NEW v \in BOOLEAN
  PROVE  LET r == [c EXCEPT !.issues = v] IN ClientInv(r, b) /\ r.q = c.q
<1> DEFINE r == [c EXCEPT !.issues = v]
<1>1. r \in ClientType /\ r.q = c.q /\ r.lastAck = c.lastAck /\ r.wire = c.wire
  BY Zenon DEF ClientInv, ClientType
<1> HIDE DEF r
<1> QED BY <1>1 DEF ClientInv, r

\* checkClientOutQueues: both queues are served within one rate limit, and no
\* packet but 0 is forgotten.
LEMMA CheckQueuesKeeps ==
  ASSUME NEW b \in Int, NEW c, ClientInv(c, b)
  PROVE  ClientInv(CheckQueues(c), b) /\ Keeps(c.q, CheckQueues(c).q)
<1> DEFINE warned == c.issues \/ Len(c.q.priority) > PacketRate
           busy == [c EXCEPT !.issues = warned]
           idle == [c EXCEPT !.issues = FALSE]
           checked == IF c.q.priority # <<>> THEN SendPriorityQueue(busy) ELSE idle
<1>1. warned \in BOOLEAN
  OBVIOUS
<1>2. ClientInv(busy, b) /\ busy.q = c.q
  <2> HIDE DEF warned
  <2> QED BY <1>1, NewIssues
<1>3. ClientInv(idle, b) /\ idle.q = c.q
  BY NewIssues, Zenon
<1> HIDE DEF busy, idle
<1>4. ClientInv(checked, b) /\ Keeps(c.q, checked.q)
  <2>1. CASE c.q.priority # <<>>
    <3>1. checked = SendPriorityQueue(busy)
      BY <2>1
    <3> QED BY <1>2, <3>1, SendPriorityKeeps
  <2>2. CASE c.q.priority = <<>>
    <3>1. checked = idle
      BY <2>2
    <3> QED BY <1>3, <3>1 DEF Keeps
  <2> QED BY <2>1, <2>2
<1>5. CheckQueues(c) = SendOutQueue(checked)
  BY DEF CheckQueues, checked, busy, idle, warned
<1> HIDE DEF checked
<1>6. /\ ClientInv(SendOutQueue(checked), b)
      /\ Keeps(checked.q, SendOutQueue(checked).q)
  BY <1>4, SendOutKeeps
<1> QED BY <1>4, <1>5, <1>6 DEF Keeps

(***************************************************************************)
(* The other changes of the queues.                                        *)
(***************************************************************************)

\* Packets stop being tracked, or their timers run out.
LEMMA Untracks ==
  ASSUME NEW b \in Int, NEW q, QueueInv(q, b), TimerSet(q),
         NEW u \in [Packets -> {"none", "fresh", "due"}],
         \A p \in Packets : u[p] # "none" => Tracked(q, p)
  PROVE  LET r == [q EXCEPT !.unAck = u]
         IN  /\ QueueInv(r, b) /\ TimerSet(r)
             /\ \A p \in Packets :
                  Somewhere(q, p) /\ (Tracked(q, p) => u[p] # "none") => Somewhere(r, p)
<1> DEFINE r == [q EXCEPT !.unAck = u]
<1>1. q \in QueuesType
  BY DEF QueueInv, Shape
<1>2. /\ r \in QueuesType /\ r.waiting = q.waiting /\ r.timer = q.timer
      /\ r.out = q.out /\ r.priority = q.priority /\ r.unAck = u
  BY <1>1, Zenon DEF QueuesType
<1> HIDE DEF r
<1>3. \A p \in Packets : /\ Waits(r, p) <=> Waits(q, p)
                         /\ Queued(r, p) <=> Queued(q, p)
                         /\ Resending(r, p) <=> Resending(q, p)
                         /\ Tracked(r, p) <=> u[p] # "none"
  BY <1>2 DEF Waits, Queued, Resending, Tracked
<1>4. Shape(r) /\ NotTwice(r)
  BY <1>2 DEF QueueInv, Shape, NotTwice
<1>5. Bounded(r, b)
  BY <1>2, <1>3 DEF QueueInv, Bounded
<1>6. OnePlace(r)
  BY <1>3 DEF QueueInv, OnePlace
<1>7. TimerSet(r)
  BY <1>2, Zenon DEF TimerSet
<1>8. \A p \in Packets :
        Somewhere(q, p) /\ (Tracked(q, p) => u[p] # "none") => Somewhere(r, p)
  BY <1>3 DEF Somewhere
<1> QED BY <1>4, <1>5, <1>6, <1>7, <1>8 DEF QueueInv, r

\* A control packet joins the priority queue.
LEMMA Prioritizes ==
  ASSUME NEW b \in Int, NEW q, QueueInv(q, b), TimerSet(q), NEW packet \in LogicalPackets,
         packet.name # "Data"
  PROVE  LET r == Prioritize(q, packet)
         IN  QueueInv(r, b) /\ TimerSet(r) /\ Keeps(q, r)
<1> DEFINE r == Prioritize(q, packet)
           n == Len(q.priority)
<1>1. q \in QueuesType /\ q.priority \in Seq(Seq(LogicalPackets)) /\ n \in Nat
  <2>1. q \in QueuesType
    BY DEF QueueInv, Shape
  <2> QED BY <2>1, QueuesParts
<1>2. Append(q.priority, <<packet>>) \in Seq(Seq(LogicalPackets))
  BY <1>1
<1>3. /\ r \in QueuesType /\ r.waiting = q.waiting /\ r.timer = q.timer
      /\ r.out = q.out /\ r.priority = Append(q.priority, <<packet>>)
      /\ r.unAck = q.unAck
  BY <1>1, <1>2, Zenon DEF Prioritize, QueuesType
<1> HIDE DEF r
<1>4. /\ DOMAIN r.priority = DOMAIN q.priority \cup {n + 1}
      /\ \A i \in DOMAIN q.priority : r.priority[i] = q.priority[i]
      /\ r.priority[n + 1] = <<packet>>
  BY <1>1, <1>3
<1>5. \A p \in Packets : ~Alone(<<packet>>, p)
  BY Names DEF Alone
<1>6. \A p \in Packets : /\ Waits(r, p) <=> Waits(q, p)
                         /\ Queued(r, p) <=> Queued(q, p)
                         /\ Tracked(r, p) <=> Tracked(q, p)
                         /\ Resending(r, p) <=> Resending(q, p)
  <2>1. \A p \in Packets : Resending(r, p) <=> Resending(q, p)
    BY <1>4, <1>5 DEF Resending
  <2> QED BY <1>3, <2>1 DEF Waits, Queued, Tracked
<1>7. Shape(r)
  <2>1. \A i \in DOMAIN r.priority : Len(r.priority[i]) = 1
    <3>1. \A i \in DOMAIN q.priority : Len(q.priority[i]) = 1
      BY DEF QueueInv, Shape
    <3>2. Len(<<packet>>) = 1
      OBVIOUS
    <3> QED BY <1>4, <3>1, <3>2
  <2> QED BY <1>3, <2>1 DEF QueueInv, Shape
<1>8. Bounded(r, b)
  <2>1. Known(<<packet>>, b)
    BY DEF Known
  <2>2. \A i \in DOMAIN r.priority : Known(r.priority[i], b)
    BY <1>4, <2>1 DEF QueueInv, Bounded
  <2> QED BY <1>3, <1>6, <2>2 DEF QueueInv, Bounded
<1>9. NotTwice(r)
  BY <1>3, <1>4, <1>5 DEF QueueInv, NotTwice
<1>10. OnePlace(r)
  BY <1>6 DEF QueueInv, OnePlace
<1>11. TimerSet(r)
  BY <1>3, Zenon DEF TimerSet
<1>12. Keeps(q, r)
  BY <1>6 DEF Keeps, Somewhere
<1> QED BY <1>7, <1>8, <1>9, <1>10, <1>11, <1>12 DEF QueueInv, r

\* What is not beyond b is not beyond a larger bound.
LEMMA Wider ==
  ASSUME NEW a \in Int, NEW b \in Int, a <= b
  PROVE  /\ \A q : QueueInv(q, a) => QueueInv(q, b)
         /\ \A d \in Seq(LogicalPackets) : Known(d, a) => Known(d, b)
<1>1. \A d \in Seq(LogicalPackets) : Known(d, a) => Known(d, b)
  <2> SUFFICES ASSUME NEW d \in Seq(LogicalPackets), Known(d, a),
                      NEW i \in DOMAIN d, d[i].name = "Data"
               PROVE  d[i].seq <= b
    BY DEF Known
  <2>1. d[i].seq \in Packets /\ d[i].seq <= a
    BY Names DEF Known
  <2> QED BY <2>1 DEF Packets
<1>2. ASSUME NEW q, QueueInv(q, a) PROVE QueueInv(q, b)
  <2>1. /\ q.waiting \in Seq(LogicalPackets)
        /\ q.out \in Seq(Seq(LogicalPackets))
        /\ q.priority \in Seq(Seq(LogicalPackets))
    BY <1>2, QueuesParts DEF QueueInv, Shape
  <2>2. \A p \in Packets : p > b => p > a
    BY DEF Packets
  <2>3. Bounded(q, b)
    BY <1>1, <1>2, <2>1, <2>2 DEF QueueInv, Bounded
  <2> QED BY <1>2, <2>3 DEF QueueInv
<1> QED BY <1>1, <1>2

(***************************************************************************)
(* The invariant of the state, whatever the network does.                  *)
(***************************************************************************)
Reply == [name : {"Ack", "OutOfOrder"}, seq : Packets]

OutputInv ==
  /\ sequence \in -1..(StreamLen - 1)
  /\ sequence + 1 \in Packets => HeadOf[sequence + 1] = sequence + 1
  /\ outputAck \in SequenceSpace \cup {-1}
  /\ cache \subseteq Packets

QueuesInv == QueueInv(queues, sequence) /\ TimerSet(queues)

RoutineInv ==
  /\ sentThisSec \in 0..PacketRate
  /\ issues \in BOOLEAN
  /\ ackDue \in BOOLEAN
  /\ nextAck \in -1..(InboundLen - 1)
  /\ lastAck \in -1..(InboundLen - 1)
  /\ lastAck <= nextAck
  /\ outOfOrder \in Seq(0..(InboundLen - 1))

WiresInv ==
  /\ network \subseteq Seq(LogicalPackets)
  /\ \A d \in network : Known(d, sequence)
  /\ answers \in [Ack : SUBSET (0..(InboundLen - 1)),
                  OutOfOrder : SUBSET (0..(InboundLen - 1))]

PeerInv ==
  /\ received \subseteq Packets
  /\ \A p \in received : p <= sequence
  /\ peerAck \in Packets \cup {-1}
  /\ 0..peerAck \subseteq received
  /\ replies \in Seq(Reply)
  /\ Len(replies) <= MaxReplies
  /\ arrivals \in 0..MaxArrivals

StateInv == OutputInv /\ QueuesInv /\ RoutineInv /\ WiresInv /\ PeerInv

\* The sequence numbers in datagrams.
LEMMA NamedFacts ==
  ASSUME NEW d \in Seq(LogicalPackets)
  PROVE  /\ Named(d, "Data") \subseteq Packets
         /\ Named(d, "Ack") \subseteq 0..(InboundLen - 1)
         /\ Named(d, "OutOfOrder") \subseteq 0..(InboundLen - 1)
         /\ \A b : Known(d, b) => \A p \in Named(d, "Data") : p <= b
<1>1. \A i \in DOMAIN d : d[i] \in LogicalPackets
  OBVIOUS
<1> QED BY <1>1, Names DEF Named, Known

\* The same of sets of datagrams.
LEMMA SentFacts ==
  ASSUME NEW ds \in SUBSET Seq(LogicalPackets)
  PROVE  /\ Sent(ds, "Ack") \subseteq 0..(InboundLen - 1)
         /\ Sent(ds, "OutOfOrder") \subseteq 0..(InboundLen - 1)
<1>1. \A d \in ds : /\ Named(d, "Ack") \subseteq 0..(InboundLen - 1)
                    /\ Named(d, "OutOfOrder") \subseteq 0..(InboundLen - 1)
  BY NamedFacts
<1> QED BY <1>1 DEF Sent

\* A run of the routine takes the client to one that satisfies the invariant,
\* and forgets no packet that is cached.
LEMMA RoutineClient ==
  ASSUME StateInv, Routine
  PROVE  \E c : /\ ClientInv(c, sequence)
                /\ \A p \in Packets \ {0} :
                     p \in cache /\ Somewhere(queues, p) => Somewhere(c.q, p)
                /\ RoutineEnds(c)
<1> DEFINE b == sequence
<1>0. b \in Int /\ nextAck \in -1..(InboundLen - 1)
  BY DEF StateInv, OutputInv, RoutineInv
<1>1. ClientInv(Client, b) /\ Client.q = queues
  <2>1. Client \in ClientType
    BY DEF Client, ClientType, StateInv, QueuesInv, QueueInv, Shape, RoutineInv
  <2>2. Client.q = queues /\ Client.lastAck = lastAck /\ Client.wire = {}
    BY DEF Client
  <2> QED BY <2>1, <2>2 DEF ClientInv, StateInv, QueuesInv, RoutineInv
<1> DEFINE acks == IF ackDue \/ issues THEN CheckOutOfOrder(CheckAck(Client)) ELSE Client
<1>2. ClientInv(acks, b) /\ Keeps(queues, acks.q)
  <2>1. CASE ackDue \/ issues
    <3> DEFINE a == CheckAck(Client)
    <3>1. ClientInv(a, b) /\ Keeps(queues, a.q)
      BY <1>0, <1>1, CheckAckKeeps
    <3> HIDE DEF a
    <3>2. (Len(a.outOfOrder) + 1) \div 2 \in 0..Len(a.outOfOrder)
      <4>1. a.outOfOrder \in Seq(0..(InboundLen - 1))
        BY <3>1 DEF ClientInv, ClientType
      <4>2. Len(a.outOfOrder) \in Nat
        BY <4>1
      <4> DEFINE l == Len(a.outOfOrder)
      <4> HIDE DEF l
      <4>3. l \in Nat => (l + 1) \div 2 \in 0..l
        OBVIOUS
      <4> QED BY <4>2, <4>3 DEF l
    <3>3. /\ ClientInv(CheckOutOfOrder(a), b)
          /\ Keeps(a.q, CheckOutOfOrder(a).q)
      BY <1>0, <3>1, <3>2, ReportKeeps DEF CheckOutOfOrder
    <3>4. acks = CheckOutOfOrder(a)
      BY <2>1 DEF a
    <3> QED BY <3>1, <3>3, <3>4 DEF Keeps
  <2>2. CASE ~(ackDue \/ issues)
    <3>1. acks = Client
      BY <2>2
    <3> QED BY <1>1, <3>1 DEF Keeps
  <2> QED BY <2>1, <2>2
<1> HIDE DEF acks
<1>3. PICK order \in SetToSeqs(Due(acks) \cap cache) :
        RoutineEnds(CheckQueues(IF issues THEN acks ELSE CheckResend(acks, order)))
  BY DEF Routine, acks
<1> DEFINE resent == IF issues THEN acks ELSE CheckResend(acks, order)
           c == CheckQueues(resent)
<1>4. /\ ClientInv(resent, b)
      /\ \A p \in Packets \ {0} :
           p \in cache /\ Somewhere(queues, p) => Somewhere(resent.q, p)
  <2>1. CASE issues
    <3>1. resent = acks
      BY <2>1
    <3> QED BY <1>2, <3>1 DEF Keeps
  <2>2. CASE ~issues
    <3>1. resent = CheckResend(acks, order)
      BY <2>2
    <3>2. /\ ClientInv(CheckResend(acks, order), b)
          /\ \A p \in Packets \ {0} : p \in cache /\ Somewhere(acks.q, p) =>
               Somewhere(CheckResend(acks, order).q, p)
      BY <1>0, <1>2, CheckResendKeeps
    <3> QED BY <1>2, <3>1, <3>2 DEF Keeps
  <2> QED BY <2>1, <2>2
<1>5. ClientInv(c, b) /\ Keeps(resent.q, c.q)
  <2> HIDE DEF resent
  <2> QED BY <1>0, <1>4, CheckQueuesKeeps
<1>6. RoutineEnds(c)
  BY <1>3
<1> HIDE DEF c, resent
<1>7. \A p \in Packets \ {0} :
        p \in cache /\ Somewhere(queues, p) => Somewhere(c.q, p)
  BY <1>4, <1>5 DEF Keeps
<1> QED BY <1>5, <1>6, <1>7

\* The invariant holds when the session starts.
LEMMA InitState == Init => StateInv
<1> SUFFICES ASSUME Init PROVE StateInv
  OBVIOUS
<1>1. OutputInv
  <2>1. HeadOf[0] = 0
    BY StreamAssumption DEF Packets
  <2> QED BY <2>1, StreamAssumption DEF Init, OutputInv
<1>2. QueuesInv
  <2> DEFINE reply == <<Control("SessionReply")>>
             q == [waiting |-> <<>>, timer |-> FALSE, out |-> <<>>,
                   priority |-> <<reply>>, unAck |-> [p \in Packets |-> "none"]]
  <2>1. queues = q
    BY DEF Init
  <2>2. /\ reply \in Seq(LogicalPackets) /\ Len(reply) = 1
        /\ \A i \in DOMAIN reply : reply[i].name # "Data"
    <3>1. Control("SessionReply") \in LogicalPackets /\ Control("SessionReply").name = "SessionReply"
      BY Names
    <3> QED BY <3>1
  <2> HIDE DEF reply
  <2>3. /\ <<>> \in Seq(LogicalPackets) /\ <<>> \in Seq(Seq(LogicalPackets))
        /\ <<reply>> \in Seq(Seq(LogicalPackets))
        /\ [p \in Packets |-> "none"] \in [Packets -> {"none", "fresh", "due"}]
    BY <2>2
  <2>4. q \in QueuesType /\ q.timer = FALSE
    BY <2>3 DEF QueuesType
  <2>5. /\ q.waiting = <<>> /\ q.out = <<>> /\ q.priority = <<reply>>
        /\ q.unAck = [p \in Packets |-> "none"]
    OBVIOUS
  <2> HIDE DEF q
  <2>6. \A p \in Packets : ~Alone(reply, p)
    BY <2>2, Names DEF Alone
  <2>7. \A p \in Packets : /\ ~Tracked(q, p) /\ ~Waits(q, p)
                           /\ ~Queued(q, p) /\ ~Resending(q, p)
    BY <2>5, <2>6 DEF Tracked, Waits, Queued, Resending
  <2>8. Shape(q)
    BY <2>2, <2>4, <2>5, SessionAssumption DEF Shape
  <2>9. Bounded(q, sequence)
    BY <2>2, <2>5, <2>7 DEF Bounded, Known
  <2>10. OnePlace(q)
    BY <2>7 DEF OnePlace
  <2>11. NotTwice(q)
    BY <2>5, <2>6 DEF NotTwice
  <2>12. TimerSet(q)
    BY <2>4, <2>5, Zenon DEF TimerSet
  <2> QED BY <2>1, <2>8, <2>9, <2>10, <2>11, <2>12 DEF QueuesInv, QueueInv
<1>3. RoutineInv
  <2>1. issues \in BOOLEAN /\ ackDue \in BOOLEAN
    BY Zenon DEF Init
  <2>2. /\ sentThisSec \in 0..PacketRate
        /\ nextAck \in -1..(InboundLen - 1) /\ lastAck \in -1..(InboundLen - 1)
        /\ lastAck <= nextAck
        /\ outOfOrder \in Seq(0..(InboundLen - 1))
    BY SessionAssumption DEF Init
  <2> QED BY <2>1, <2>2 DEF RoutineInv
<1>4. WiresInv
  BY DEF Init, WiresInv
<1>5. PeerInv
  BY SessionAssumption DEF Init, PeerInv
<1> QED BY <1>1, <1>2, <1>3, <1>4, <1>5 DEF StateInv

\* The routine keeps the invariant.
LEMMA RoutineState ==
  ASSUME StateInv, Routine PROVE StateInv'
<1>1. PICK c : ClientInv(c, sequence) /\ RoutineEnds(c)
  BY RoutineClient
<1>2. /\ c \in ClientType /\ QueueInv(c.q, sequence) /\ TimerSet(c.q)
      /\ c.lastAck <= nextAck /\ \A d \in c.wire : Known(d, sequence)
  BY <1>1 DEF ClientInv
<1>3. /\ queues' = c.q /\ lastAck' = c.lastAck /\ outOfOrder' = c.outOfOrder
      /\ issues' = c.issues /\ sentThisSec' = c.sent
      /\ network' = network \cup {d \in c.wire : Named(d, "Data") # {}}
      /\ answers' = [Ack |-> answers.Ack \cup Sent(c.wire, "Ack"),
                     OutOfOrder |-> answers.OutOfOrder \cup Sent(c.wire, "OutOfOrder")]
      /\ ackDue' = FALSE /\ nextAck' = nextAck
      /\ sequence' = sequence /\ outputAck' = outputAck /\ cache' = cache
      /\ received' = received /\ peerAck' = peerAck /\ replies' = replies
      /\ arrivals' = arrivals
  BY <1>1 DEF RoutineEnds, output, peer
<1>4. OutputInv'
  BY <1>3 DEF StateInv, OutputInv
<1>5. QueuesInv'
  BY <1>2, <1>3 DEF QueuesInv
<1>6. RoutineInv'
  BY <1>2, <1>3 DEF StateInv, RoutineInv, ClientType
<1>7. WiresInv'
  <2>1. c.wire \in SUBSET Seq(LogicalPackets)
    BY <1>2 DEF ClientType
  <2>2. /\ Sent(c.wire, "Ack") \subseteq 0..(InboundLen - 1)
        /\ Sent(c.wire, "OutOfOrder") \subseteq 0..(InboundLen - 1)
    BY <2>1, SentFacts
  <2>3. answers' \in [Ack : SUBSET (0..(InboundLen - 1)),
                      OutOfOrder : SUBSET (0..(InboundLen - 1))]
    BY <1>3, <2>2 DEF StateInv, WiresInv
  <2>4. network' \subseteq Seq(LogicalPackets) /\ \A d \in network' : Known(d, sequence)
    BY <1>2, <1>3, <2>1 DEF StateInv, WiresInv
  <2> QED BY <1>3, <2>3, <2>4 DEF WiresInv
<1>8. PeerInv'
  BY <1>3 DEF StateInv, PeerInv
<1> QED BY <1>4, <1>5, <1>6, <1>7, <1>8 DEF StateInv

\* The messages tile the stream: behind one message the next one starts.
LEMMA NextHead ==
  ASSUME NEW h \in Packets, HeadOf[h] = h
  PROVE  /\ h + SizeOf[h] - 1 \in Packets /\ h <= h + SizeOf[h] - 1
         /\ SizeOf[h] \in Nat \ {0}
         /\ h + SizeOf[h] \in Packets => HeadOf[h + SizeOf[h]] = h + SizeOf[h]
<1>1. /\ StreamLen \in Nat /\ SizeOf[h] \in Nat \ {0} /\ h + SizeOf[h] <= StreamLen
      /\ h \in 0..(StreamLen - 1)
      /\ \A q \in h..(h + SizeOf[h] - 1) : HeadOf[q] = h /\ SizeOf[q] = SizeOf[h]
  BY StreamAssumption DEF Packets
<1>2. h + SizeOf[h] - 1 \in Packets /\ h <= h + SizeOf[h] - 1
  BY <1>1 DEF Packets
<1>3. ASSUME h + SizeOf[h] \in Packets
      PROVE  HeadOf[h + SizeOf[h]] = h + SizeOf[h]
  <2> DEFINE n == h + SizeOf[h]
             g == HeadOf[n]
  <2>1. /\ g \in Packets /\ SizeOf[n] \in Nat \ {0} /\ g <= n /\ n < g + SizeOf[n]
    BY <1>3, StreamAssumption
  <2>2. \A q \in g..(g + SizeOf[n] - 1) : HeadOf[q] = g /\ SizeOf[q] = SizeOf[n]
    BY <1>3, StreamAssumption
  <2>3. ASSUME g < n PROVE FALSE
    <3>1. n - 1 \in g..(g + SizeOf[n] - 1) /\ n - 1 \in h..(h + SizeOf[h] - 1)
      BY <1>1, <1>3, <2>1, <2>3 DEF Packets
    <3>2. g = h /\ SizeOf[n] = SizeOf[h]
      BY <1>1, <2>2, <3>1
    <3> QED BY <1>1, <2>1, <3>2
  <2> QED BY <1>1, <2>1, <2>3 DEF Packets
<1> QED BY <1>1, <1>2, <1>3

\* The packets of a message are new, and all of them enter the queues.
LEMMA MessageSent ==
  ASSUME StateInv, NEW h \in Packets, h = sequence + 1, NEW last, last = sequence + SizeOf[h],
         NEW unbuffered
  PROVE  LET r == SendAll(queues, [i \in 1..SizeOf[h] |-> Data(Message(h)[i])], {}, unbuffered)
         IN  /\ QueueInv(r, last) /\ TimerSet(r) /\ Keeps(queues, r)
             /\ \A p \in (h..last) \ {0} : Somewhere(r, p)
<1> DEFINE n == SizeOf[h]
           packets == [i \in 1..n |-> Data(Message(h)[i])]
           r == SendAll(queues, packets, {}, unbuffered)
<1>1. /\ sequence \in Int /\ h \in Int /\ n \in Nat \ {0} /\ last = h + n - 1
      /\ last \in Packets /\ last \in Int /\ sequence <= last
  <2>1. /\ h + SizeOf[h] - 1 \in Packets /\ SizeOf[h] \in Nat \ {0}
    BY NextHead DEF StateInv, OutputInv
  <2> QED BY <2>1 DEF StateInv, OutputInv, Packets
<1>2. \A i \in 1..n : /\ Message(h)[i] = h + i - 1
                      /\ h + i - 1 \in Packets /\ h + i - 1 \in h..last
                      /\ sequence < h + i - 1
  <2>1. \A i \in 1..n : Message(h)[i] = h + i - 1
    BY DEF Message
  <2>2. \A i \in 1..n : h + i - 1 \in h..last
    <3> HIDE DEF n
    <3> QED BY <1>1
  <2>3. \A x \in h..last : x \in Packets /\ sequence < x
    <3> HIDE DEF n
    <3> QED BY <1>1, StreamAssumption DEF Packets
  <2> QED BY <2>1, <2>2, <2>3
<1>3. /\ DOMAIN packets = 1..n
      /\ \A i \in 1..n : /\ packets[i] = Data(h + i - 1) /\ packets[i] \in LogicalPackets
                         /\ packets[i].name = "Data" /\ packets[i].seq = h + i - 1
  BY <1>2, Names
<1>4. packets \in Seq(LogicalPackets)
  <2>1. packets = [i \in 1..n |-> packets[i]] /\ n \in Nat
    BY <1>1
  <2>2. \A i \in 1..n : packets[i] \in LogicalPackets
    BY <1>3
  <2> HIDE DEF packets, n
  <2> QED BY <2>1, <2>2
<1> HIDE DEF packets, n
<1>5. QueueInv(queues, sequence) /\ TimerSet(queues)
  BY DEF StateInv, QueuesInv
<1>6. QueueInv(queues, last)
  BY <1>1, <1>5, Wider
<1>7. \A p \in Packets : p > sequence => ~Somewhere(queues, p)
  <2> SUFFICES ASSUME NEW p \in Packets, p > sequence, Somewhere(queues, p) PROVE FALSE
    OBVIOUS
  <2>1. Shape(queues) /\ Bounded(queues, sequence)
    BY <1>5 DEF QueueInv
  <2>2. Data(p).name = "Data" /\ Data(p).seq = p /\ ~(p <= sequence)
    BY <1>1, Names DEF Packets
  <2>3. ~Tracked(queues, p)
    BY <2>1 DEF Bounded
  <2>4. ~Waits(queues, p)
    BY <2>1, <2>2 DEF Bounded, Known, Waits
  <2>5. ASSUME NEW d \in Seq(LogicalPackets), Known(d, sequence), Alone(d, p) PROVE FALSE
    <3>1. 1 \in DOMAIN d /\ d[1] = Data(p)
      BY <2>5 DEF Alone
    <3> QED BY <2>2, <2>5, <3>1 DEF Known
  <2>6. /\ queues.out \in Seq(Seq(LogicalPackets))
        /\ queues.priority \in Seq(Seq(LogicalPackets))
    BY <2>1, QueuesParts DEF Shape
  <2>7. ~Queued(queues, p)
    BY <2>1, <2>5, <2>6 DEF Bounded, Queued
  <2>8. ~Resending(queues, p)
    BY <2>1, <2>5, <2>6 DEF Bounded, Resending
  <2> QED BY <2>3, <2>4, <2>7, <2>8 DEF Somewhere
<1>8. \A i \in DOMAIN packets : New(queues, packets[i], last)
  <2> TAKE i \in DOMAIN packets
  <2>1. packets[i].seq = h + i - 1 /\ h + i - 1 \in Packets /\ h + i - 1 <= last
        /\ h + i - 1 > sequence
    <3>1. i \in 1..n /\ i \in Int
      BY <1>3
    <3>2. h + i - 1 \in h..last /\ sequence < h + i - 1 /\ h + i - 1 \in Packets
      BY <1>2, <3>1
    <3> QED BY <1>1, <1>3, <3>1, <3>2
  <2> QED BY <1>7, <2>1 DEF New
<1>9. \A i, j \in DOMAIN packets :
        packets[i].name = "Data" /\ packets[i] = packets[j] => i = j
  <2> TAKE i, j \in DOMAIN packets
  <2>1. packets[i].seq = h + i - 1 /\ packets[j].seq = h + j - 1 /\ i \in Int /\ j \in Int
    BY <1>3
  <2> QED BY <1>1, <2>1
<1>10. /\ QueueInv(r, last) /\ TimerSet(r) /\ Keeps(queues, r)
       /\ \A i \in DOMAIN packets : \A p \in Packets \ {0} :
            packets[i] = Data(p) /\ packets[i] \notin {} => Somewhere(r, p)
  BY <1>1, <1>4, <1>5, <1>6, <1>8, <1>9, SendAllAdds
<1>11. \A p \in (h..last) \ {0} : Somewhere(r, p)
  <2> TAKE p \in (h..last) \ {0}
  <2>1. p - h + 1 \in 1..n /\ h + (p - h + 1) - 1 = p
    BY <1>1
  <2>2. p \in Packets /\ packets[p - h + 1] = Data(p) /\ p - h + 1 \in DOMAIN packets
    BY <1>2, <1>3, <2>1
  <2> HIDE DEF r
  <2> QED BY <1>10, <2>2
<1> QED BY <1>10, <1>11 DEF packets, n

\* A message of the application keeps it: its packets are new.
LEMMA SendAppDataState ==
  ASSUME StateInv, NEW unbuffered, SendAppData(unbuffered) PROVE StateInv'
<1> DEFINE h == sequence + 1
<1>1. /\ h \in Packets /\ sequence' = sequence + SizeOf[h]
      /\ cache' = cache \cup (h..sequence')
      /\ queues' = SendAll(queues, [i \in 1..SizeOf[h] |-> Data(Message(h)[i])], {}, unbuffered)
      /\ UNCHANGED <<outputAck, sentThisSec, issues, inbound, wires, peer>>
  BY DEF SendAppData
<1>2. /\ sequence' \in Packets /\ h <= sequence' /\ sequence <= sequence'
      /\ sequence \in Int /\ sequence' \in Int
      /\ sequence' + 1 \in Packets => HeadOf[sequence' + 1] = sequence' + 1
  <2>1. /\ h + SizeOf[h] - 1 \in Packets /\ h <= h + SizeOf[h] - 1
        /\ SizeOf[h] \in Nat \ {0}
        /\ h + SizeOf[h] \in Packets => HeadOf[h + SizeOf[h]] = h + SizeOf[h]
    BY <1>1, NextHead DEF StateInv, OutputInv
  <2>2. sequence \in Int
    BY DEF StateInv, OutputInv
  <2>3. sequence' = h + SizeOf[h] - 1 /\ sequence' + 1 = h + SizeOf[h]
    BY <1>1, <2>1, <2>2
  <2> QED BY <2>1, <2>2, <2>3 DEF Packets
<1>3. OutputInv'
  <2>1. \A x \in h..sequence' : x \in Packets
    <3>1. h \in 0..(StreamLen - 1) /\ sequence' \in 0..(StreamLen - 1)
      BY <1>1, <1>2 DEF Packets
    <3> HIDE DEF h
    <3> QED BY <3>1, StreamAssumption DEF Packets
  <2>2. cache' \subseteq Packets
    BY <1>1, <2>1 DEF StateInv, OutputInv
  <2> QED BY <1>1, <1>2, <2>2 DEF StateInv, OutputInv, Packets
<1>4. QueuesInv'
  BY <1>1, MessageSent DEF QueuesInv
<1>5. RoutineInv'
  BY <1>1 DEF StateInv, RoutineInv, inbound
<1>6. WiresInv'
  BY <1>1, <1>2, Wider DEF StateInv, WiresInv, wires
<1>7. PeerInv'
  BY <1>1, <1>2 DEF StateInv, PeerInv, peer, Packets
<1> QED BY <1>3, <1>4, <1>5, <1>6, <1>7 DEF StateInv

\* Removing one element leaves the others, in their order.
LEMMA Removed ==
  ASSUME NEW S, NEW s \in Seq(S), NEW i \in DOMAIN s
  PROVE  LET r == RemoveAt(s, i)
         IN  /\ r \in Seq(S) /\ Len(r) = Len(s) - 1 /\ Len(s) \in Nat
             /\ \A j \in DOMAIN r : r[j] = s[IF j < i THEN j ELSE j + 1]
             /\ \A j \in DOMAIN r : (IF j < i THEN j ELSE j + 1) \in DOMAIN s
<1> DEFINE front == SubSeq(s, 1, i - 1)
           back == SubSeq(s, i + 1, Len(s))
           r == RemoveAt(s, i)
<1>1. Len(s) \in Nat /\ i \in 1..Len(s) /\ DOMAIN s = 1..Len(s)
  OBVIOUS
<1>2. /\ front \in Seq(S) /\ Len(front) = i - 1
      /\ \A j \in 1..(i - 1) : front[j] = s[j]
  <2>1. i - 1 \in 0..Len(s)
    BY <1>1
  <2> QED BY <2>1, Cuts
<1>3. /\ back \in Seq(S) /\ Len(back) = Len(s) - i
      /\ \A j \in 1..(Len(s) - i) : back[j] = s[i + j]
  <2>1. i \in 0..Len(s)
    BY <1>1
  <2>2. /\ back \in Seq(S) /\ DOMAIN back = 1..(Len(s) - i)
        /\ \A j \in 1..(Len(s) - i) : back[j] = s[i + j]
    BY <2>1, Cuts
  <2>3. Len(back) = Len(s) - i
    <3> HIDE DEF back
    <3> QED BY <1>1, <2>2
  <2> QED BY <2>2, <2>3
<1>4. r = front \o back
  BY DEF RemoveAt
<1> HIDE DEF front, back, r
<1>5. /\ r \in Seq(S) /\ Len(r) = Len(s) - 1
      /\ \A j \in 1..(Len(s) - 1) :
           r[j] = IF j <= i - 1 THEN front[j] ELSE back[j - (i - 1)]
  <2>1. /\ r \in Seq(S) /\ Len(r) = Len(front) + Len(back)
        /\ \A j \in 1..(Len(front) + Len(back)) :
             r[j] = IF j <= Len(front) THEN front[j] ELSE back[j - Len(front)]
    BY <1>2, <1>3, <1>4, ConcatProperties
  <2>2. Len(front) + Len(back) = Len(s) - 1
    BY <1>1, <1>2, <1>3
  <2> QED BY <1>2, <2>1, <2>2
<1>6. DOMAIN r = 1..(Len(s) - 1)
  BY <1>1, <1>5
<1>7. ASSUME NEW j \in 1..(Len(s) - 1)
      PROVE  /\ r[j] = s[IF j < i THEN j ELSE j + 1]
             /\ (IF j < i THEN j ELSE j + 1) \in DOMAIN s
  <2>1. CASE j < i
    BY <1>1, <1>2, <1>5, <2>1
  <2>2. CASE j >= i
    <3>1. /\ j - (i - 1) \in 1..(Len(s) - i) /\ i + (j - (i - 1)) = j + 1
          /\ j + 1 \in 1..Len(s) /\ ~(j < i) /\ ~(j <= i - 1)
      BY <1>1, <2>2
    <3>2. r[j] = back[j - (i - 1)]
      BY <1>5, <3>1
    <3>3. back[j - (i - 1)] = s[j + 1]
      BY <1>3, <3>1
    <3>4. (IF j < i THEN j ELSE j + 1) = j + 1
      BY <3>1
    <3> QED BY <1>1, <3>1, <3>2, <3>3, <3>4
  <2> QED BY <1>1, <2>1, <2>2
<1> QED BY <1>1, <1>5, <1>6, <1>7 DEF r

\* The timers keep it: each changes one part of the state.
LEMMA TimerState ==
  ASSUME StateInv, WaitQueueTimeout \/ ResetPacketsSent \/ AckTimePasses
                     \/ (\E p \in Packets : ResendTimePasses(p))
  PROVE  StateInv'
<1>0. sequence \in Int /\ QueueInv(queues, sequence) /\ TimerSet(queues)
  BY DEF StateInv, OutputInv, QueuesInv
<1>1. CASE WaitQueueTimeout
  <2>1. /\ queues' = FlushWaiting(queues)
        /\ UNCHANGED <<output, sentThisSec, issues, inbound, wires, peer>>
    BY <1>1 DEF WaitQueueTimeout
  <2>2. QueueInv(queues', sequence) /\ queues'.waiting = <<>>
    BY <1>0, <2>1, Flushes
  <2>3. queues'.timer = FALSE
    BY <1>0, <2>1, FlushFields DEF QueueInv, Shape
  <2>4. TimerSet(queues')
    BY <2>2, <2>3, Zenon DEF TimerSet
  <2> QED BY <2>1, <2>2, <2>4 DEF StateInv, OutputInv, QueuesInv, RoutineInv, WiresInv,
            PeerInv, output, inbound, wires, peer
<1>2. CASE ResetPacketsSent
  BY <1>2, SessionAssumption, SMTT(30) DEF ResetPacketsSent, StateInv, OutputInv, QueuesInv, RoutineInv,
       WiresInv, PeerInv, output, inbound, wires, peer
<1>3. CASE AckTimePasses
  <2>1. ackDue' \in BOOLEAN
    BY <1>3, Zenon DEF AckTimePasses
  <2>2. UNCHANGED <<output, queues, sentThisSec, issues, nextAck, lastAck,
                    outOfOrder, wires, peer>>
    BY <1>3 DEF AckTimePasses
  <2> QED BY <2>1, <2>2 DEF StateInv, OutputInv, QueuesInv, RoutineInv,
       WiresInv, PeerInv, output, wires, peer
<1>4. ASSUME NEW p \in Packets, ResendTimePasses(p) PROVE StateInv'
  <2> DEFINE u == [queues.unAck EXCEPT ![p] = "due"]
  <2>1. /\ queues' = [queues EXCEPT !.unAck = u]
        /\ queues.unAck[p] = "fresh"
        /\ UNCHANGED <<output, sentThisSec, issues, inbound, wires, peer>>
    BY <1>4 DEF ResendTimePasses
  <2>2. /\ u \in [Packets -> {"none", "fresh", "due"}]
        /\ \A r \in Packets : u[r] # "none" => Tracked(queues, r)
    <3>1. queues.unAck \in [Packets -> {"none", "fresh", "due"}]
      BY <1>0, QueuesParts DEF QueueInv, Shape
    <3> QED BY <2>1, <3>1 DEF Tracked
  <2> HIDE DEF u
  <2>3. QueueInv(queues', sequence) /\ TimerSet(queues')
    BY <1>0, <2>1, <2>2, Untracks
  <2> QED BY <2>1, <2>3 DEF StateInv, OutputInv, QueuesInv, RoutineInv, WiresInv,
            PeerInv, output, inbound, wires, peer
<1> QED BY <1>1, <1>2, <1>3, <1>4

\* The packets and pings of the peer keep it.
LEMMA ArrivalState ==
  ASSUME StateInv, ReceiveInOrder \/ ReceivePing
                     \/ (\E s \in 0..(InboundLen - 1) : ReceiveOutOfOrder(s))
  PROVE  StateInv'
<1>0. sequence \in Int /\ QueueInv(queues, sequence) /\ TimerSet(queues)
  BY DEF StateInv, OutputInv, QueuesInv
<1>1. CASE ReceiveInOrder
  <2>1. nextAck' \in -1..(InboundLen - 1) /\ lastAck <= nextAck'
    BY <1>1, SessionAssumption DEF ReceiveInOrder, StateInv, RoutineInv
  <2>2. UNCHANGED <<output, queues, sentThisSec, issues, lastAck, ackDue,
                    outOfOrder, wires, peer>>
    BY <1>1 DEF ReceiveInOrder
  <2> QED BY <2>1, <2>2 DEF StateInv, OutputInv, QueuesInv, RoutineInv, WiresInv,
            PeerInv, output, wires, peer
<1>2. ASSUME NEW s \in 0..(InboundLen - 1), ReceiveOutOfOrder(s) PROVE StateInv'
  <2>1. outOfOrder' \in Seq(0..(InboundLen - 1)) /\ arrivals' \in 0..MaxArrivals
    BY <1>2, SessionAssumption DEF ReceiveOutOfOrder, StateInv, RoutineInv, PeerInv
  <2>2. UNCHANGED <<output, queues, sentThisSec, issues, nextAck, lastAck, ackDue,
                    wires, received, peerAck, replies>>
    BY <1>2 DEF ReceiveOutOfOrder
  <2> QED BY <2>1, <2>2 DEF StateInv, OutputInv, QueuesInv, RoutineInv, WiresInv,
            PeerInv, output, wires
<1>3. CASE ReceivePing
  <2>1. Control("Ping") \in LogicalPackets /\ Control("Ping").name # "Data"
    BY Names
  <2>2. QueueInv(queues', sequence) /\ TimerSet(queues')
    BY <1>0, <1>3, <2>1, Prioritizes DEF ReceivePing
  <2>3. arrivals' \in 0..MaxArrivals
    BY <1>3, SessionAssumption DEF ReceivePing, StateInv, PeerInv
  <2>4. UNCHANGED <<output, sentThisSec, issues, inbound, wires, received,
                    peerAck, replies>>
    BY <1>3 DEF ReceivePing
  <2> QED BY <2>2, <2>3, <2>4 DEF StateInv, OutputInv, QueuesInv, RoutineInv, WiresInv,
            PeerInv, output, inbound, wires
<1> QED BY <1>1, <1>2, <1>3

\* An acknowledgement, stale or not, keeps it: it stops timers and moves the
\* output stream within the sequence space.
LEMMA AckedState ==
  ASSUME StateInv, NEW s \in Packets, HandleAck(s)
  PROVE  OutputInv' /\ QueuesInv' /\ RoutineInv' /\ WiresInv'
<1> DEFINE passed == AckedRange(outputAck, s)
           u == [p \in Packets |-> IF p \in passed THEN "none" ELSE queues.unAck[p]]
<1>1. /\ cache' = cache \ passed
      /\ queues' = [queues EXCEPT !.unAck = u]
      /\ outputAck' = wrap(s + 1)
      /\ UNCHANGED <<sequence, sentThisSec, issues, inbound, wires>>
  BY DEF HandleAck
<1>2. wrap(s + 1) \in SequenceSpace
  <2>1. s \in 0..(MAX_SEQUENCE - 1) /\ MAX_SEQUENCE \in Nat
    BY SessionAssumption, MaxSequenceAssumption, StreamAssumption DEF Packets
  <2> QED BY <2>1 DEF wrap, SequenceSpace
<1> HIDE DEF passed
<1>3. OutputInv'
  BY <1>1, <1>2 DEF StateInv, OutputInv
<1>4. QueuesInv'
  <2>1. sequence \in Int /\ QueueInv(queues, sequence) /\ TimerSet(queues)
    BY DEF StateInv, OutputInv, QueuesInv
  <2>2. queues.unAck \in [Packets -> {"none", "fresh", "due"}]
    BY <2>1, QueuesParts DEF QueueInv, Shape
  <2>3. /\ u \in [Packets -> {"none", "fresh", "due"}]
        /\ \A p \in Packets : u[p] # "none" => Tracked(queues, p)
    BY <2>2 DEF Tracked
  <2> HIDE DEF u
  <2> QED BY <1>1, <2>1, <2>3, Untracks DEF QueuesInv
<1>5. RoutineInv' /\ WiresInv'
  BY <1>1 DEF StateInv, RoutineInv, WiresInv, inbound, wires
<1> QED BY <1>3, <1>4, <1>5

\* A report of the peer stops the timer of one packet.
LEMMA ReportedState ==
  ASSUME StateInv, NEW s \in Packets, HandleOutOfOrder(s)
  PROVE  OutputInv' /\ QueuesInv' /\ RoutineInv' /\ WiresInv'
<1> DEFINE u == [queues.unAck EXCEPT ![s] = "none"]
<1>1. /\ queues' = [queues EXCEPT !.unAck = u]
      /\ UNCHANGED <<output, sentThisSec, issues, inbound, wires>>
  BY DEF HandleOutOfOrder
<1>2. QueuesInv'
  <2>1. sequence \in Int /\ QueueInv(queues, sequence) /\ TimerSet(queues)
    BY DEF StateInv, OutputInv, QueuesInv
  <2>2. queues.unAck \in [Packets -> {"none", "fresh", "due"}]
    BY <2>1, QueuesParts DEF QueueInv, Shape
  <2>3. /\ u \in [Packets -> {"none", "fresh", "due"}]
        /\ \A p \in Packets : u[p] # "none" => Tracked(queues, p)
    BY <2>2 DEF Tracked
  <2> HIDE DEF u
  <2> QED BY <1>1, <2>1, <2>3, Untracks DEF QueuesInv, output
<1>3. OutputInv' /\ RoutineInv' /\ WiresInv'
  BY <1>1 DEF StateInv, OutputInv, RoutineInv, WiresInv, inbound, wires, output
<1> QED BY <1>2, <1>3

\* What the peer has to acknowledge is not less than what it acknowledged.
LEMMA AckGrows ==
  ASSUME StateInv
  PROVE  /\ received \in SUBSET Packets
         /\ Contiguous \in -1..(StreamLen - 1)
         /\ 0..Contiguous \subseteq received
         /\ Contiguous + 1 \notin received
         /\ peerAck <= Contiguous
<1>1. received \in SUBSET Packets /\ peerAck \in Packets \cup {-1} /\ 0..peerAck \subseteq received
  BY DEF StateInv, PeerInv
<1>2. /\ Contiguous \in -1..(StreamLen - 1) /\ 0..Contiguous \subseteq received
      /\ Contiguous + 1 \notin received
  BY <1>1, ContiguousFacts
<1>3. Contiguous + 1 \notin 0..peerAck
  BY <1>1, <1>2
<1>4. StreamLen \in Nat
  BY StreamAssumption
<1>5. peerAck <= Contiguous
  BY <1>1, <1>2, <1>3, <1>4 DEF Packets
<1> QED BY <1>1, <1>2, <1>5

\* The datagrams and the answers on their way, and the peer's replies.
LEMMA NetworkState ==
  ASSUME StateInv,
         \/ \E d \in network : Deliver(d) \/ Lose(d)
         \/ PeerAcks
         \/ \E s \in Packets : PeerReportsOutOfOrder(s)
         \/ \E i \in DOMAIN replies : ReceiveReply(i) \/ LoseReply(i)
  PROVE  StateInv'
<1>0. replies \in Seq(Reply) /\ Len(replies) \in Nat /\ Len(replies) <= MaxReplies
  BY DEF StateInv, PeerInv
<1>1. ASSUME NEW d \in network, Deliver(d) PROVE StateInv'
  <2>1. d \in Seq(LogicalPackets) /\ Known(d, sequence)
    BY DEF StateInv, WiresInv
  <2>2. Named(d, "Data") \subseteq Packets /\ \A p \in Named(d, "Data") : p <= sequence
    BY <2>1, NamedFacts
  <2>3. /\ received' = received \cup Named(d, "Data")
        /\ network' \subseteq network
        /\ UNCHANGED <<output, queues, sentThisSec, issues, inbound, answers,
                       peerAck, replies, arrivals>>
    BY <1>1 DEF Deliver
  <2>4. PeerInv'
    BY <2>2, <2>3 DEF StateInv, PeerInv, output
  <2>5. WiresInv'
    BY <2>3 DEF StateInv, WiresInv, output
  <2>6. OutputInv' /\ QueuesInv' /\ RoutineInv'
    BY <2>3 DEF StateInv, OutputInv, QueuesInv, RoutineInv, output, inbound
  <2> QED BY <2>4, <2>5, <2>6 DEF StateInv
<1>2. ASSUME NEW d \in network, Lose(d) PROVE StateInv'
  <2>1. /\ network' \subseteq network
        /\ UNCHANGED <<output, queues, sentThisSec, issues, inbound, answers, peer>>
    BY <1>2 DEF Lose
  <2> QED BY <2>1 DEF StateInv, OutputInv, QueuesInv, RoutineInv, WiresInv, PeerInv,
            output, inbound, peer
<1>3. CASE PeerAcks \/ \E s \in Packets : PeerReportsOutOfOrder(s)
  <2>1. /\ Len(replies) < MaxReplies
        /\ \E packet \in Reply : replies' = Append(replies, packet)
        /\ UNCHANGED <<output, queues, sentThisSec, issues, inbound, wires,
                       received, arrivals>>
    <3>1. CASE PeerAcks
      <4>1. Contiguous \in Packets
        <5>1. peerAck # Contiguous /\ peerAck \in Packets \cup {-1}
          BY <3>1 DEF PeerAcks, StateInv, PeerInv
        <5>2. Contiguous \in -1..(StreamLen - 1) /\ peerAck <= Contiguous
          BY AckGrows
        <5> QED BY <5>1, <5>2, StreamAssumption DEF Packets
      <4>2. Ack(Contiguous) \in Reply
        BY <4>1 DEF Ack, Reply
      <4> QED BY <3>1, <4>2 DEF PeerAcks, PeerReply
    <3>2. ASSUME NEW s \in Packets, PeerReportsOutOfOrder(s)
          PROVE  /\ Len(replies) < MaxReplies
                 /\ \E packet \in Reply : replies' = Append(replies, packet)
                 /\ UNCHANGED <<output, queues, sentThisSec, issues, inbound, wires,
                                received, arrivals>>
      <4>1. OutOfOrder(s) \in Reply
        BY DEF OutOfOrder, Reply
      <4> QED BY <3>2, <4>1 DEF PeerReportsOutOfOrder, PeerReply
    <3> QED BY <1>3, <3>1, <3>2
  <2>2. replies' \in Seq(Reply) /\ Len(replies') <= MaxReplies
    <3>1. MaxReplies \in Nat
      BY SessionAssumption
    <3> QED BY <1>0, <2>1, <3>1
  <2>3. peerAck' \in Packets \cup {-1} /\ 0..peerAck' \subseteq received
    <3>1. CASE PeerAcks
      BY <3>1, AckGrows, StreamAssumption, SMTT(30) DEF PeerAcks, Packets
    <3>2. CASE \E s \in Packets : PeerReportsOutOfOrder(s)
      BY <3>2 DEF PeerReportsOutOfOrder, StateInv, PeerInv
    <3> QED BY <1>3, <3>1, <3>2
  <2>4. PeerInv'
    BY <2>1, <2>2, <2>3 DEF StateInv, PeerInv, output
  <2> QED BY <2>1, <2>4 DEF StateInv, OutputInv, QueuesInv, RoutineInv, WiresInv,
            output, inbound, wires
<1>4. ASSUME NEW i \in DOMAIN replies, ReceiveReply(i) \/ LoseReply(i)
      PROVE  StateInv'
  <2>1. replies' = RemoveAt(replies, i) /\ UNCHANGED <<received, peerAck, arrivals>>
    BY <1>4 DEF ReceiveReply, LoseReply
  <2>2. replies' \in Seq(Reply) /\ Len(replies') = Len(replies) - 1
    BY <1>0, <2>1, Removed
  <2>3. replies[i].seq \in Packets
    <3>1. replies[i] \in Reply
      BY <1>0
    <3> QED BY <3>1 DEF Reply
  <2>4. /\ OutputInv' /\ QueuesInv' /\ RoutineInv' /\ WiresInv'
        /\ sequence' = sequence
    <3>1. CASE LoseReply(i)
      BY <3>1 DEF LoseReply, StateInv, OutputInv, QueuesInv, RoutineInv, WiresInv,
           output, inbound, wires
    <3>2. CASE HandleAck(replies[i].seq)
      BY <2>3, <3>2, AckedState DEF HandleAck
    <3>3. CASE HandleOutOfOrder(replies[i].seq)
      BY <2>3, <3>3, ReportedState DEF HandleOutOfOrder, output
    <3> QED BY <1>4, <3>1, <3>2, <3>3 DEF ReceiveReply
  <2>5. Len(replies') <= MaxReplies
    <3>1. MaxReplies \in Nat
      BY SessionAssumption
    <3> QED BY <1>0, <2>2, <3>1
  <2>6. PeerInv'
    BY <2>1, <2>2, <2>4, <2>5 DEF StateInv, PeerInv
  <2> QED BY <2>4, <2>6 DEF StateInv
<1> QED BY <1>1, <1>2, <1>3, <1>4

\* Every step keeps the invariant.
LEMMA StateStep == StateInv /\ [Next]_vars => StateInv'
<1> SUFFICES ASSUME StateInv, [Next]_vars PROVE StateInv'
  OBVIOUS
<1>1. CASE Server
  BY <1>1, RoutineState, TimerState DEF Server
<1>2. CASE Application
  BY <1>2, SendAppDataState DEF Application
<1>3. CASE PeerAndNetwork
  BY <1>3, ArrivalState, NetworkState DEF PeerAndNetwork
<1>4. CASE UNCHANGED vars
  BY <1>4 DEF vars, output, inbound, peer, wires, StateInv, OutputInv, QueuesInv,
       RoutineInv, WiresInv, PeerInv
<1> QED BY <1>1, <1>2, <1>3, <1>4 DEF Next

\* The invariant holds in every state of the session.
LEMMA StateAlways == Spec => []StateInv
BY InitState, StateStep, PTL DEF Spec

\* The state is well typed: the waiting queue never outgrows a MultiPacket and
\* its timer is set exactly when something waits, no more datagrams leave a
\* second than the rate allows, the acknowledgements sent never pass what was
\* received, and the peer receives nothing that was not sent.
THEOREM Typed == Spec => []TypeOK
<1>1. StateInv => TypeOK
  <2> SUFFICES ASSUME StateInv PROVE TypeOK
    OBVIOUS
  <2>1. queues \in QueuesType /\ Len(queues.waiting) <= MaxMulti /\ TimerSet(queues)
    BY DEF StateInv, QueuesInv, QueueInv, Shape
  <2>2. /\ queues.waiting \in Seq(LogicalPackets)
        /\ queues.out \in Seq(Seq(LogicalPackets))
        /\ queues.priority \in Seq(Seq(LogicalPackets))
        /\ queues.unAck \in [Packets -> {"none", "fresh", "due"}]
    BY <2>1, QueuesParts
  <2>3. queues.timer = (queues.waiting # <<>>)
    BY <2>1, Zenon DEF TimerSet
  <2>4. {issues, ackDue} \subseteq BOOLEAN
    BY DEF StateInv, RoutineInv
  <2>5. received \subseteq 0..sequence
    BY DEF StateInv, PeerInv, OutputInv, Packets
  <2>6. /\ sequence \in Packets \cup {-1} /\ outputAck \in SequenceSpace \cup {-1}
        /\ cache \subseteq Packets
    BY DEF StateInv, OutputInv, Packets
  <2>7. /\ -1 <= lastAck /\ lastAck <= nextAck /\ nextAck < InboundLen
        /\ sentThisSec \in 0..PacketRate /\ outOfOrder \in Seq(0..(InboundLen - 1))
    BY SessionAssumption DEF StateInv, RoutineInv
  <2>8. /\ network \subseteq Seq(LogicalPackets)
        /\ answers.Ack \cup answers.OutOfOrder \subseteq 0..(InboundLen - 1)
        /\ peerAck \in Packets \cup {-1} /\ Len(replies) <= MaxReplies
        /\ arrivals \in 0..MaxArrivals
    BY DEF StateInv, WiresInv, PeerInv
  <2> QED BY <2>1, <2>2, <2>3, <2>4, <2>5, <2>6, <2>7, <2>8 DEF TypeOK
<1> QED BY <1>1, StateAlways, PTL

\* At most one copy of a packet waits to be sent again, and the packet is not
\* tracked meanwhile: checkResendQueue cannot multiply retransmissions, however
\* long the priority queue stays full.
THEOREM ResentOnce == Spec => []NoDoubleResend
<1>1. StateInv => NoDoubleResend
  <2> SUFFICES ASSUME StateInv, NEW i \in DOMAIN queues.priority,
                      queues.priority[i][1].name = "Data"
               PROVE  /\ queues.unAck[queues.priority[i][1].seq] = "none"
                      /\ \A j \in DOMAIN queues.priority :
                           queues.priority[j] = queues.priority[i] => j = i
    BY DEF NoDoubleResend
  <2> DEFINE d == queues.priority[i]
             p == d[1].seq
  <2>1. /\ Shape(queues) /\ OnePlace(queues) /\ NotTwice(queues)
        /\ queues.priority \in Seq(Seq(LogicalPackets))
    BY QueuesParts DEF StateInv, QueuesInv, QueueInv, Shape
  <2>2. d \in Seq(LogicalPackets) /\ Len(d) = 1 /\ d[1] \in LogicalPackets
    <3>1. d \in Seq(LogicalPackets) /\ Len(d) = 1
      BY <2>1 DEF Shape
    <3> HIDE DEF d
    <3> QED BY <3>1
  <2>3. p \in Packets /\ d[1] = Data(p)
    <3>1. d[1].name = "Data"
      OBVIOUS
    <3> HIDE DEF d
    <3> QED BY <2>2, <3>1, Names DEF Data, LogicalPackets
  <2>4. Alone(d, p)
    BY <2>2, <2>3 DEF Alone
  <2>5. Resending(queues, p)
    BY <2>4 DEF Resending
  <2>6. ~Tracked(queues, p)
    BY <2>1, <2>3, <2>5 DEF OnePlace
  <2>7. \A j \in DOMAIN queues.priority : queues.priority[j] = d => j = i
    BY <2>1, <2>3, <2>4 DEF NotTwice
  <2> QED BY <2>6, <2>7 DEF Tracked
<1> QED BY <1>1, StateAlways, PTL

(***************************************************************************)
(* When the network keeps the order of the acknowledgements.  Those on     *)
(* their way rise from the last one taken to the last one sent, and what   *)
(* is reported out of order was received.                                  *)
(***************************************************************************)
InOrder(r, from, to, known) ==
  /\ \A i \in DOMAIN r : r[i].name = "Ack" => from <= r[i].seq + 1 /\ r[i].seq <= to
  /\ \A i, j \in DOMAIN r :
       i < j /\ r[i].name = "Ack" /\ r[j].name = "Ack" => r[i].seq <= r[j].seq
  /\ \A i \in DOMAIN r : r[i].name = "OutOfOrder" => r[i].seq \in known

AcksInv ==
  /\ outputAck <= peerAck + 1
  /\ InOrder(replies, outputAck, peerAck, received)

CacheInv == \A p \in Packets : p <= sequence /\ p >= outputAck => p \in cache

WayInv == \A p \in Packets \ {0} :
            p <= sequence /\ p \notin received => Somewhere(queues, p)

DeliveryInv == AcksInv /\ CacheInv /\ WayInv

\* A reply less leaves the others in order, and when it is the first one and
\* an acknowledgement, the others are not behind it.
LEMMA RemovedInOrder ==
  ASSUME NEW s \in Seq(Reply), NEW i \in DOMAIN s, NEW from, NEW to, NEW known,
         InOrder(s, from, to, known)
  PROVE  /\ InOrder(RemoveAt(s, i), from, to, known)
         /\ i = 1 /\ s[1].name = "Ack" => InOrder(RemoveAt(s, i), s[1].seq + 1, to, known)
<1> DEFINE r == RemoveAt(s, i)
           old(j) == IF j < i THEN j ELSE j + 1
<1>1. /\ r \in Seq(Reply) /\ Len(r) \in Nat /\ DOMAIN r = 1..Len(r)
      /\ \A j \in DOMAIN r : r[j] = s[old(j)] /\ old(j) \in DOMAIN s
      /\ i \in Int
  <2>1. /\ r \in Seq(Reply)
        /\ \A j \in DOMAIN r : r[j] = s[old(j)]
        /\ \A j \in DOMAIN r : old(j) \in DOMAIN s
    BY Removed
  <2>2. i \in Int
    OBVIOUS
  <2> HIDE DEF r, old
  <2> QED BY <2>1, <2>2
<1> HIDE DEF r
<1>2. \A j, k \in DOMAIN r : j < k => old(j) < old(k)
  BY <1>1
<1>3. \A j \in DOMAIN r : i = 1 => 1 < old(j)
  BY <1>1
<1> HIDE DEF old
<1>4. InOrder(r, from, to, known)
  BY <1>1, <1>2 DEF InOrder
<1>5. ASSUME i = 1, s[1].name = "Ack"
      PROVE  InOrder(r, s[1].seq + 1, to, known)
  <2>1. ASSUME NEW j \in DOMAIN r, r[j].name = "Ack" PROVE s[1].seq + 1 <= r[j].seq + 1
    <3>1. s[1].seq <= r[j].seq
      BY <1>1, <1>3, <1>5, <2>1 DEF InOrder
    <3>2. s[1] \in Reply /\ r[j] \in Reply
      BY <1>1, <1>5
    <3> QED BY <3>1, <3>2 DEF Reply, Packets
  <2> QED BY <1>4, <2>1 DEF InOrder
<1> QED BY <1>4, <1>5 DEF r

\* A reply more, not behind what was acknowledged.
LEMMA AppendedInOrder ==
  ASSUME NEW s \in Seq(Reply), NEW packet \in Reply, NEW known,
         NEW from \in Int, NEW to \in Int, NEW upTo \in Int, InOrder(s, from, to, known),
         from <= to + 1, to <= upTo,
         packet.name = "Ack" => to <= packet.seq /\ packet.seq <= upTo,
         packet.name = "OutOfOrder" => packet.seq \in known
  PROVE  InOrder(Append(s, packet), from, upTo, known)
<1> DEFINE r == Append(s, packet)
           n == Len(s)
<1>1. /\ n \in Nat /\ DOMAIN s = 1..n /\ DOMAIN r = 1..(n + 1)
      /\ \A i \in DOMAIN s : r[i] = s[i] /\ s[i] \in Reply
      /\ r[n + 1] = packet
  OBVIOUS
<1>2. packet.seq \in Int /\ \A i \in DOMAIN s : s[i].seq \in Int
  BY <1>1 DEF Reply, Packets
<1> HIDE DEF r, n
<1>3. ASSUME NEW i \in DOMAIN r, r[i].name = "Ack"
      PROVE  from <= r[i].seq + 1 /\ r[i].seq <= upTo
  <2>1. CASE i \in DOMAIN s
    <3>1. from <= s[i].seq + 1 /\ s[i].seq <= to
      BY <1>1, <1>3, <2>1 DEF InOrder
    <3> QED BY <1>1, <1>2, <2>1, <3>1
  <2>2. CASE i = n + 1
    BY <1>1, <1>2, <1>3, <2>2
  <2> QED BY <1>1, <2>1, <2>2
<1>4. ASSUME NEW i \in DOMAIN r, NEW j \in DOMAIN r, i < j,
             r[i].name = "Ack", r[j].name = "Ack"
      PROVE  r[i].seq <= r[j].seq
  <2>1. i \in DOMAIN s
    BY <1>1, <1>4
  <2>2. CASE j \in DOMAIN s
    BY <1>1, <1>4, <2>1, <2>2 DEF InOrder
  <2>3. CASE j = n + 1
    <3>1. s[i].seq <= to
      BY <1>1, <1>4, <2>1 DEF InOrder
    <3>2. to <= packet.seq
      BY <1>1, <1>4, <2>3
    <3> QED BY <1>1, <1>2, <2>1, <2>3, <3>1, <3>2
  <2> QED BY <1>1, <2>2, <2>3
<1>5. ASSUME NEW i \in DOMAIN r, r[i].name = "OutOfOrder" PROVE r[i].seq \in known
  BY <1>1, <1>5 DEF InOrder
<1> QED BY <1>3, <1>4, <1>5 DEF InOrder, r

\* What the peer misses is behind no acknowledgement, so it is cached.
LEMMA MissedIsCached ==
  ASSUME StateInv, DeliveryInv, NEW p \in Packets, p <= sequence, p \notin received
  PROVE  p \in cache /\ peerAck < p
<1>1. /\ peerAck \in Int /\ outputAck \in Int /\ 0..peerAck \subseteq received
      /\ p \in Nat /\ outputAck <= peerAck + 1
  BY DEF StateInv, PeerInv, OutputInv, SequenceSpace, Packets, DeliveryInv, AcksInv
<1>2. peerAck < p
  BY <1>1
<1>3. p >= outputAck
  BY <1>1, <1>2
<1> QED BY <1>2, <1>3 DEF DeliveryInv, CacheInv

\* The server forgets nothing: its routine, its timers.
LEMMA ServerDelivers ==
  ASSUME StateInv, DeliveryInv, Server PROVE DeliveryInv'
<1>0. sequence \in Int /\ QueueInv(queues, sequence) /\ TimerSet(queues)
  BY DEF StateInv, OutputInv, QueuesInv
<1>1. /\ UNCHANGED <<output, peer>>
      /\ \A p \in Packets \ {0} :
           p \in cache /\ Somewhere(queues, p) => Somewhere(queues', p)
  <2>1. CASE Routine
    <3>1. PICK c : /\ \A p \in Packets \ {0} :
                        p \in cache /\ Somewhere(queues, p) => Somewhere(c.q, p)
                   /\ RoutineEnds(c)
      BY <2>1, RoutineClient
    <3> QED BY <3>1 DEF RoutineEnds
  <2>2. CASE WaitQueueTimeout
    <3>1. /\ queues' = FlushWaiting(queues) /\ UNCHANGED <<output, peer>>
      BY <2>2 DEF WaitQueueTimeout
    <3>2. Keeps(queues, queues')
      BY <1>0, <3>1, Flushes
    <3> QED BY <3>1, <3>2 DEF Keeps
  <2>3. CASE ResetPacketsSent \/ AckTimePasses
    BY <2>3 DEF ResetPacketsSent, AckTimePasses
  <2>4. ASSUME NEW p \in Packets, ResendTimePasses(p)
        PROVE  /\ UNCHANGED <<output, peer>>
               /\ \A x \in Packets : Somewhere(queues, x) => Somewhere(queues', x)
    <3> DEFINE u == [queues.unAck EXCEPT ![p] = "due"]
    <3>1. /\ queues' = [queues EXCEPT !.unAck = u] /\ queues.unAck[p] = "fresh"
          /\ UNCHANGED <<output, peer>>
      BY <2>4 DEF ResendTimePasses
    <3>2. /\ u \in [Packets -> {"none", "fresh", "due"}]
          /\ \A x \in Packets : u[x] # "none" <=> Tracked(queues, x)
      <4>1. queues.unAck \in [Packets -> {"none", "fresh", "due"}]
        BY <1>0, QueuesParts DEF QueueInv, Shape
      <4> QED BY <3>1, <4>1 DEF Tracked
    <3> HIDE DEF u
    <3>3. \A x \in Packets : Somewhere(queues, x) => Somewhere(queues', x)
      BY <1>0, <3>1, <3>2, Untracks
    <3> QED BY <3>1, <3>3
  <2> QED BY <2>1, <2>2, <2>3, <2>4 DEF Server
<1>2. AcksInv' /\ CacheInv'
  BY <1>1 DEF output, peer, DeliveryInv, AcksInv, CacheInv
<1>3. WayInv'
  BY <1>1, MissedIsCached DEF output, peer, DeliveryInv, WayInv
<1> QED BY <1>2, <1>3 DEF DeliveryInv

\* A message that is sent is cached and queued.
LEMMA ApplicationDelivers ==
  ASSUME StateInv, DeliveryInv, NEW unbuffered, SendAppData(unbuffered)
  PROVE  DeliveryInv'
<1> DEFINE h == sequence + 1
           last == sequence + SizeOf[h]
<1>1. /\ h \in Packets /\ sequence' = last
      /\ cache' = cache \cup (h..last)
      /\ queues' = SendAll(queues, [i \in 1..SizeOf[h] |-> Data(Message(h)[i])], {}, unbuffered)
      /\ UNCHANGED <<outputAck, peer>>
  BY DEF SendAppData
<1>2. /\ Keeps(queues, queues')
      /\ \A p \in (h..last) \ {0} : Somewhere(queues', p)
  <2> HIDE DEF last
  <2>1. last = sequence + SizeOf[h]
    BY DEF last
  <2> QED BY <1>1, <2>1, MessageSent
<1>3. sequence \in Int /\ last \in Int
  <2>1. SizeOf[h] \in Nat
    BY <1>1, StreamAssumption
  <2> QED BY <2>1 DEF StateInv, OutputInv
<1> HIDE DEF last
<1>4. AcksInv'
  BY <1>1 DEF peer, DeliveryInv, AcksInv
<1>5. \A p \in Packets : p <= last => p <= sequence \/ p \in h..last
  BY <1>3 DEF Packets
<1>6. CacheInv'
  BY <1>1, <1>5 DEF DeliveryInv, CacheInv
<1>7. WayInv'
  BY <1>1, <1>2, <1>5 DEF DeliveryInv, WayInv, Keeps, peer
<1> QED BY <1>4, <1>6, <1>7 DEF DeliveryInv

\* An acknowledgement taken in order passes nothing the peer misses.
LEMMA AckDelivers ==
  ASSUME StateInv, DeliveryInv, 1 \in DOMAIN replies, replies[1].name = "Ack",
         HandleAck(replies[1].seq), replies' = RemoveAt(replies, 1),
         UNCHANGED <<received, peerAck, arrivals>>
  PROVE  DeliveryInv'
<1> DEFINE s == replies[1].seq
           passed == AckedRange(outputAck, s)
           u == [p \in Packets |-> IF p \in passed THEN "none" ELSE queues.unAck[p]]
<1>1. replies \in Seq(Reply) /\ s \in Packets /\ peerAck \in Int /\ s \in Int
  <2>1. replies \in Seq(Reply) /\ peerAck \in Int
    BY DEF StateInv, PeerInv, Packets
  <2>2. replies[1] \in Reply
    BY <2>1
  <2> QED BY <2>1, <2>2 DEF Reply, Packets
<1>2. outputAck <= s + 1 /\ s <= peerAck /\ outputAck \in -1..(s + 1)
  <2>1. outputAck <= s + 1 /\ s <= peerAck
    BY DEF DeliveryInv, AcksInv, InOrder
  <2>2. outputAck \in Int /\ -1 <= outputAck
    BY MaxSequenceAssumption DEF StateInv, OutputInv, SequenceSpace
  <2> QED BY <1>1, <2>1, <2>2
<1>3. /\ cache' = cache \ passed
      /\ queues' = [queues EXCEPT !.unAck = u]
      /\ outputAck' = wrap(s + 1)
      /\ sequence' = sequence
  BY DEF HandleAck
<1>4. passed \subseteq 0..s /\ outputAck' = s + 1
  BY <1>1, <1>2, <1>3, AckPasses
<1>5. AcksInv'
  <2>1. outputAck' <= peerAck + 1
    BY <1>1, <1>2, <1>4
  <2>2. InOrder(replies', s + 1, peerAck, received)
    BY <1>1, RemovedInOrder DEF DeliveryInv, AcksInv
  <2> HIDE DEF s
  <2> QED BY <1>4, <2>1, <2>2 DEF AcksInv
<1> HIDE DEF s, passed
<1>6. CacheInv'
  <2>1. \A p \in Packets : p >= s + 1 => p >= outputAck /\ p \notin passed
    BY <1>1, <1>2, <1>4 DEF Packets
  <2> QED BY <1>3, <1>4, <2>1 DEF DeliveryInv, CacheInv
<1>7. WayInv'
  <2>1. ASSUME NEW p \in Packets \ {0}, p <= sequence, p \notin received
        PROVE  Somewhere(queues', p)
    <3>1. peerAck < p /\ Somewhere(queues, p)
      BY <2>1, MissedIsCached DEF DeliveryInv, WayInv
    <3>2. p \notin passed
      BY <1>1, <1>2, <1>4, <3>1 DEF Packets
    <3>3. sequence \in Int /\ QueueInv(queues, sequence) /\ TimerSet(queues)
      BY DEF StateInv, OutputInv, QueuesInv
    <3>4. queues.unAck \in [Packets -> {"none", "fresh", "due"}]
      BY <3>3, QueuesParts DEF QueueInv, Shape
    <3>5. /\ u \in [Packets -> {"none", "fresh", "due"}]
          /\ \A x \in Packets : u[x] # "none" => Tracked(queues, x)
          /\ Tracked(queues, p) => u[p] # "none"
      BY <3>2, <3>4 DEF Tracked
    <3> HIDE DEF u
    <3> QED BY <1>3, <3>1, <3>3, <3>5, Untracks
  <2> QED BY <1>3, <2>1 DEF WayInv
<1> QED BY <1>5, <1>6, <1>7 DEF DeliveryInv

\* A report stops the timer of a packet the peer has.
LEMMA ReportDelivers ==
  ASSUME StateInv, DeliveryInv, NEW i \in DOMAIN replies, replies[i].name = "OutOfOrder",
         HandleOutOfOrder(replies[i].seq), replies' = RemoveAt(replies, i),
         UNCHANGED <<received, peerAck, arrivals>>
  PROVE  DeliveryInv'
<1> DEFINE s == replies[i].seq
           u == [queues.unAck EXCEPT ![s] = "none"]
<1>1. replies \in Seq(Reply) /\ s \in received
  BY DEF StateInv, PeerInv, DeliveryInv, AcksInv, InOrder
<1>2. /\ queues' = [queues EXCEPT !.unAck = u] /\ UNCHANGED output
  BY DEF HandleOutOfOrder
<1>3. AcksInv'
  <2>1. InOrder(replies', outputAck, peerAck, received)
    BY <1>1, RemovedInOrder DEF DeliveryInv, AcksInv
  <2> QED BY <1>2, <2>1 DEF DeliveryInv, AcksInv, output
<1>4. CacheInv'
  BY <1>2 DEF DeliveryInv, CacheInv, output
<1> HIDE DEF s
<1>5. WayInv'
  <2>1. ASSUME NEW p \in Packets \ {0}, p <= sequence, p \notin received
        PROVE  Somewhere(queues', p)
    <3>1. p # s /\ Somewhere(queues, p)
      BY <1>1, <2>1 DEF DeliveryInv, WayInv
    <3>2. sequence \in Int /\ QueueInv(queues, sequence) /\ TimerSet(queues)
      BY DEF StateInv, OutputInv, QueuesInv
    <3>3. queues.unAck \in [Packets -> {"none", "fresh", "due"}]
      BY <3>2, QueuesParts DEF QueueInv, Shape
    <3>4. /\ u \in [Packets -> {"none", "fresh", "due"}]
          /\ \A x \in Packets : u[x] # "none" => Tracked(queues, x)
          /\ Tracked(queues, p) => u[p] # "none"
      BY <3>1, <3>3 DEF Tracked
    <3> HIDE DEF u
    <3> QED BY <1>2, <3>1, <3>2, <3>4, Untracks
  <2> QED BY <1>2, <2>1 DEF WayInv, output
<1> QED BY <1>3, <1>4, <1>5 DEF DeliveryInv

\* The peer and the network, when acknowledgements stay in order.
LEMMA PeerDelivers ==
  ASSUME "reorder" \notin ReplyFaults, StateInv, DeliveryInv, PeerAndNetwork
  PROVE  DeliveryInv'
<1>0. /\ sequence \in Int /\ QueueInv(queues, sequence) /\ TimerSet(queues)
      /\ replies \in Seq(Reply) /\ outputAck \in Int /\ peerAck \in Int
  BY DEF StateInv, OutputInv, QueuesInv, PeerInv, SequenceSpace, Packets
<1>1. CASE ReceiveInOrder \/ \E s \in 0..(InboundLen - 1) : ReceiveOutOfOrder(s)
  <2>1. UNCHANGED <<output, queues, received, peerAck, replies>>
    BY <1>1 DEF ReceiveInOrder, ReceiveOutOfOrder, peer
  <2> QED BY <2>1 DEF output, DeliveryInv, AcksInv, CacheInv, WayInv
<1>2. CASE ReceivePing
  <2>1. Control("Ping") \in LogicalPackets /\ Control("Ping").name # "Data"
    BY Names
  <2>2. Keeps(queues, queues') /\ UNCHANGED <<output, received, peerAck, replies>>
    BY <1>0, <1>2, <2>1, Prioritizes DEF ReceivePing
  <2> QED BY <2>2 DEF output, DeliveryInv, AcksInv, CacheInv, WayInv, Keeps
<1>3. ASSUME NEW d \in network, Deliver(d) \/ Lose(d) PROVE DeliveryInv'
  <2>1. /\ received \subseteq received'
        /\ UNCHANGED <<output, queues, peerAck, replies>>
    BY <1>3 DEF Deliver, Lose, peer
  <2> QED BY <2>1 DEF output, DeliveryInv, AcksInv, InOrder, CacheInv, WayInv
<1>4. CASE PeerAcks
  <2>1. /\ replies' = Append(replies, Ack(Contiguous)) /\ peerAck' = Contiguous
        /\ UNCHANGED <<output, queues, received>>
    BY <1>4 DEF PeerAcks, PeerReply
  <2>2. peerAck <= Contiguous /\ Contiguous \in Int /\ Ack(Contiguous) \in Reply
        /\ Ack(Contiguous).name = "Ack" /\ Ack(Contiguous).seq = Contiguous
    <3>1. /\ peerAck # Contiguous /\ peerAck \in Packets \cup {-1}
          /\ Contiguous \in -1..(StreamLen - 1) /\ peerAck <= Contiguous
      BY <1>4, AckGrows DEF PeerAcks, StateInv, PeerInv
    <3>2. Contiguous \in Packets
      BY <3>1, StreamAssumption DEF Packets
    <3> QED BY <3>1, <3>2 DEF Ack, Reply
  <2>3. AcksInv'
    <3>1. outputAck <= peerAck + 1 /\ InOrder(replies, outputAck, peerAck, received)
      BY DEF DeliveryInv, AcksInv
    <3>2. InOrder(replies', outputAck, Contiguous, received)
      BY <1>0, <2>1, <2>2, <3>1, AppendedInOrder
    <3>3. outputAck <= Contiguous + 1
      BY <1>0, <2>2, <3>1
    <3> QED BY <2>1, <3>2, <3>3 DEF AcksInv, output
  <2> QED BY <2>1, <2>3 DEF output, DeliveryInv, CacheInv, WayInv
<1>5. ASSUME NEW s \in Packets, PeerReportsOutOfOrder(s) PROVE DeliveryInv'
  <2>1. /\ s \in received /\ replies' = Append(replies, OutOfOrder(s))
        /\ UNCHANGED <<output, queues, received, peerAck>>
    BY <1>5 DEF PeerReportsOutOfOrder, PeerReply
  <2>2. /\ OutOfOrder(s) \in Reply /\ OutOfOrder(s).seq = s
        /\ OutOfOrder(s).name = "OutOfOrder"
    BY DEF OutOfOrder, Reply
  <2>3. AcksInv'
    <3>1. outputAck <= peerAck + 1 /\ InOrder(replies, outputAck, peerAck, received)
      BY DEF DeliveryInv, AcksInv
    <3>2. InOrder(replies', outputAck, peerAck, received)
      BY <1>0, <2>1, <2>2, <3>1, AppendedInOrder
    <3> QED BY <2>1, <3>1, <3>2 DEF AcksInv, output
  <2> QED BY <2>1, <2>3 DEF output, DeliveryInv, CacheInv, WayInv
<1>6. ASSUME NEW i \in DOMAIN replies, ReceiveReply(i) PROVE DeliveryInv'
  <2>1. i = 1 /\ replies' = RemoveAt(replies, i) /\ UNCHANGED <<received, peerAck, arrivals>>
    BY <1>6 DEF ReceiveReply
  <2>2. CASE replies[i].name = "Ack" /\ HandleAck(replies[i].seq)
    BY <2>1, <2>2, AckDelivers
  <2>3. CASE replies[i].name = "OutOfOrder" /\ HandleOutOfOrder(replies[i].seq)
    BY <2>1, <2>3, ReportDelivers
  <2> QED BY <1>6, <2>2, <2>3 DEF ReceiveReply
<1>7. ASSUME NEW i \in DOMAIN replies, LoseReply(i) PROVE DeliveryInv'
  <2>1. replies' = RemoveAt(replies, i) /\ UNCHANGED <<output, queues, received, peerAck>>
    BY <1>7 DEF LoseReply
  <2>2. InOrder(replies', outputAck, peerAck, received)
    BY <1>0, <2>1, RemovedInOrder DEF DeliveryInv, AcksInv
  <2> QED BY <2>1, <2>2 DEF output, DeliveryInv, AcksInv, CacheInv, WayInv
<1> QED BY <1>1, <1>2, <1>3, <1>4, <1>5, <1>6, <1>7 DEF PeerAndNetwork

\* At the start nothing is cached and nothing is missed.
LEMMA InitDelivers == Init => DeliveryInv
<1> SUFFICES ASSUME Init PROVE DeliveryInv
  OBVIOUS
<1>1. AcksInv
  BY DEF Init, AcksInv, InOrder
<1>2. CacheInv /\ WayInv
  BY DEF Init, CacheInv, WayInv, Packets
<1> QED BY <1>1, <1>2 DEF DeliveryInv

\* Every step keeps both invariants.
LEMMA DeliveryStep ==
  ASSUME "reorder" \notin ReplyFaults
  PROVE  StateInv /\ DeliveryInv /\ [Next]_vars => DeliveryInv'
<1> SUFFICES ASSUME StateInv, DeliveryInv, [Next]_vars PROVE DeliveryInv'
  OBVIOUS
<1>1. CASE UNCHANGED vars
  BY <1>1 DEF vars, output, peer, DeliveryInv, AcksInv, CacheInv, WayInv
<1>2. CASE Application
  BY <1>2, ApplicationDelivers DEF Application
<1> QED BY <1>1, <1>2, ServerDelivers, PeerDelivers DEF Next

\* Both invariants hold in every state.
LEMMA DeliveryAlways ==
  ASSUME "reorder" \notin ReplyFaults
  PROVE  Spec => [](StateInv /\ DeliveryInv)
<1>1. StateInv /\ DeliveryInv /\ [Next]_vars => StateInv' /\ DeliveryInv'
  BY StateStep, DeliveryStep
<1>2. Init => StateInv /\ DeliveryInv
  BY InitState, InitDelivers
<1> QED BY <1>1, <1>2, PTL DEF Spec

\* If acknowledgements may be lost but not overtake each other, the cache never
\* loses a packet the peer still misses: every packet can be sent again.
THEOREM Cached ==
  ASSUME "reorder" \notin ReplyFaults
  PROVE  Spec => []CachedUntilReceived
<1>1. StateInv /\ DeliveryInv => CachedUntilReceived
  <2> SUFFICES ASSUME StateInv, DeliveryInv, NEW p \in 0..sequence, p > Contiguous
               PROVE  p \in cache
    BY DEF CachedUntilReceived
  <2>1. /\ peerAck <= Contiguous /\ Contiguous \in Int
        /\ peerAck \in Int /\ outputAck \in Int /\ sequence \in Int
        /\ outputAck <= peerAck + 1
    BY AckGrows DEF StateInv, PeerInv, OutputInv, SequenceSpace, Packets,
         DeliveryInv, AcksInv
  <2>2. p \in Packets
    BY StreamAssumption DEF StateInv, OutputInv, Packets
  <2>3. p >= outputAck /\ p <= sequence
    BY <2>1
  <2> QED BY <2>2, <2>3 DEF DeliveryInv, CacheInv
<1> QED BY <1>1, DeliveryAlways, PTL

\* Under the same condition no packet the peer misses is forgotten, packet 0
\* excepted: it is buffered, queued, waiting to be sent again or tracked.
THEOREM NothingForgotten ==
  ASSUME "reorder" \notin ReplyFaults
  PROVE  Spec => []MissedIsOnItsWay
<1>1. StateInv /\ DeliveryInv => MissedIsOnItsWay
  <2> SUFFICES ASSUME StateInv, DeliveryInv, NEW p \in (1..sequence) \ received
               PROVE  OnItsWay(p)
    BY DEF MissedIsOnItsWay
  <2>1. p \in Packets \ {0} /\ p <= sequence
    BY StreamAssumption DEF StateInv, OutputInv, Packets
  <2>2. Somewhere(queues, p)
    BY <2>1 DEF DeliveryInv, WayInv
  <2>3. Data(p).name = "Data" /\ Data(p).seq = p
    BY <2>1, Names
  <2>4. \A d : \A i \in DOMAIN d : d[i] = Data(p) => p \in Named(d, "Data")
    BY <2>3 DEF Named
  <2>5. Waits(queues, p) => p \in Named(queues.waiting, "Data")
    BY <2>4 DEF Waits
  <2>6. /\ queues.out \in Seq(Seq(LogicalPackets))
        /\ queues.priority \in Seq(Seq(LogicalPackets))
    BY QueuesParts DEF StateInv, QueuesInv, QueueInv, Shape
  <2>7. \A ds \in Seq(Seq(LogicalPackets)) : \A i \in DOMAIN ds :
          Alone(ds[i], p) => ds[i] \in ToSet(ds) /\ p \in Named(ds[i], "Data")
    <3> SUFFICES ASSUME NEW ds \in Seq(Seq(LogicalPackets)), NEW i \in DOMAIN ds,
                        Alone(ds[i], p)
                 PROVE  ds[i] \in ToSet(ds) /\ p \in Named(ds[i], "Data")
      OBVIOUS
    <3>1. ds[i] \in Seq(LogicalPackets) /\ ds[i] \in ToSet(ds)
      BY DEF ToSet
    <3>2. 1 \in DOMAIN ds[i] /\ ds[i][1] = Data(p)
      BY <3>1 DEF Alone
    <3> QED BY <2>4, <3>1, <3>2
  <2>8. Queued(queues, p) => \E d \in ToSet(queues.out) : p \in Named(d, "Data")
    BY <2>6, <2>7 DEF Queued
  <2>9. Resending(queues, p) => \E d \in ToSet(queues.priority) : p \in Named(d, "Data")
    BY <2>6, <2>7 DEF Resending
  <2> QED BY <2>2, <2>5, <2>8, <2>9 DEF OnItsWay, Sent, Somewhere, Tracked
<1> QED BY <1>1, DeliveryAlways, PTL
=============================================================================
