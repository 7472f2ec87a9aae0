----------------------------- MODULE SoeSession -----------------------------
(***************************************************************************)
(* The sending half of an SOE session: what SOEServer keeps for one client *)
(* (servers/SoeServer/soeserver.ts, soeclient.ts), the client's            *)
(* SOEOutputStream (soeoutputstream.ts), an unreliable network and the     *)
(* peer that acknowledges.                                                 *)
(*                                                                         *)
(* The application's packets are buffered for some milliseconds (waiting   *)
(* queue), cached for retransmission, sent by a routine that runs for ever *)
(* under a rate limit, tracked until acknowledged, and sent again through  *)
(* the priority queue when no acknowledgement came in time.  The same      *)
(* queues carry the acknowledgements of what the peer sent.                *)
(*                                                                         *)
(* Clocks are abstracted to what they trigger: a tracked packet is "fresh" *)
(* until its resend time-out has passed and "due" afterwards.  Sizes in    *)
(* bytes are counted in packets.  The stream ends before its sequence      *)
(* numbers wrap (SoeInputStream looks at the wrap).                        *)
(***************************************************************************)
EXTENDS WrappedUint16, AppStream, SequencesExt

CONSTANTS
  Small,          \* packets whose "Data" datagram is shorter than 255 bytes
  MaxMulti,       \* packets that fit in one MultiPacket (_maxMultiBufferSize)
  PacketRate,     \* _currentPacketRatePerClient, also priorityQueueWarningLevel
  InboundLen,     \* bound: packets the peer sends
  MaxArrivals,    \* bound: pings and packets out of order the peer sends
  MaxReplies,     \* bound: acknowledgements in flight
  ReplyFaults     \* what the network does to the acknowledgements

ASSUME SessionAssumption ==
  /\ Small \subseteq Packets
  /\ {MaxMulti, PacketRate, MaxReplies} \subseteq Nat \ {0}
  /\ {InboundLen, MaxArrivals} \subseteq Nat
  /\ ReplyFaults \subseteq {"loss", "reorder"}
  /\ StreamLen < MAX_SEQUENCE /\ InboundLen < MAX_SEQUENCE

VARIABLES
  sequence,         \* outputStream._sequence
  outputAck,        \* outputStream._lastAck
  cache,            \* outputStream._cache: the cached sequence numbers
  queues,           \* the client's queues and timers, see QueuesType
  sentThisSec,      \* packetsSentThisSec
  issues,           \* hasConnectionsIssues
  nextAck,          \* nextAck: what the peer's packets are received up to
  lastAck,          \* lastAck: what has been acknowledged to the peer
  ackDue,           \* lastAckTime + _ackTiming has passed
  outOfOrder,       \* outOfOrderPackets
  network,          \* datagrams with data on their way to the peer
  answers,          \* history: the acknowledgements sent to the peer
  received,         \* packets the peer has received
  peerAck,          \* the last acknowledgement the peer sent
  replies,          \* acknowledgements on their way back
  arrivals          \* pings and packets out of order the peer has sent

output == <<sequence, outputAck, cache>>
inbound == <<nextAck, lastAck, ackDue, outOfOrder>>
peer == <<received, peerAck, replies, arrivals>>
wires == <<network, answers>>
vars == <<output, queues, sentThisSec, issues, inbound, wires, peer>>

(***************************************************************************)
(* Logical packets and datagrams.  A datagram of several logical packets   *)
(* is a MultiPacket.                                                       *)
(***************************************************************************)
LogicalPackets ==
  [name : {"Data"}, seq : Packets]
    \cup [name : {"Ack", "OutOfOrder"}, seq : 0..(InboundLen - 1)]
    \cup [name : {"SessionReply", "Ping"}, seq : {-1}]

Data(p)       == [name |-> "Data", seq |-> p]
Ack(s)        == [name |-> "Ack", seq |-> s]
OutOfOrder(s) == [name |-> "OutOfOrder", seq |-> s]
Control(n)    == [name |-> n, seq |-> -1]

\* The sequence numbers of the packets of this name in a datagram, in a set
\* of datagrams.
Named(datagram, name) ==
  {datagram[i].seq : i \in {j \in DOMAIN datagram : datagram[j].name = name}}
Sent(datagrams, name) == UNION {Named(d, name) : d \in datagrams}

Fits(packet) == packet.name = "Data" => packet.seq \in Small

(***************************************************************************)
(* The queues of a client.                                                 *)
(***************************************************************************)
QueuesType ==
  [waiting  : Seq(LogicalPackets),         \* waitingQueue
   timer    : BOOLEAN,                     \* waitQueueTimer is set
   out      : Seq(Seq(LogicalPackets)),    \* outQueue
   priority : Seq(Seq(LogicalPackets)),    \* priorityQueue
   unAck    : [Packets -> {"none", "fresh", "due"}]]     \* unAckData

Track(q, packets) ==
  [q EXCEPT !.unAck = [p \in Packets |-> IF p \in packets THEN "fresh" ELSE @[p]]]

\* Mutant: the fragments of a MultiPacket are not tracked.
TrackedSingles(packets) ==
  {packets[i].seq : i \in {j \in DOMAIN packets :
     packets[j].name = "Data" /\ packets[j].seq # 0 /\ ~IsFragment(packets[j].seq)}}

\* In a MultiPacket a "Data" packet is tracked if its sequence number is not
\* 0, a "DataFragment" in any case; a packet alone is tracked when it is sent.
TrackedTogether(packets) ==
  {packets[i].seq : i \in {j \in DOMAIN packets :
     packets[j].name = "Data" /\ (packets[j].seq # 0 \/ IsFragment(packets[j].seq))}}

\* sendClientWaitQueue
FlushWaiting(q) ==
  LET flushed == [q EXCEPT !.timer = FALSE, !.waiting = <<>>]
      queued  == [flushed EXCEPT !.out = Append(@, q.waiting)]
  IN  IF q.waiting = <<>> THEN flushed
      ELSE IF Len(q.waiting) = 1 THEN queued
      ELSE Track(queued, TrackedTogether(q.waiting))

\* _sendLogicalPacket without priority: buffered if allowed and if it fits,
\* otherwise queued behind what is buffered.
SendLogical(q, packet, unbuffered) ==
  IF ~unbuffered /\ Fits(packet) /\ Len(q.waiting) < MaxMulti
  THEN [q EXCEPT !.waiting = Append(@, packet), !.timer = TRUE]
  ELSE LET flushed == FlushWaiting(q)
       IN  [flushed EXCEPT !.out = Append(@, <<packet>>)]

\* The queues after the first i packets were sent, one after the other, those
\* in stale left out.
Sendings(q, packets, stale, unbuffered) ==
  LET after[i \in 0..Len(packets)] ==
        IF i = 0 THEN q
        ELSE IF packets[i] \in stale THEN after[i - 1]
        ELSE SendLogical(after[i - 1], packets[i], unbuffered)
  IN  after

SendAll(q, packets, stale, unbuffered) ==
  Sendings(q, packets, stale, unbuffered)[Len(packets)]

\* _sendLogicalPacket with priority.
Prioritize(q, packet) == [q EXCEPT !.priority = Append(@, <<packet>>)]

\* Mutant: one more than the rate.
AllowedOneMore(queue, sent) ==
  IF sent + Len(queue) <= PacketRate + 1 THEN Len(queue)
  ELSE IF sent < PacketRate + 1 THEN PacketRate + 1 - sent ELSE 0

\* How many datagrams of a queue the rate limit lets go.
Allowed(queue, sent) ==
  IF sent + Len(queue) <= PacketRate THEN Len(queue)
  ELSE IF sent < PacketRate THEN PacketRate - sent ELSE 0

\* The packets tracked when these datagrams are sent: those alone in their
\* datagram, with a sequence number that is not falsy.
TrackedOnSend(datagrams) ==
  {d[1].seq : d \in {e \in ToSet(datagrams) :
                       Len(e) = 1 /\ e[1].name = "Data" /\ e[1].seq # 0}}

(***************************************************************************)
(* The routine of a client (soeClientRoutine), step by step.  c is the     *)
(* part of the client's state the routine changes.                         *)
(***************************************************************************)
Client == [q |-> queues, lastAck |-> lastAck, outOfOrder |-> outOfOrder,
           issues |-> issues, sent |-> sentThisSec, wire |-> {}]

\* checkAck
CheckAck(c) ==
  IF c.lastAck = nextAck THEN c
  ELSE [c EXCEPT !.lastAck = nextAck, !.q = SendLogical(@, Ack(nextAck), FALSE)]

\* The first n packets out of order are reported, unless the acknowledgement
\* has passed them.
Report(c, n) ==
  LET reports == [i \in 1..n |-> OutOfOrder(c.outOfOrder[i])]
      stale == {OutOfOrder(s) : s \in 0..c.lastAck}
  IN  [c EXCEPT !.outOfOrder = SubSeq(@, n + 1, Len(@)),
                !.q = SendAll(@, reports, stale, FALSE)]

\* Mutant: half of the queue, rounded down.
CheckOutOfOrderRoundedDown(c) == Report(c, Len(c.outOfOrder) \div 2)

\* checkOutOfOrderQueue: the bound of its loop shrinks with the queue, so a
\* call handles half of it, rounded up.
CheckOutOfOrder(c) == Report(c, (Len(c.outOfOrder) + 1) \div 2)

Due(c) == {p \in Packets : c.q.unAck[p] = "due"}

\* Mutant: what is sent again stays tracked with its old time.
CheckResendStillTracked(c, order) ==
  [c EXCEPT !.q.priority = @ \o [i \in DOMAIN order |-> <<Data(order[i])>>]]

\* checkResendQueue: what is due is sent again if it is still cached (order:
\* those packets, in the order of the map), and not tracked until then.
CheckResend(c, order) ==
  LET again == [i \in DOMAIN order |-> <<Data(order[i])>>]
      untracked == [p \in Packets |-> IF p \in Due(c) THEN "none" ELSE c.q.unAck[p]]
  IN  [c EXCEPT !.q = [c.q EXCEPT !.priority = @ \o again, !.unAck = untracked]]

\* sendPriorityQueue and sendOutQueue: datagrams leave until the rate limit.
Send(c, datagrams, q) ==
  [c EXCEPT !.q = Track(q, TrackedOnSend(datagrams)),
            !.sent = @ + Len(datagrams),
            !.wire = @ \cup ToSet(datagrams)]

\* Mutant: what is sent again is not tracked again.
SendPriorityQueueUntracked(c) ==
  LET n == Allowed(c.q.priority, c.sent)
  IN  [c EXCEPT !.q.priority = SubSeq(@, n + 1, Len(@)),
                !.sent = @ + n,
                !.wire = @ \cup ToSet(SubSeq(c.q.priority, 1, n))]

SendPriorityQueue(c) ==
  LET n == Allowed(c.q.priority, c.sent)
  IN  Send(c, SubSeq(c.q.priority, 1, n),
           [c.q EXCEPT !.priority = SubSeq(@, n + 1, Len(@))])

SendOutQueue(c) ==
  LET n == Allowed(c.q.out, c.sent)
  IN  Send(c, SubSeq(c.q.out, 1, n), [c.q EXCEPT !.out = SubSeq(@, n + 1, Len(@))])

\* checkClientOutQueues
CheckQueues(c) ==
  LET checked ==
        IF c.q.priority # <<>>
        THEN SendPriorityQueue([c EXCEPT !.issues =
                                  @ \/ Len(c.q.priority) > PacketRate])
        ELSE [c EXCEPT !.issues = FALSE]
  IN  SendOutQueue(checked)

\* The routine leaves the client as c, and sends.
RoutineEnds(c) ==
  /\ queues' = c.q
  /\ lastAck' = c.lastAck
  /\ outOfOrder' = c.outOfOrder
  /\ issues' = c.issues
  /\ sentThisSec' = c.sent
  /\ network' = network \cup {d \in c.wire : Named(d, "Data") # {}}
  /\ answers' = [Ack |-> answers.Ack \cup Sent(c.wire, "Ack"),
                 OutOfOrder |-> answers.OutOfOrder \cup Sent(c.wire, "OutOfOrder")]
  /\ ackDue' = FALSE
  /\ UNCHANGED <<output, nextAck, peer>>

Routine ==
  \E acks \in {IF ackDue \/ issues THEN CheckOutOfOrder(CheckAck(Client)) ELSE Client} :
  \E order \in SetToSeqs(Due(acks) \cap cache) :
  \E resent \in {IF issues THEN acks ELSE CheckResend(acks, order)} :
  \E client \in {CheckQueues(resent)} :
    RoutineEnds(client)

(***************************************************************************)
(* The application, the timers and the packets of the peer.                *)
(***************************************************************************)

\* sendAppData and sendUnbufferedAppData: outputStream.write caches the
\* packets of the next message and emits them.
SendAppData(unbuffered) ==
  LET h == sequence + 1
  IN  /\ h \in Packets
      /\ sequence' = sequence + SizeOf[h]
      /\ cache' = cache \cup (h..sequence')
      /\ queues' = SendAll(queues, [i \in 1..SizeOf[h] |-> Data(Message(h)[i])],
                           {}, unbuffered)
      /\ UNCHANGED <<outputAck, sentThisSec, issues, inbound, wires, peer>>

\* The 50 ms of the waiting queue are over.
WaitQueueTimeout ==
  /\ queues.timer
  /\ queues' = FlushWaiting(queues)
  /\ UNCHANGED <<output, sentThisSec, issues, inbound, wires, peer>>

\* resetPacketsSent, once per second.
ResetPacketsSent ==
  /\ sentThisSec > 0
  /\ sentThisSec' = 0
  /\ UNCHANGED <<output, queues, issues, inbound, wires, peer>>

\* 80 ms without acknowledging have passed.
AckTimePasses ==
  /\ ~ackDue
  /\ ackDue' = TRUE
  /\ UNCHANGED <<output, queues, sentThisSec, issues, nextAck, lastAck,
                 outOfOrder, wires, peer>>

\* 800 ms without an acknowledgement of packet p have passed.
ResendTimePasses(p) ==
  /\ queues.unAck[p] = "fresh"
  /\ queues' = [queues EXCEPT !.unAck[p] = "due"]
  /\ UNCHANGED <<output, sentThisSec, issues, inbound, wires, peer>>

\* Mutant: one packet too many.
AckedRangeOneMore(from, ack) ==
  IF from = wrap(ack + 2) THEN {}
  ELSE IF from = -1 THEN 0..(ack + 1)
  ELSE {s \in SequenceSpace : Mask(s - from) <= Mask(ack + 1 - from)}

\* Mutant: the acknowledged packet itself is left out.
AckedRangeOneLess(from, ack) ==
  IF from = ack THEN {}
  ELSE IF from = -1 THEN 0..(ack - 1)
  ELSE {s \in SequenceSpace : Mask(s - from) <= Mask(ack - 1 - from)}

\* The sequence numbers _lastAck passes on its way to the one behind ack,
\* round the sequence space if ack is behind it.
AckedRange(from, ack) ==
  IF from = wrap(ack + 1) THEN {}
  ELSE IF from = -1 THEN 0..ack
  ELSE {s \in SequenceSpace : Mask(s - from) <= Mask(ack - from)}

\* outputStream.ack
HandleAck(s) ==
  LET passed == AckedRange(outputAck, s)
  IN  /\ cache' = cache \ passed
      /\ queues' = [queues EXCEPT !.unAck =
                      [p \in Packets |-> IF p \in passed THEN "none" ELSE @[p]]]
      /\ outputAck' = wrap(s + 1)
      /\ UNCHANGED <<sequence, sentThisSec, issues, inbound, wires>>

\* The peer has packet s out of order: it need not be sent again.
HandleOutOfOrder(s) ==
  /\ queues' = [queues EXCEPT !.unAck[s] = "none"]
  /\ UNCHANGED <<output, sentThisSec, issues, inbound, wires>>

\* The "ack" and "outoforder" events of the client's input stream.
ReceiveInOrder ==
  /\ nextAck + 1 < InboundLen
  /\ nextAck' \in (nextAck + 1)..(InboundLen - 1)
  /\ UNCHANGED <<output, queues, sentThisSec, issues, lastAck, ackDue,
                 outOfOrder, wires, peer>>

ReceiveOutOfOrder(s) ==
  /\ s > nextAck + 1
  /\ arrivals < MaxArrivals
  /\ arrivals' = arrivals + 1
  /\ outOfOrder' = Append(outOfOrder, s)
  /\ UNCHANGED <<output, queues, sentThisSec, issues, nextAck, lastAck, ackDue,
                 wires, received, peerAck, replies>>

ReceivePing ==
  /\ arrivals < MaxArrivals
  /\ arrivals' = arrivals + 1
  /\ queues' = Prioritize(queues, Control("Ping"))
  /\ UNCHANGED <<output, sentThisSec, issues, inbound, wires, received,
                 peerAck, replies>>

(***************************************************************************)
(* The network and the peer (clients/soeclient.js, or the game's client).  *)
(* Datagrams to the peer are lost, repeated and reordered; so are the      *)
(* acknowledgements on their way back, as far as ReplyFaults says.         *)
(***************************************************************************)

\* The peer acknowledges up to the first packet it misses.
Contiguous == CHOOSE c \in -1..(StreamLen - 1) :
                /\ 0..c \subseteq received
                /\ c + 1 \notin received

Deliver(d) ==
  /\ d \in network
  /\ received' = received \cup Named(d, "Data")
  /\ network' \in {network, network \ {d}}
  /\ UNCHANGED <<output, queues, sentThisSec, issues, inbound, answers,
                 peerAck, replies, arrivals>>

Lose(d) ==
  /\ d \in network
  /\ network' = network \ {d}
  /\ UNCHANGED <<output, queues, sentThisSec, issues, inbound, answers, peer>>

PeerReply(packet) ==
  /\ Len(replies) < MaxReplies
  /\ replies' = Append(replies, packet)
  /\ UNCHANGED <<output, queues, sentThisSec, issues, inbound, wires,
                 received, arrivals>>

\* The peer's checkAck: an acknowledgement is sent when it changes.
PeerAcks ==
  /\ peerAck # Contiguous
  /\ peerAck' = Contiguous
  /\ PeerReply(Ack(Contiguous))

PeerReportsOutOfOrder(s) ==
  /\ s \in received /\ s > Contiguous
  /\ UNCHANGED peerAck
  /\ PeerReply(OutOfOrder(s))

ReceiveReply(i) ==
  /\ i \in DOMAIN replies
  /\ "reorder" \in ReplyFaults \/ i = 1
  /\ \/ replies[i].name = "Ack" /\ HandleAck(replies[i].seq)
     \/ replies[i].name = "OutOfOrder" /\ HandleOutOfOrder(replies[i].seq)
  /\ replies' = RemoveAt(replies, i)
  /\ UNCHANGED <<received, peerAck, arrivals>>

LoseReply(i) ==
  /\ "loss" \in ReplyFaults
  /\ i \in DOMAIN replies
  /\ replies' = RemoveAt(replies, i)
  /\ UNCHANGED <<output, queues, sentThisSec, issues, inbound, wires,
                 received, peerAck, arrivals>>

(***************************************************************************)
(* The session, from the SessionRequest on.                                *)
(***************************************************************************)
Init ==
  /\ sequence = -1
  /\ outputAck = -1
  /\ cache = {}
  /\ queues = [waiting |-> <<>>, timer |-> FALSE, out |-> <<>>,
               priority |-> <<<<Control("SessionReply")>>>>,
               unAck |-> [p \in Packets |-> "none"]]
  /\ sentThisSec = 0
  /\ issues = FALSE
  /\ nextAck = -1
  /\ lastAck = -1
  /\ ackDue = TRUE
  /\ outOfOrder = <<>>
  /\ network = {}
  /\ answers = [Ack |-> {}, OutOfOrder |-> {}]
  /\ received = {}
  /\ peerAck = -1
  /\ replies = <<>>
  /\ arrivals = 0

Server ==
  \/ Routine
  \/ WaitQueueTimeout
  \/ ResetPacketsSent
  \/ AckTimePasses
  \/ \E p \in Packets : ResendTimePasses(p)

Application == \E unbuffered \in BOOLEAN : SendAppData(unbuffered)

PeerAndNetwork ==
  \/ ReceiveInOrder
  \/ \E s \in 0..(InboundLen - 1) : ReceiveOutOfOrder(s)
  \/ ReceivePing
  \/ \E d \in network : Deliver(d) \/ Lose(d)
  \/ PeerAcks
  \/ \E s \in Packets : PeerReportsOutOfOrder(s)
  \/ \E i \in DOMAIN replies : ReceiveReply(i) \/ LoseReply(i)

Next == Server \/ Application \/ PeerAndNetwork

Spec == Init /\ [][Next]_vars

(***************************************************************************)
(* Fairness.  The routine re-arms itself for ever and the timers fire.  A  *)
(* packet that is sent again and again is delivered in the end; the peer   *)
(* acknowledges, and an acknowledgement that is not lost arrives.          *)
(***************************************************************************)
DeliverPacket(p) == \E d \in network : p \in Named(d, "Data") /\ Deliver(d)

Fairness ==
  /\ WF_vars(Routine)
  /\ WF_vars(WaitQueueTimeout)
  /\ WF_vars(ResetPacketsSent)
  /\ WF_vars(AckTimePasses)
  /\ \A p \in Packets : WF_vars(ResendTimePasses(p)) /\ SF_vars(DeliverPacket(p))
  /\ WF_vars(ReceiveReply(1))
  /\ SF_vars(PeerAcks)

FairSpec == Spec /\ Fairness

(***************************************************************************)
(* Properties.                                                             *)
(***************************************************************************)

\* The type invariant.  Never more datagrams a second than the rate.
TypeOK ==
  /\ sequence \in Packets \cup {-1}
  /\ outputAck \in SequenceSpace \cup {-1}
  /\ cache \subseteq Packets
  /\ queues.waiting \in Seq(LogicalPackets) /\ Len(queues.waiting) <= MaxMulti
  /\ queues.timer = (queues.waiting # <<>>)
  /\ queues.out \in Seq(Seq(LogicalPackets))
  /\ queues.priority \in Seq(Seq(LogicalPackets))
  /\ queues.unAck \in [Packets -> {"none", "fresh", "due"}]
  /\ sentThisSec \in 0..PacketRate
  /\ {issues, ackDue} \subseteq BOOLEAN
  /\ -1 <= lastAck /\ lastAck <= nextAck /\ nextAck < InboundLen
  /\ outOfOrder \in Seq(0..(InboundLen - 1))
  /\ network \subseteq Seq(LogicalPackets)
  /\ answers.Ack \cup answers.OutOfOrder \subseteq 0..(InboundLen - 1)
  /\ received \subseteq 0..sequence
  /\ peerAck \in Packets \cup {-1}
  /\ Len(replies) <= MaxReplies
  /\ arrivals \in 0..MaxArrivals

\* A packet the peer still misses is still in the cache, so that it can be
\* sent again: an acknowledgement deletes what is behind it and nothing else
\* (SOEOutputStream.ack, "delete all data / timers cached for the sequences
\* behind the given ack sequence").
CachedUntilReceived ==
  \A p \in 0..sequence : p > Contiguous => p \in cache

\* Packet p is in a queue, or its resend timer is running.
OnItsWay(p) ==
  \/ queues.unAck[p] # "none"
  \/ p \in Sent({queues.waiting} \cup ToSet(queues.out) \cup ToSet(queues.priority),
                "Data")

\* No packet the peer misses is forgotten: it waits in a queue or is tracked,
\* through buffering, rate limiting, resending and the peer's reports.  Packet
\* 0 is the exception: its sequence number is falsy (soeserver.ts, lines 118,
\* 134 and 226).
MissedIsOnItsWay ==
  \A p \in (1..sequence) \ received : OnItsWay(p)

\* At most one copy of a packet waits to be resent, and its timer does not run
\* meanwhile: a slow connection does not multiply the retransmissions
\* (checkResendQueue and the priority queue).
NoDoubleResend ==
  \A i \in DOMAIN queues.priority :
    LET packet == queues.priority[i][1]
    IN  packet.name = "Data" =>
          /\ queues.unAck[packet.seq] = "none"
          /\ \A j \in DOMAIN queues.priority :
               queues.priority[j] = queues.priority[i] => j = i

\* Once the first packet is received, every other one is in the end, whatever
\* the network loses on the way, under the rate limit (checkResendQueue,
\* sendPriorityQueue, sendOutQueue).
EventuallyReceived ==
  \A p \in Packets : (p <= sequence /\ 0 \in received) ~> p \in received

\* When all packets were received and no acknowledgement is lost, the cache
\* and the resend timers are empty in the end: retransmission stops.
RetransmissionStops ==
  [](sequence = StreamLen - 1 /\ received = Packets =>
       <>(cache = {} /\ \A p \in Packets : queues.unAck[p] = "none"))

\* Packet s of the peer is answered on the wire: acknowledged, alone or with
\* later ones, or reported out of order.
Acknowledged(s) == \E ack \in answers.Ack : ack >= s
Answered(s) == Acknowledged(s) \/ s \in answers.OutOfOrder

\* Each packet received from the peer is answered in the end, even while the
\* connection has issues (checkAck, checkOutOfOrderQueue).
EventuallyAnswered ==
  \A s \in 0..(InboundLen - 1) :
    /\ nextAck = s ~> Acknowledged(s)
    /\ s \in ToSet(outOfOrder) ~> Answered(s)
=============================================================================
