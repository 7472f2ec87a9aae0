--------------------------- MODULE SoeInputStream --------------------------
(***************************************************************************)
(* The receiving half of an SOE session: class SOEInputStream              *)
(* (servers/SoeServer/soeinputstream.ts) fed by SOEServer.handlePacket.    *)
(*                                                                         *)
(* A datagram holds one logical packet or, as a MultiPacket, several.  Its *)
(* handler calls write() for each, synchronously; the microtasks that      *)
(* write() queued run when the handler has returned, before the event loop *)
(* takes the next datagram.  The network may lose, duplicate, reorder and  *)
(* regroup the packets of the stream: any datagram of sent packets may     *)
(* arrive at any time.  A payload is the identity of its packet; the size  *)
(* of a fragmented message is counted in packets instead of bytes.         *)
(***************************************************************************)
EXTENDS WrappedUint16, AppStream, FiniteSets

CONSTANT MaxBatch      \* bound: packets in one datagram

ASSUME MaxBatchAssumption == MaxBatch \in Nat \ {0}

None == -1             \* no entry in _fragments

VARIABLES
  fragments,           \* _fragments: the packet stored for each sequence
  nextSequence,        \* _nextSequence
  lastAck,             \* _lastAck, the value of the last "ack" event
  lastProcessed,       \* _lastProcessedSequence
  has_cpf,             \* has_cpf: a fragmented message is being rebuilt
  cpf_totalSize,       \* cpf_totalSize, in packets
  cpf_data,            \* cpf_dataWithoutHeader: the packets copied so far
  microtasks,          \* queued _processData microtasks
  batch,               \* rest of the datagram being handled
  delivered            \* history: the "appdata" events, one per message

cpf == <<has_cpf, cpf_totalSize, cpf_data>>
vars == <<fragments, nextSequence, lastAck, lastProcessed, cpf, microtasks,
          batch, delivered>>

\* The sequence number of packet p on the wire.
Wire(p) == p % (MAX_SEQUENCE + 1)

Init ==
  /\ fragments = [s \in SequenceSpace |-> None]
  /\ nextSequence = 0
  /\ lastAck = -1
  /\ lastProcessed = -1
  /\ has_cpf = FALSE
  /\ cpf_totalSize = -1
  /\ cpf_data = <<>>
  /\ microtasks = 0
  /\ batch = <<>>
  /\ delivered = <<>>

Has(frags, s) == s \in SequenceSpace /\ frags[s] # None

Size(frags) == Cardinality({s \in SequenceSpace : frags[s] # None})

(***************************************************************************)
(* _processData, on the fragments as write() left them, with tasks         *)
(* microtasks still queued.                                                *)
(***************************************************************************)

\* Nothing stored for the next sequence number.
ProcessNothing(frags, tasks, seq) ==
  /\ ~Has(frags, seq)
  /\ fragments' = frags
  /\ microtasks' = tasks
  /\ UNCHANGED <<lastProcessed, cpf, delivered>>

\* Mutant: no further run of _processData is queued.
HandOverWithoutTask(frags, tasks, last, message, removed) ==
  /\ fragments' = [s \in SequenceSpace |->
                     IF s \in removed THEN None ELSE frags[s]]
  /\ lastProcessed' = last
  /\ delivered' = Append(delivered, message)
  /\ microtasks' = tasks

\* A whole message goes to the application; another run of _processData is
\* queued if the sequence number after it (unmasked) is stored already.
HandOver(frags, tasks, last, message, removed) ==
  /\ fragments' = [s \in SequenceSpace |->
                     IF s \in removed THEN None ELSE frags[s]]
  /\ lastProcessed' = last
  /\ delivered' = Append(delivered, message)
  /\ microtasks' = IF Has(fragments', last + 1) THEN tasks + 1 ELSE tasks

\* Mutant: the reassembly state is not reset.
CompleteMessageKeepsCpf(frags, tasks, last, message, removed) ==
  /\ HandOver(frags, tasks, last, message, removed)
  /\ has_cpf' = TRUE

\* The last fragment of the message being rebuilt has been copied.
CompleteMessage(frags, tasks, last, message, removed) ==
  /\ HandOver(frags, tasks, last, message, removed)
  /\ has_cpf' = FALSE

\* A fragment of it is missing: the copied ones are kept for the next call.
KeepIncomplete(frags, tasks) ==
  /\ has_cpf' = TRUE
  /\ fragments' = frags
  /\ microtasks' = tasks
  /\ UNCHANGED <<lastProcessed, delivered>>

ProcessSingle(frags, tasks, seq) ==
  /\ Has(frags, seq)
  /\ ~IsFragment(frags[seq])
  /\ HandOver(frags, tasks, seq, <<frags[seq]>>, {seq})
  /\ UNCHANGED cpf

\* The reassembly loop: the packets at indexes i0..k-1 after the head are
\* copied, and it stops at k because the message is complete, because the
\* bound on i is reached, or because the packet is missing.  The head stays
\* in _fragments.
ProcessFragments(frags, tasks, seq) ==
  LET total == IF has_cpf THEN cpf_totalSize ELSE SizeOf[frags[seq]]
      data  == IF has_cpf THEN cpf_data ELSE <<frags[seq]>>
      i0    == Len(data) - 1
      At(i) == FragmentIndex(seq + 1 + i)
      Copied(k) == [j \in 1..(k - i0) |-> frags[At(i0 + j - 1)]]
  IN
  /\ Has(frags, seq)
  /\ IsFragment(frags[seq])
  /\ \E k \in i0..(total - 1) :
       /\ \A i \in i0..(k - 1) : i < Size(frags) /\ Has(frags, At(i))
       /\ \/ /\ k = total - 1
             /\ CompleteMessage(frags, tasks, At(k - 1), data \o Copied(k),
                                {At(i) : i \in 0..(k - 1)})
          \/ /\ k < total - 1
             /\ k >= Size(frags) \/ ~Has(frags, At(k))
             /\ KeepIncomplete(frags, tasks)
       /\ cpf_totalSize' = total
       /\ cpf_data' = data \o Copied(k)

\* Mutant: the packet just acknowledged is processed, whatever came before.
ProcessLatestData(frags, tasks) ==
  LET seq == Mask(lastAck')
  IN  \/ ProcessNothing(frags, tasks, seq)
      \/ ProcessSingle(frags, tasks, seq)
      \/ ProcessFragments(frags, tasks, seq)

ProcessData(frags, tasks) ==
  LET seq == Mask(lastProcessed + 1)
  IN  \/ ProcessNothing(frags, tasks, seq)
      \/ ProcessSingle(frags, tasks, seq)
      \/ ProcessFragments(frags, tasks, seq)

\* A queued microtask runs once the datagram is handled.
RunMicrotask ==
  /\ batch = <<>>
  /\ microtasks > 0
  /\ ProcessData(fragments, microtasks - 1)
  /\ UNCHANGED <<nextSequence, lastAck, batch>>

(***************************************************************************)
(* write(), once per logical packet of the datagram being handled.         *)
(***************************************************************************)

\* Mutant: a duplicate moves the acknowledgement back to itself.
DropDuplicateAcked ==
  /\ batch # <<>>
  /\ Wire(batch[1]) < nextSequence
  /\ lastAck' = Wire(batch[1])
  /\ batch' = Tail(batch)
  /\ UNCHANGED <<fragments, nextSequence, lastProcessed, cpf, microtasks,
                 delivered>>

\* Already acknowledged: ignored.
DropDuplicate ==
  /\ batch # <<>>
  /\ Wire(batch[1]) < nextSequence
  /\ batch' = Tail(batch)
  /\ UNCHANGED <<fragments, nextSequence, lastAck, lastProcessed, cpf,
                 microtasks, delivered>>

\* Beyond the next expected one: stored, "outoforder" is emitted.
StoreOutOfOrder ==
  /\ batch # <<>>
  /\ Wire(batch[1]) > nextSequence
  /\ fragments' = [fragments EXCEPT ![Wire(batch[1])] = batch[1]]
  /\ batch' = Tail(batch)
  /\ UNCHANGED <<nextSequence, lastAck, lastProcessed, cpf, microtasks,
                 delivered>>

\* The loop of acknowledgeInputData passes n stored sequence numbers.
RunBehindAck(frags, n) ==
  /\ \A i \in 1..n : Has(frags, Mask(lastAck + i))
  /\ n = MAX_SEQUENCE - 1 \/ ~Has(frags, Mask(lastAck + n + 1))

\* Mutant: everything up to the highest stored packet is acknowledged.
AcknowledgeHighest(frags, sequence) ==
  \E top \in SequenceSpace :
    /\ Has(frags, top)
    /\ \A s \in SequenceSpace : Has(frags, s) => s <= top
    /\ lastAck' = IF top > lastAck THEN top ELSE lastAck
    /\ nextSequence' = wrap(lastAck' + 1)

\* Mutant: one packet too many is taken as received.
AcknowledgeSkips(frags, sequence) ==
  \E n \in 0..(MAX_SEQUENCE - 1) :
    LET ack == IF n = 0 THEN sequence ELSE Mask(lastAck + n)
    IN  /\ RunBehindAck(frags, n)
        /\ lastAck' = IF ack > lastAck THEN ack ELSE lastAck
        /\ nextSequence' = wrap(lastAck' + 2)

Acknowledge(frags, sequence) ==
  \E n \in 0..(MAX_SEQUENCE - 1) :
    LET ack == IF n = 0 THEN sequence ELSE Mask(lastAck + n)
    IN  /\ RunBehindAck(frags, n)
        /\ lastAck' = IF ack > lastAck THEN ack ELSE lastAck
        /\ nextSequence' = wrap(lastAck' + 1)

\* The next expected one: stored, acknowledged together with the packets
\* stored behind it, and processed.
AcceptInOrder ==
  /\ batch # <<>>
  /\ Wire(batch[1]) = nextSequence
  /\ LET stored == [fragments EXCEPT ![nextSequence] = batch[1]]
     IN  /\ Acknowledge(stored, nextSequence)
         /\ ProcessData(stored, microtasks)
  /\ batch' = Tail(batch)

(***************************************************************************)
(* The event loop takes the next datagram.                                 *)
(***************************************************************************)
Idle == batch = <<>> /\ microtasks = 0

Datagrams == UNION {[1..n -> Packets] : n \in 1..MaxBatch}

ReceiveDatagram(d) ==
  /\ Idle
  /\ batch' = d
  /\ UNCHANGED <<fragments, nextSequence, lastAck, lastProcessed, cpf,
                 microtasks, delivered>>

Handle == DropDuplicate \/ StoreOutOfOrder \/ AcceptInOrder \/ RunMicrotask

Next == Handle \/ \E d \in Datagrams : ReceiveDatagram(d)

Spec == Init /\ [][Next]_vars

\* The event loop goes on, and a packet the sender keeps sending arrives
\* again and again (alone, at least).
Fairness ==
  /\ WF_vars(Handle)
  /\ \A p \in Packets : SF_vars(ReceiveDatagram(<<p>>))

FairSpec == Spec /\ Fairness

(***************************************************************************)
(* Properties.                                                             *)
(***************************************************************************)

\* The type invariant.  A message under reassembly is never complete.
TypeOK ==
  /\ fragments \in [SequenceSpace -> Packets \cup {None}]
  /\ nextSequence \in SequenceSpace
  /\ lastAck \in SequenceSpace \cup {-1}
  /\ lastProcessed \in SequenceSpace \cup {-1}
  /\ has_cpf \in BOOLEAN
  /\ cpf_totalSize \in Int
  /\ cpf_data \in Seq(Packets)
  /\ has_cpf => Len(cpf_data) \in 1..(cpf_totalSize - 1)
  /\ microtasks \in Nat
  /\ batch \in Seq(Packets)
  /\ delivered \in Seq(Seq(Packets))

LastPacket(message) == message[Len(message)]

\* The first packet after the messages delivered up to index k.
AfterDelivered(k) == IF k = 0 THEN 0 ELSE LastPacket(delivered[k]) + 1

\* The application gets whole messages, in the order they were sent, none
\* twice and none left out, whatever the network does to the datagrams
\* (SOEInputStream._processData and processFragmentedData).
DeliveredInOrder ==
  /\ \A k \in 1..Len(delivered) :
       /\ AfterDelivered(k - 1) \in Packets
       /\ delivered[k] = Message(AfterDelivered(k - 1))
  /\ lastProcessed + 1 = AfterDelivered(Len(delivered))

\* An acknowledged packet, which the sender deletes from its cache, has been
\* delivered or is still stored (acknowledgeInputData, line 171).
AckedNotLost ==
  \A p \in Packets :
    lastProcessed < p /\ p <= lastAck => fragments[Wire(p)] = p

\* Once the handler and its microtasks have run, nothing acknowledged waits
\* except a fragmented message that is not complete: otherwise only the
\* arrival of another packet in order could bring it to the application,
\* and the sender may have none left to send (_processData, lines 132-139).
NoStall ==
  Idle => LET p == lastProcessed + 1
          IN  \/ lastAck < p
              \/ IsFragment(p) /\ lastAck < p + SizeOf[p] - 1

\* The stream never expects the packet it has just handed over: the expected
\* sequence number advances, over the wrap-around too (wrappedUint16).
NotExpectingProcessed == nextSequence # lastProcessed

\* Fewer packets than sequence numbers: the stream ends before the wrap.
NoWrap == StreamLen < MAX_SEQUENCE

Ordered == INSTANCE OrderedDelivery WITH acked <- lastAck,
                                          next <- lastProcessed + 1

\* The stream is a faithful ordered-delivery service: what it acknowledges and
\* hands over are steps of OrderedDelivery.
ImplementsOrderedDelivery == Ordered!Spec

\* A packet that keeps arriving is delivered in the end: with a sender that
\* retransmits, the whole stream reaches the application.
AllDelivered == <>(lastProcessed = StreamLen - 1)
============================================================================
