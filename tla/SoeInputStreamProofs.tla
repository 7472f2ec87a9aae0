------------------------ MODULE SoeInputStreamProofs ------------------------
(***************************************************************************)
(* Proofs about SoeInputStream for every stream, every message layout and  *)
(* every behaviour of the network, as long as the sequence numbers do not  *)
(* wrap (NoWrap).                                                          *)
(***************************************************************************)
EXTENDS SoeInputStream, SequenceTheorems, FiniteSetTheorems, TLAPS

(***************************************************************************)
(* The inductive invariant.                                                *)
(***************************************************************************)

\* Each stored packet is stored under its own number.
StoredOK(frags) ==
  /\ frags \in [SequenceSpace -> Packets \cup {None}]
  /\ \A s \in SequenceSpace : frags[s] # None => frags[s] = s

\* What is acknowledged up to ack and not processed is stored, and the
\* packet after ack is not.
BufferedOK(frags, done, ack) ==
  /\ done \in -1..ack
  /\ \A p \in Packets : done < p /\ p <= ack => frags[p] = p
  /\ frags[ack + 1] = None

\* The message being rebuilt starts right after the processed packets, and
\* what is copied of it is an acknowledged, incomplete prefix of it.
ReassemblyOK(done, ack, active, total, data) ==
  /\ active \in BOOLEAN
  /\ total \in Int
  /\ data \in Seq(Packets)
  /\ active =>
       /\ done + 1 \in Packets
       /\ total = SizeOf[done + 1]
       /\ Len(data) \in 1..(total - 1)
       /\ done + Len(data) <= ack
       /\ \A i \in 1..Len(data) : data[i] = done + i

\* Where the delivered messages end, the next one begins.
HistoryOK(done, history) ==
  /\ history \in Seq(Seq(Packets))
  /\ done + 1 \in Packets => HeadOf[done + 1] = done + 1

\* The next message is acknowledged as a whole.
Ready(done, ack) ==
  done + 1 \in Packets /\ done + SizeOf[done + 1] <= ack

IInv ==
  /\ StoredOK(fragments)
  /\ lastAck \in -1..(StreamLen - 1)
  /\ nextSequence = lastAck + 1
  /\ BufferedOK(fragments, lastProcessed, lastAck)
  /\ ReassemblyOK(lastProcessed, lastAck, has_cpf, cpf_totalSize, cpf_data)
  /\ HistoryOK(lastProcessed, delivered)
  /\ DeliveredInOrder
  /\ microtasks \in Nat
  /\ Ready(lastProcessed, lastAck) => microtasks > 0
  /\ batch \in Seq(Packets)

(***************************************************************************)
(* Sequence-number arithmetic below the wrap.                              *)
(***************************************************************************)

\* Below its modulus a value is its own remainder.
LEMMA SmallModulo ==
  ASSUME NEW d \in Nat \ {0}, NEW v \in 0..(d - 1)
  PROVE  v % d = v
OBVIOUS

\* Masking leaves a sequence number alone, and a packet of a stream that
\* does not wrap travels under its own number.
LEMMA MaskSmall ==
  ASSUME NEW v \in SequenceSpace
  PROVE  Mask(v) = v /\ Wire(v) = v
BY SmallModulo, MaxSequenceAssumption DEF Mask, Wire, SequenceSpace

\* The index of the reassembly loop is right up to MAX_SEQUENCE - 1.
LEMMA IndexSmall ==
  ASSUME NEW v \in 0..(MAX_SEQUENCE - 1)
  PROVE  FragmentIndex(v) = v
BY SmallModulo, MaxSequenceAssumption DEF FragmentIndex

\* Every packet of a stream that does not wrap is a sequence number with a
\* successor.
LEMMA PacketsFit ==
  ASSUME NoWrap
  PROVE  /\ StreamLen \in Nat \ {0}
         /\ MAX_SEQUENCE \in Nat \ {0}
         /\ Packets \subseteq 0..(MAX_SEQUENCE - 2)
         /\ Packets \subseteq SequenceSpace
BY MaxSequenceAssumption, StreamAssumption DEF NoWrap, Packets, SequenceSpace

(***************************************************************************)
(* The messages of the stream.                                             *)
(***************************************************************************)

\* The assumption on the stream, packet by packet.
LEMMA MessageOf ==
  ASSUME NEW p \in Packets
  PROVE  /\ HeadOf[p] \in Nat /\ SizeOf[p] \in Nat \ {0} /\ p \in Nat
         /\ HeadOf[p] <= p /\ p < HeadOf[p] + SizeOf[p]
         /\ HeadOf[p] + SizeOf[p] <= StreamLen
         /\ \A q \in HeadOf[p]..(HeadOf[p] + SizeOf[p] - 1) :
              HeadOf[q] = HeadOf[p] /\ SizeOf[q] = SizeOf[p]
<1>1. HeadOf[p] \in Packets /\ SizeOf[p] \in Nat \ {0}
  BY StreamAssumption
<1>2. \A r \in Packets : r \in Nat
  BY DEF Packets
<1> QED BY <1>1, <1>2, StreamAssumption

\* A message stays within the stream, and the packet behind it, if there is
\* one, starts a message.
LEMMA MessageEnds ==
  ASSUME NEW h \in Packets, HeadOf[h] = h
  PROVE  /\ SizeOf[h] \in Nat \ {0}
         /\ h + SizeOf[h] - 1 \in Packets
         /\ h + SizeOf[h] \in Packets => HeadOf[h + SizeOf[h]] = h + SizeOf[h]
<1>1. SizeOf[h] \in Nat \ {0} /\ h + SizeOf[h] <= StreamLen /\ h \in Nat
      /\ \A q \in h..(h + SizeOf[h] - 1) : HeadOf[q] = h
  BY MessageOf
<1>2. h + SizeOf[h] - 1 \in Packets
  <2>1. StreamLen \in Nat
    BY StreamAssumption
  <2> QED BY <1>1, <2>1 DEF Packets
<1>3. ASSUME NEW e \in Packets, e = h + SizeOf[h]
      PROVE  HeadOf[e] = e
  <2>1. /\ HeadOf[e] \in Nat /\ SizeOf[e] \in Nat /\ HeadOf[e] <= e
        /\ e < HeadOf[e] + SizeOf[e]
        /\ \A q \in HeadOf[e]..(HeadOf[e] + SizeOf[e] - 1) :
             HeadOf[q] = HeadOf[e] /\ SizeOf[q] = SizeOf[e]
    BY MessageOf
  <2>2. SUFFICES ASSUME HeadOf[e] < e
                 PROVE  FALSE
    BY <2>1, <1>1, <1>3
  <2>3. HeadOf[e - 1] = HeadOf[e] /\ SizeOf[e - 1] = SizeOf[e]
    BY <2>1, <2>2, <1>1, <1>3
  <2>4. HeadOf[e - 1] = h /\ SizeOf[e - 1] = SizeOf[h]
    BY <1>1, <1>3, MessageOf
  <2> QED BY <2>1, <2>3, <2>4, <1>1, <1>3
<1> QED
  <2>1. CASE h + SizeOf[h] \in Packets
    BY <2>1, <1>1, <1>2, <1>3
  <2> QED BY <2>1, <1>1, <1>2

(***************************************************************************)
(* The steps of the stream.                                                *)
(***************************************************************************)

\* What one run of _processData does to an invariant state whose stored
\* packets are frags and whose acknowledgement is ack: nothing for the
\* application, or the next message and nothing else.
Processed(ack) ==
  /\ StoredOK(fragments')
  /\ BufferedOK(fragments', lastProcessed', ack)
  /\ ReassemblyOK(lastProcessed', ack, has_cpf', cpf_totalSize', cpf_data')
  /\ HistoryOK(lastProcessed', delivered')
  /\ microtasks' \in Nat
  /\ Ready(lastProcessed', ack) => microtasks' > 0
  /\ \/ UNCHANGED <<lastProcessed, delivered>>
     \/ /\ lastProcessed + 1 \in Packets
        /\ lastProcessed' = lastProcessed + SizeOf[lastProcessed + 1]
        /\ delivered' = Append(delivered, Message(lastProcessed + 1))

\* The packet a run of _processData looks at.
LEMMA NextIsAcked ==
  ASSUME NoWrap, NEW frags, NEW ack \in -1..(StreamLen - 1), StoredOK(frags),
         BufferedOK(frags, lastProcessed, ack),
         HistoryOK(lastProcessed, delivered),
         Has(frags, Mask(lastProcessed + 1))
  PROVE  /\ Mask(lastProcessed + 1) = lastProcessed + 1
         /\ lastProcessed + 1 \in Packets
         /\ lastProcessed + 1 <= ack
         /\ frags[lastProcessed + 1] = lastProcessed + 1
         /\ HeadOf[lastProcessed + 1] = lastProcessed + 1
<1>1. lastProcessed \in Int /\ lastProcessed >= -1 /\ lastProcessed <= ack
  BY DEF BufferedOK
<1>2. lastProcessed + 1 \in SequenceSpace
  BY <1>1, PacketsFit DEF NoWrap, SequenceSpace
<1>3. Mask(lastProcessed + 1) = lastProcessed + 1
  BY <1>2, MaskSmall
<1>4. frags[lastProcessed + 1] # None
  BY <1>3 DEF Has
<1>5. frags[lastProcessed + 1] = lastProcessed + 1 /\ lastProcessed + 1 \in Packets
  BY <1>2, <1>4 DEF StoredOK
<1>6. lastProcessed # ack
  BY <1>4 DEF BufferedOK
<1> QED BY <1>1, <1>3, <1>5, <1>6 DEF HistoryOK

\* After a hand-over another run is queued if the next message is complete.
LEMMA HandOverQueues ==
  ASSUME NoWrap, NEW frags, NEW tasks \in Nat, NEW ack \in -1..(StreamLen - 1),
         NEW last, NEW message, NEW removed,
         HandOver(frags, tasks, last, message, removed),
         BufferedOK(fragments', last, ack)
  PROVE  Ready(last, ack) => microtasks' > 0
<1> SUFFICES ASSUME Ready(last, ack)
             PROVE  microtasks' > 0
  OBVIOUS
<1>1. last \in Int /\ last + 1 \in Packets /\ SizeOf[last + 1] \in Nat \ {0}
  BY MessageOf, PacketsFit DEF Ready, BufferedOK
<1>2. fragments'[last + 1] = last + 1
  BY <1>1, PacketsFit DEF BufferedOK, Ready
<1>3. Has(fragments', last + 1)
  BY <1>1, <1>2, PacketsFit DEF Has, None
<1> QED BY <1>3 DEF HandOver

\* A run of _processData that finds a packet sent alone.
LEMMA SinglePreserves ==
  ASSUME NoWrap, NEW frags, NEW tasks \in Nat,
         NEW ack \in -1..(StreamLen - 1), StoredOK(frags),
         BufferedOK(frags, lastProcessed, ack),
         ReassemblyOK(lastProcessed, ack, has_cpf, cpf_totalSize, cpf_data),
         HistoryOK(lastProcessed, delivered),
         ProcessSingle(frags, tasks, Mask(lastProcessed + 1))
  PROVE  Processed(ack)
<1> DEFINE p == lastProcessed + 1
<1>1. /\ Mask(p) = p /\ p \in Packets /\ p <= ack /\ frags[p] = p
      /\ HeadOf[p] = p
  BY NextIsAcked DEF ProcessSingle
<1>2. SizeOf[p] = 1
  BY <1>1, MessageOf DEF ProcessSingle, IsFragment
<1>3. /\ fragments' = [s \in SequenceSpace |-> IF s \in {p} THEN None ELSE frags[s]]
      /\ lastProcessed' = p
      /\ delivered' = Append(delivered, <<p>>)
      /\ microtasks' \in {tasks, tasks + 1}
      /\ UNCHANGED cpf
      /\ HandOver(frags, tasks, p, <<p>>, {p})
  BY <1>1 DEF ProcessSingle, HandOver
<1> HIDE DEF p
<1>4. p \in Nat /\ lastProcessed \in Int /\ p = lastProcessed + 1
  BY <1>1 DEF p, Packets, BufferedOK
<1>5. StoredOK(fragments')
  BY <1>3 DEF StoredOK
<1>6. BufferedOK(fragments', lastProcessed', ack)
  BY <1>1, <1>3, <1>4, PacketsFit DEF BufferedOK, NoWrap, SequenceSpace
<1>7. has_cpf = FALSE
  BY <1>2, <1>4 DEF ReassemblyOK
<1>8. ReassemblyOK(lastProcessed', ack, has_cpf', cpf_totalSize', cpf_data')
  BY <1>3, <1>7 DEF ReassemblyOK, cpf
<1>9. HistoryOK(lastProcessed', delivered')
  <2>1. p + 1 \in Packets => HeadOf[p + 1] = p + 1
    BY <1>1, <1>2, MessageEnds
  <2>2. <<p>> \in Seq(Packets)
    BY <1>1
  <2> QED BY <1>3, <2>1, <2>2 DEF HistoryOK
<1>10. <<p>> = Message(p)
  BY <1>2, <1>4 DEF Message
<1>11. Ready(lastProcessed', ack) => microtasks' > 0
  BY <1>3, <1>6, HandOverQueues
<1> QED BY <1>1, <1>2, <1>3, <1>4, <1>5, <1>6, <1>8, <1>9, <1>10, <1>11
        DEF Processed

\* A run of _processData that finds a fragment: the reassembly loop.
LEMMA FragmentsPreserve ==
  ASSUME NoWrap, NEW frags, NEW tasks \in Nat,
         NEW ack \in -1..(StreamLen - 1), StoredOK(frags),
         BufferedOK(frags, lastProcessed, ack),
         ReassemblyOK(lastProcessed, ack, has_cpf, cpf_totalSize, cpf_data),
         HistoryOK(lastProcessed, delivered),
         ProcessFragments(frags, tasks, Mask(lastProcessed + 1))
  PROVE  Processed(ack)
<1> DEFINE h == lastProcessed + 1
           total == IF has_cpf THEN cpf_totalSize ELSE SizeOf[frags[h]]
           data == IF has_cpf THEN cpf_data ELSE <<frags[h]>>
           i0 == Len(data) - 1
           At(i) == FragmentIndex(h + 1 + i)
           Copied(k) == [j \in 1..(k - i0) |-> frags[At(i0 + j - 1)]]
<1>0. StreamLen \in Nat /\ ack \in Int /\ ack < StreamLen /\ ack + 1 >= 0
  BY PacketsFit
<1>1. /\ Mask(h) = h /\ h \in Packets /\ h <= ack /\ frags[h] = h
      /\ HeadOf[h] = h
  BY NextIsAcked DEF ProcessFragments
<1>2. h \in Nat /\ lastProcessed \in Int
  BY <1>1 DEF Packets, BufferedOK
<1>3. PICK k \in i0..(total - 1) :
        /\ \A i \in i0..(k - 1) : i < Size(frags) /\ Has(frags, At(i))
        /\ \/ /\ k = total - 1
              /\ CompleteMessage(frags, tasks, At(k - 1), data \o Copied(k),
                                 {At(i) : i \in 0..(k - 1)})
           \/ /\ k < total - 1
              /\ k >= Size(frags) \/ ~Has(frags, At(k))
              /\ KeepIncomplete(frags, tasks)
        /\ cpf_totalSize' = total
        /\ cpf_data' = data \o Copied(k)
  BY <1>1, ZenonT(40) DEF ProcessFragments
<1>4. /\ SizeOf[h] \in Nat /\ SizeOf[h] > 1 /\ h + SizeOf[h] - 1 \in Packets
      /\ h + SizeOf[h] \in Packets => HeadOf[h + SizeOf[h]] = h + SizeOf[h]
  BY <1>1, MessageEnds DEF ProcessFragments, IsFragment
<1>5. /\ total = SizeOf[h]
      /\ data \in Seq(Packets)
      /\ Len(data) \in 1..(total - 1)
      /\ lastProcessed + Len(data) <= ack
      /\ \A i \in 1..Len(data) : data[i] = lastProcessed + i
  <2>1. CASE has_cpf
    BY <2>1 DEF ReassemblyOK
  <2>2. CASE ~has_cpf
    BY <2>2, <1>1, <1>2, <1>4
  <2> QED BY <2>1, <2>2
<1> HIDE DEF total, data
<1>6. k \in Nat /\ i0 \in Nat /\ total \in Nat /\ Len(data) = i0 + 1
  BY <1>3, <1>4, <1>5
<1>7. \A i \in 0..(total - 2) : At(i) = h + 1 + i /\ At(i) \in Packets
  <2> TAKE i \in 0..(total - 2)
  <2>1. h + 1 + i \in Packets
    <3>1. h + 1 + i \in Nat /\ h + 1 + i <= h + SizeOf[h] - 1
      BY <1>2, <1>4, <1>5, SMTT(30)
    <3> QED BY <3>1, <1>4, <1>0 DEF Packets
  <2>2. h + 1 + i \in 0..(MAX_SEQUENCE - 1)
    BY <2>1, PacketsFit
  <2>3. At(i) = h + 1 + i
    BY <2>2, IndexSmall
  <2> QED BY <2>1, <2>3
<1>8. \A i \in i0..(k - 1) : At(i) = h + 1 + i /\ frags[h + 1 + i] = h + 1 + i
                             /\ h + 1 + i \in Packets
  <2> TAKE i \in i0..(k - 1)
  <2>1. i \in 0..(total - 2)
    BY <1>3, <1>6
  <2>2. At(i) = h + 1 + i /\ At(i) \in Packets
    BY <2>1, <1>7
  <2>3. Has(frags, At(i))
    BY <1>3
  <2> QED BY <2>2, <2>3 DEF Has, StoredOK
<1> HIDE DEF h
<1>9. h = lastProcessed + 1
  BY DEF h
<1>10. h + k <= ack
  <2> SUFFICES ASSUME h + k > ack
               PROVE  FALSE
    BY <1>0, <1>2, <1>6
  <2>1. ack - h \in i0..(k - 1)
    BY <1>0, <1>2, <1>5, <1>6, <1>9
  <2>2. frags[ack + 1] = ack + 1 /\ ack + 1 \in Packets
    <3>1. h + 1 + (ack - h) = ack + 1
      BY <1>0, <1>2
    <3>2. /\ frags[h + 1 + (ack - h)] = h + 1 + (ack - h)
          /\ h + 1 + (ack - h) \in Packets
      BY <2>1, <1>8
    <3> QED BY <3>1, <3>2
  <2> QED BY <2>2, <1>0 DEF BufferedOK, None
<1>11. /\ data \o Copied(k) \in Seq(Packets)
       /\ Len(data \o Copied(k)) = k + 1
       /\ \A i \in 1..(k + 1) : (data \o Copied(k))[i] = lastProcessed + i
  <2>1. /\ Copied(k) \in Seq(Packets)
        /\ Len(Copied(k)) = k - i0
        /\ \A j \in 1..(k - i0) : Copied(k)[j] = h + i0 + j
    <3>1. \A j \in 1..(k - i0) : i0 + j - 1 \in i0..(k - 1)
      BY <1>6
    <3>2. \A j \in 1..(k - i0) : /\ frags[At(i0 + j - 1)] = h + 1 + (i0 + j - 1)
                                 /\ frags[At(i0 + j - 1)] \in Packets
      BY <3>1, <1>8
    <3>3. k - i0 \in Nat
      BY <1>3, <1>6
    <3>4. \A j \in 1..(k - i0) : Copied(k)[j] = frags[At(i0 + j - 1)]
      OBVIOUS
    <3>5. PICK n \in Nat : n = k - i0
      BY <3>3
    <3>6. Copied(k) = [j \in 1..n |-> frags[At(i0 + j - 1)]]
      BY <3>5
    <3>7. \A j \in 1..n : /\ Copied(k)[j] \in Packets
                          /\ Copied(k)[j] = h + 1 + (i0 + j - 1)
      BY <3>2, <3>4, <3>5
    <3> HIDE DEF At, i0, Copied
    <3>8. Copied(k) \in Seq(Packets) /\ Len(Copied(k)) = n
      BY <3>6, <3>7
    <3> QED BY <3>5, <3>7, <3>8, <1>2, <1>6
  <2> HIDE DEF Copied
  <2>2. Len(data \o Copied(k)) = Len(data) + (k - i0)
    BY <2>1, <1>5
  <2>3. k - i0 \in Nat
    BY <1>3, <1>6
  <2>4. ASSUME NEW i \in 1..(k + 1)
        PROVE  (data \o Copied(k))[i] = lastProcessed + i
    <3> DEFINE n == Len(data)
    <3>0. i \in Int /\ n \in Int
      BY <1>5, <1>6
    <3>1. CASE i <= Len(data)
      BY <3>1, <2>1, <1>5
    <3>2. CASE i > Len(data)
      <4>1. (data \o Copied(k))[i] = Copied(k)[i - Len(data)]
        BY <3>2, <2>1, <2>3, <1>5, <1>6
      <4>2. i - Len(data) \in 1..(k - i0)
        BY <3>2, <1>6
      <4> QED BY <4>1, <4>2, <2>1, <1>2, <1>6, <1>9
    <3> HIDE DEF n
    <3>3. i <= n \/ i > n
      BY <3>0
    <3> QED BY <3>1, <3>2, <3>3 DEF n
  <2>5. data \o Copied(k) \in Seq(Packets)
    BY <2>1, <1>5
  <2> QED BY <2>2, <2>3, <2>4, <2>5, <1>6
<1> HIDE DEF Copied, At, i0
<1>12. CASE /\ k = total - 1
            /\ CompleteMessage(frags, tasks, At(k - 1), data \o Copied(k),
                               {At(i) : i \in 0..(k - 1)})
  <2>1. At(k - 1) = h + k
    <3>1. k - 1 \in 0..(total - 2)
      BY <1>12, <1>4, <1>5, <1>6, SMTT(30)
    <3> QED BY <3>1, <1>7, <1>2, <1>6
  <2>2. data \o Copied(k) = Message(h)
    <3>1. k + 1 = SizeOf[h]
      BY <1>12, <1>5, <1>6
    <3>2. \A i \in 1..(k + 1) : h + i - 1 = lastProcessed + i
      BY <1>9, <1>6, <1>2
    <3>3. /\ Message(h) = [i \in 1..(k + 1) |-> h + i - 1]
      BY <3>1 DEF Message
    <3>4. \A i \in 1..(k + 1) : h + i - 1 \in Packets
      BY <3>1, <1>0, <1>2, <1>4, <1>6, SMTT(30) DEF Packets
    <3>5. Message(h) \in Seq(Packets) /\ Len(Message(h)) = k + 1
      BY <3>3, <3>4, <1>6
    <3>6. \A i \in 1..(k + 1) : (data \o Copied(k))[i] = Message(h)[i]
      BY <3>2, <3>3, <1>11
    <3> QED BY <3>4, <3>5, <3>6, <1>11, SeqEqual
  <2>3. /\ fragments' = [s \in SequenceSpace |->
                           IF s \in {At(i) : i \in 0..(k - 1)} THEN None ELSE frags[s]]
        /\ lastProcessed' = h + k
        /\ delivered' = Append(delivered, Message(h))
        /\ microtasks' \in {tasks, tasks + 1}
        /\ has_cpf' = FALSE
        /\ HandOver(frags, tasks, h + k, Message(h), {At(i) : i \in 0..(k - 1)})
    BY <1>12, <2>1, <2>2 DEF CompleteMessage, HandOver
  <2>4. \A s \in {At(i) : i \in 0..(k - 1)} : s <= h + k
    <3>1. \A i \in 0..(k - 1) : At(i) = h + 1 + i
      BY <1>7, <1>12, <1>6
    <3> QED BY <3>1, <1>2, <1>6
  <2>5. StoredOK(fragments')
    BY <2>3 DEF StoredOK
  <2>6. BufferedOK(fragments', lastProcessed', ack)
    <3>1. \A p \in Packets : h + k < p /\ p <= ack => fragments'[p] = p
      <4> SUFFICES ASSUME NEW p \in Packets, h + k < p, p <= ack
                   PROVE  fragments'[p] = p
        OBVIOUS
      <4>1. p \notin {At(i) : i \in 0..(k - 1)} /\ p \in SequenceSpace
        <5>1. p \in SequenceSpace /\ p \in Int
          BY PacketsFit DEF SequenceSpace
        <5>2. ~(p <= h + k)
          BY <5>1, <1>2, <1>6
        <5> QED BY <5>1, <5>2, <2>4
      <4>2. lastProcessed < p /\ frags[p] = p
        BY <1>2, <1>6, <1>9 DEF BufferedOK, Packets
      <4> QED BY <2>3, <4>1, <4>2
    <3>2. fragments'[ack + 1] = None
      <4>1. ack + 1 \in SequenceSpace
        BY PacketsFit DEF NoWrap, SequenceSpace
      <4> QED BY <2>3, <4>1 DEF BufferedOK
    <3>3. lastProcessed' \in -1..ack
      BY <2>3, <1>2, <1>6, <1>10
    <3> QED BY <2>3, <3>1, <3>2, <3>3 DEF BufferedOK
  <2>7. ReassemblyOK(lastProcessed', ack, has_cpf', cpf_totalSize', cpf_data')
    <3>1. cpf_totalSize' = total /\ cpf_data' = data \o Copied(k)
      BY <1>3
    <3>2. has_cpf' \in BOOLEAN /\ ~has_cpf'
      BY <2>3
    <3> QED BY <3>1, <3>2, <1>6, <1>11 DEF ReassemblyOK
  <2>8. lastProcessed' = lastProcessed + SizeOf[h]
    BY <2>3, <1>12, <1>5, <1>6, <1>9, <1>2, SMTT(30)
  <2>9. HistoryOK(lastProcessed', delivered')
    <3>1. Message(h) \in Seq(Packets)
      BY <2>2, <1>11
    <3>2. lastProcessed' + 1 = h + SizeOf[h]
      BY <2>8, <1>9, <1>2, <1>4
    <3> QED BY <2>3, <3>1, <3>2, <1>4 DEF HistoryOK
  <2>10. Ready(lastProcessed', ack) => microtasks' > 0
    BY <2>3, <2>6, HandOverQueues
  <2> QED BY <2>3, <2>5, <2>6, <2>7, <2>8, <2>9, <2>10, <1>1, <1>9 DEF Processed
<1>13. CASE /\ k < total - 1
            /\ k >= Size(frags) \/ ~Has(frags, At(k))
            /\ KeepIncomplete(frags, tasks)
  <2>1. /\ fragments' = frags /\ microtasks' = tasks /\ has_cpf' = TRUE
        /\ UNCHANGED <<lastProcessed, delivered>>
    BY <1>13 DEF KeepIncomplete
  <2>2. ReassemblyOK(lastProcessed, ack, TRUE, total, data \o Copied(k))
    <3>1. lastProcessed + (k + 1) <= ack /\ k + 1 \in 1..(total - 1)
      BY <1>13, <1>0, <1>2, <1>6, <1>9, <1>10
    <3> QED BY <3>1, <1>1, <1>5, <1>6, <1>9, <1>11, SMTT(30) DEF ReassemblyOK
  <2>3. cpf_totalSize' = total /\ cpf_data' = data \o Copied(k)
    BY <1>3
  <2>4. ~Ready(lastProcessed, ack)
    <3> SUFFICES ASSUME Ready(lastProcessed, ack)
                 PROVE  FALSE
      OBVIOUS
    <3>1. h + total - 1 <= ack
      BY <1>2, <1>4, <1>5, <1>9 DEF Ready
    <3>2. \A q \in h..(h + k + 1) : q \in Packets /\ frags[q] = q
      <4> TAKE q \in h..(h + k + 1)
      <4>1. q \in Int /\ q <= ack /\ q >= h
        BY <3>1, <1>13, <1>0, <1>2, <1>6
      <4>2. q \in Packets
        BY <4>1, <1>0, <1>2 DEF Packets
      <4> QED BY <4>1, <4>2, <1>2, <1>9 DEF BufferedOK
    <3>3. Has(frags, At(k))
      <4>1. k \in 0..(total - 2) /\ h + k + 1 \in h..(h + k + 1)
            /\ h + 1 + k = h + k + 1
        BY <1>13, <1>2, <1>6
      <4>2. At(k) = h + k + 1 /\ At(k) \in Packets
        BY <4>1, <1>7
      <4> QED BY <4>1, <4>2, <3>2, PacketsFit DEF Has, Packets, None
    <3>4. Size(frags) >= k + 2
      <4> DEFINE S == {s \in SequenceSpace : frags[s] # None}
      <4>1. IsFiniteSet(S)
        <5>1. IsFiniteSet(SequenceSpace)
          BY FS_Interval, PacketsFit DEF SequenceSpace
        <5> QED BY <5>1, FS_Subset
      <4>2. h..(h + k + 1) \subseteq S
        BY <3>2, PacketsFit DEF Packets, None
      <4>3. Cardinality(h..(h + k + 1)) = k + 2
        BY FS_Interval, <1>2, <1>6
      <4> HIDE DEF S
      <4>4. Cardinality(h..(h + k + 1)) <= Cardinality(S)
        BY <4>1, <4>2, FS_Subset
      <4>5. Cardinality(S) \in Nat
        BY <4>1, FS_CardinalityType
      <4> QED BY <4>3, <4>4, <4>5 DEF Size, S
    <3>5. Size(frags) \in Int
      <4>1. IsFiniteSet({s \in SequenceSpace : frags[s] # None})
        <5>1. IsFiniteSet(SequenceSpace)
          BY FS_Interval, PacketsFit DEF SequenceSpace
        <5> QED BY <5>1, FS_Subset
      <4> QED BY <4>1, FS_CardinalityType DEF Size
    <3> QED BY <3>3, <3>4, <3>5, <1>6, <1>13
  <2> QED BY <2>1, <2>2, <2>3, <2>4 DEF Processed
<1> QED BY <1>3, <1>12, <1>13

\* Any run of _processData.
LEMMA ProcessPreserves ==
  ASSUME NoWrap, NEW frags, NEW tasks \in Nat,
         NEW ack \in -1..(StreamLen - 1), StoredOK(frags),
         BufferedOK(frags, lastProcessed, ack),
         ReassemblyOK(lastProcessed, ack, has_cpf, cpf_totalSize, cpf_data),
         HistoryOK(lastProcessed, delivered),
         ProcessData(frags, tasks)
  PROVE  Processed(ack)
<1>1. CASE ProcessNothing(frags, tasks, Mask(lastProcessed + 1))
  <2>1. ~Ready(lastProcessed, ack)
    <3> SUFFICES ASSUME Ready(lastProcessed, ack)
                 PROVE  FALSE
      OBVIOUS
    <3>1. lastProcessed + 1 \in Packets /\ SizeOf[lastProcessed + 1] \in Nat \ {0}
          /\ lastProcessed \in Int /\ lastProcessed + 1 \in SequenceSpace
      BY MessageOf, PacketsFit DEF Ready, BufferedOK
    <3>2. frags[lastProcessed + 1] = lastProcessed + 1
      BY <3>1, PacketsFit DEF Ready, BufferedOK
    <3>3. Has(frags, Mask(lastProcessed + 1))
      BY <3>1, <3>2, MaskSmall, PacketsFit DEF Has, None
    <3> QED BY <1>1, <3>3 DEF ProcessNothing
  <2> QED BY <1>1, <2>1 DEF ProcessNothing, Processed, cpf
<1>2. CASE ProcessSingle(frags, tasks, Mask(lastProcessed + 1))
  BY <1>2, SinglePreserves
<1>3. CASE ProcessFragments(frags, tasks, Mask(lastProcessed + 1))
  BY <1>3, FragmentsPreserve
<1> QED BY <1>1, <1>2, <1>3 DEF ProcessData

\* The history stays in order when the next message is appended to it.
LEMMA DeliveredPreserved ==
  ASSUME DeliveredInOrder, lastProcessed \in Int,
         HistoryOK(lastProcessed, delivered), NEW ack, Processed(ack)
  PROVE  DeliveredInOrder'
<1>1. CASE UNCHANGED <<lastProcessed, delivered>>
  BY <1>1 DEF DeliveredInOrder, AfterDelivered, LastPacket
<1>2. CASE /\ lastProcessed + 1 \in Packets
           /\ lastProcessed' = lastProcessed + SizeOf[lastProcessed + 1]
           /\ delivered' = Append(delivered, Message(lastProcessed + 1))
  <2> DEFINE h == lastProcessed + 1
  <2>0. PICK n \in Nat : n = Len(delivered)
    BY DEF HistoryOK
  <2>1. /\ delivered \in Seq(Seq(Packets))
        /\ HeadOf[h] = h /\ h \in Packets
    BY <1>2 DEF HistoryOK
  <2>2. SizeOf[h] \in Nat \ {0} /\ h \in Nat
    BY <2>1, MessageOf
  <2>3. Len(Message(h)) = SizeOf[h] /\ Message(h)[SizeOf[h]] = h + SizeOf[h] - 1
    BY <2>2 DEF Message
  <2>4. Message(h) \in Seq(Packets)
    <3>1. \A i \in 1..SizeOf[h] : h + i - 1 \in Packets
      <4>1. StreamLen \in Nat /\ h + SizeOf[h] <= StreamLen
        BY <2>1, MessageOf, StreamAssumption
      <4> QED BY <4>1, <2>2 DEF Packets
    <3> QED BY <3>1, <2>2 DEF Message
  <2>5. /\ Len(delivered') = n + 1 /\ delivered'[n + 1] = Message(h)
        /\ \A k \in 1..n : delivered'[k] = delivered[k]
    BY <1>2, <2>0, <2>1, <2>4
  <2>6. \A k \in 0..n : AfterDelivered(k)' = AfterDelivered(k)
    BY <2>1, <2>5 DEF AfterDelivered, LastPacket
  <2>7. AfterDelivered(n) = h
    BY <2>0 DEF DeliveredInOrder
  <2>8. ASSUME NEW k \in 1..(n + 1)
        PROVE  /\ AfterDelivered(k - 1)' \in Packets
               /\ delivered'[k] = Message(AfterDelivered(k - 1)')
    <3>1. k - 1 \in 0..n /\ AfterDelivered(k - 1)' = AfterDelivered(k - 1)
      BY <2>1, <2>6
    <3>2. CASE k = n + 1
      BY <3>1, <3>2, <2>1, <2>5, <2>7
    <3>3. CASE k \in 1..n
      BY <3>1, <3>3, <2>0, <2>5 DEF DeliveredInOrder
    <3> QED BY <3>2, <3>3
  <2>9. lastProcessed' + 1 = AfterDelivered(n + 1)'
    <3>1. AfterDelivered(n + 1)' = LastPacket(Message(h)) + 1
      BY <2>1, <2>5 DEF AfterDelivered
    <3>2. LastPacket(Message(h)) = h + SizeOf[h] - 1
      BY <2>3 DEF LastPacket
    <3>3. lastProcessed' = lastProcessed + SizeOf[h]
      BY <1>2
    <3> QED BY <3>1, <3>2, <3>3, <2>2
  <2>10. \A k \in 1..Len(delivered') :
           /\ AfterDelivered(k - 1)' \in Packets
           /\ delivered'[k] = Message(AfterDelivered(k - 1)')
    BY <2>5, <2>8
  <2>11. lastProcessed' + 1 = AfterDelivered(Len(delivered))'
    BY <2>5, <2>9 DEF AfterDelivered
  <2> QED BY <2>10, <2>11 DEF DeliveredInOrder
<1> QED BY <1>1, <1>2 DEF Processed

\* The packet that was expected is stored: the acknowledgement moves up to
\* the end of the run of stored packets, and none further.
LEMMA AcknowledgeAdvances ==
  ASSUME NoWrap, IInv, nextSequence \in Packets, NEW frags, StoredOK(frags),
         frags = [fragments EXCEPT ![nextSequence] = nextSequence],
         Acknowledge(frags, nextSequence)
  PROVE  /\ lastAck' \in (lastAck + 1)..(StreamLen - 1)
         /\ nextSequence' = lastAck' + 1
         /\ BufferedOK(frags, lastProcessed, lastAck')
<1>0. /\ StreamLen \in Nat /\ StreamLen < MAX_SEQUENCE /\ MAX_SEQUENCE \in Nat
      /\ SequenceSpace = 0..MAX_SEQUENCE /\ Packets = 0..(StreamLen - 1)
  BY PacketsFit DEF NoWrap, SequenceSpace, Packets
<1>1. lastAck \in -1..(StreamLen - 1) /\ lastAck \in Int
      /\ nextSequence = lastAck + 1
  BY <1>0 DEF IInv
<1>2. PICK n \in 0..(MAX_SEQUENCE - 1) :
        LET ack == IF n = 0 THEN nextSequence ELSE Mask(lastAck + n)
        IN  /\ RunBehindAck(frags, n)
            /\ lastAck' = IF ack > lastAck THEN ack ELSE lastAck
            /\ nextSequence' = wrap(lastAck' + 1)
  BY DEF Acknowledge
<1>3. frags[lastAck + 1] = lastAck + 1
  BY <1>0, <1>1 DEF IInv, StoredOK
<1>4. lastAck + n <= StreamLen - 1
  <2> SUFFICES ASSUME lastAck + n > StreamLen - 1
               PROVE  FALSE
    BY <1>0, <1>1
  <2>1. StreamLen - lastAck \in 1..n
    BY <1>0, <1>1
  <2>2. Has(frags, Mask(StreamLen))
    <3>1. lastAck + (StreamLen - lastAck) = StreamLen
      BY <1>0, <1>1
    <3> QED BY <3>1, <2>1, <1>2 DEF RunBehindAck
  <2>3. Mask(StreamLen) = StreamLen
    BY <1>0, MaskSmall
  <2>4. StreamLen \in Packets
    BY <2>2, <2>3 DEF Has, StoredOK
  <2> QED BY <2>4, <1>0
<1>5. \A i \in 1..(n + 1) : /\ Mask(lastAck + i) = lastAck + i
                            /\ lastAck + i \in SequenceSpace
  <2> TAKE i \in 1..(n + 1)
  <2>1. lastAck + i \in SequenceSpace
    BY <1>0, <1>1, <1>4
  <2> QED BY <2>1, MaskSmall
<1>6. \A i \in 1..n : frags[lastAck + i] = lastAck + i
  BY <1>2, <1>5 DEF RunBehindAck, Has, StoredOK
<1>7. frags[lastAck + n + 1] = None
  <2>0. Mask(lastAck + n + 1) = lastAck + n + 1 /\ lastAck + n + 1 \in SequenceSpace
    <3>1. n + 1 \in 1..(n + 1) /\ lastAck + (n + 1) = lastAck + n + 1
      BY <1>1
    <3> QED BY <3>1, <1>5
  <2>1. CASE n = MAX_SEQUENCE - 1
    <3>1. lastAck + n + 1 \notin Packets
      BY <2>1, <1>0, <1>1
    <3> QED BY <3>1, <2>0 DEF StoredOK
  <2>2. CASE ~Has(frags, Mask(lastAck + n + 1))
    BY <2>0, <2>2 DEF Has
  <2> QED BY <2>1, <2>2, <1>2 DEF RunBehindAck
<1>8. n # 0
  <2> SUFFICES ASSUME n = 0 PROVE FALSE
    OBVIOUS
  <2>1. frags[lastAck + 1] = None
    BY <1>7, <1>1
  <2> QED BY <2>1, <1>3, <1>1 DEF None
<1>9. lastAck' = lastAck + n
  <2>1. Mask(lastAck + n) = lastAck + n
    BY <1>5, <1>8
  <2> QED BY <2>1, <1>1, <1>2, <1>8
<1>10. nextSequence' = lastAck' + 1
  BY <1>0, <1>1, <1>2, <1>4, <1>9 DEF wrap
<1>11. BufferedOK(frags, lastProcessed, lastAck')
  <2>1. lastProcessed \in -1..lastAck /\ lastProcessed \in Int
    BY <1>1 DEF IInv, BufferedOK
  <2>2. lastProcessed \in -1..lastAck'
    BY <2>1, <1>1, <1>9
  <2>3. ASSUME NEW p \in Packets, lastProcessed < p, p <= lastAck'
        PROVE  frags[p] = p
    <3>0. p \in Int
      BY <1>0
    <3>1. CASE p <= lastAck
      <4>1. fragments[p] = p
        BY <3>1, <2>3 DEF IInv, BufferedOK
      <4>2. p # nextSequence
        BY <3>0, <3>1, <1>1
      <4> QED BY <4>1, <4>2 DEF IInv, StoredOK
    <3>2. CASE p > lastAck
      <4>1. p - lastAck \in 1..n /\ lastAck + (p - lastAck) = p
        BY <3>0, <3>2, <2>3, <1>1, <1>9
      <4> QED BY <4>1, <1>6
    <3> QED BY <3>0, <3>1, <3>2, <1>1
  <2>4. frags[lastAck' + 1] = None
    BY <1>7, <1>9
  <2> QED BY <2>2, <2>3, <2>4 DEF BufferedOK
<1> QED BY <1>0, <1>1, <1>4, <1>8, <1>9, <1>10, <1>11

(***************************************************************************)
(* The theorems.                                                           *)
(***************************************************************************)

\* The inductive invariant holds of the stream before the first datagram.
LEMMA InitIInv ==
  ASSUME NoWrap, Init
  PROVE  IInv
<1>1. /\ StreamLen \in Nat \ {0} /\ MAX_SEQUENCE \in Nat \ {0}
      /\ SequenceSpace = 0..MAX_SEQUENCE /\ Packets = 0..(StreamLen - 1)
  BY PacketsFit DEF SequenceSpace, Packets
<1>2. StoredOK(fragments)
  BY <1>1 DEF Init, StoredOK, None
<1>3. BufferedOK(fragments, lastProcessed, lastAck)
  BY <1>1 DEF Init, BufferedOK, None
<1>4. HistoryOK(lastProcessed, delivered)
  BY <1>1, MessageOf DEF Init, HistoryOK
<1>5. DeliveredInOrder
  BY DEF Init, DeliveredInOrder, AfterDelivered
<1>6. ReassemblyOK(lastProcessed, lastAck, has_cpf, cpf_totalSize, cpf_data)
  <2>1. cpf_data \in Seq(Packets) /\ cpf_totalSize \in Int
    BY DEF Init
  <2>2. has_cpf = FALSE
    BY DEF Init
  <2> QED BY <2>1, <2>2 DEF ReassemblyOK
<1>7. ~Ready(lastProcessed, lastAck)
  BY <1>1, MessageOf DEF Init, Ready
<1> QED BY <1>1, <1>2, <1>3, <1>4, <1>5, <1>6, <1>7 DEF Init, IInv

\* What every step does: it keeps the invariant, and for the application it
\* is a step of the ordered-delivery service or nothing.
LEMMA StepIInv ==
  ASSUME NoWrap, IInv, [Next]_vars
  PROVE  /\ IInv'
         /\ lastAck' \in lastAck..(StreamLen - 1)
         /\ \/ UNCHANGED <<lastProcessed, delivered>>
            \/ /\ lastProcessed + 1 \in Packets
               /\ lastProcessed' = lastProcessed + SizeOf[lastProcessed + 1]
               /\ delivered' = Append(delivered, Message(lastProcessed + 1))
<1> DEFINE Good == /\ IInv'
                   /\ lastAck' \in lastAck..(StreamLen - 1)
                   /\ \/ UNCHANGED <<lastProcessed, delivered>>
                      \/ /\ lastProcessed + 1 \in Packets
                         /\ lastProcessed' = lastProcessed + SizeOf[lastProcessed + 1]
                         /\ delivered' = Append(delivered, Message(lastProcessed + 1))
<1>0. /\ StreamLen \in Nat /\ lastAck \in Int /\ lastAck <= StreamLen - 1
      /\ lastAck >= -1 /\ lastProcessed \in Int
  BY PacketsFit DEF IInv, BufferedOK
<1>1. ASSUME Processed(lastAck'), lastAck' \in lastAck..(StreamLen - 1),
             nextSequence' = lastAck' + 1, batch' \in Seq(Packets)
      PROVE  Good
  <2>1. DeliveredInOrder'
    BY <1>0, <1>1, DeliveredPreserved DEF IInv
  <2>2. lastAck' \in -1..(StreamLen - 1)
    BY <1>0, <1>1
  <2> QED BY <1>1, <2>1, <2>2 DEF Processed, IInv
<1>2. CASE RunMicrotask
  <2>1. microtasks - 1 \in Nat
    BY <1>2 DEF RunMicrotask, IInv
  <2>2. Processed(lastAck)
    BY <1>2, <2>1, ProcessPreserves DEF RunMicrotask, IInv
  <2>3. lastAck' = lastAck /\ nextSequence' = nextSequence /\ batch' = batch
    BY <1>2 DEF RunMicrotask
  <2> QED BY <1>0, <1>1, <2>2, <2>3 DEF IInv
<1>3. ASSUME batch # <<>>
      PROVE  batch[1] \in Packets /\ Wire(batch[1]) = batch[1] /\ Tail(batch) \in Seq(Packets)
  <2>1. batch[1] \in Packets /\ Tail(batch) \in Seq(Packets)
    BY <1>3 DEF IInv
  <2>2. batch[1] \in SequenceSpace
    BY <2>1, PacketsFit
  <2> QED BY <2>1, <2>2, MaskSmall
<1>4. CASE AcceptInOrder
  <2> DEFINE stored == [fragments EXCEPT ![nextSequence] = nextSequence]
  <2>1. /\ nextSequence \in Packets /\ batch' \in Seq(Packets)
        /\ Acknowledge(stored, nextSequence) /\ ProcessData(stored, microtasks)
    BY <1>3, <1>4 DEF AcceptInOrder
  <2>2. nextSequence \in SequenceSpace /\ nextSequence \in Int
        /\ nextSequence = lastAck + 1
    BY <2>1, <1>0, PacketsFit DEF IInv
  <2>3. StoredOK(stored)
    BY <2>1, <2>2 DEF StoredOK, IInv
  <2> HIDE DEF stored
  <2>4. /\ lastAck' \in (lastAck + 1)..(StreamLen - 1)
        /\ nextSequence' = lastAck' + 1
        /\ BufferedOK(stored, lastProcessed, lastAck')
    BY <2>1, <2>3, AcknowledgeAdvances DEF stored
  <2>5. /\ lastAck' \in -1..(StreamLen - 1) /\ lastAck' \in lastAck..(StreamLen - 1)
        /\ lastAck' >= lastAck
    BY <2>4, <1>0
  <2>6. ReassemblyOK(lastProcessed, lastAck', has_cpf, cpf_totalSize, cpf_data)
    BY <2>5, <1>0 DEF IInv, ReassemblyOK
  <2>7. Processed(lastAck')
    BY <2>1, <2>3, <2>4, <2>5, <2>6, ProcessPreserves DEF IInv
  <2> QED BY <1>1, <2>1, <2>4, <2>5, <2>7
<1>5. ASSUME UNCHANGED <<nextSequence, lastAck, lastProcessed, cpf, microtasks, delivered>>,
             batch' \in Seq(Packets), StoredOK(fragments'),
             BufferedOK(fragments', lastProcessed, lastAck)
      PROVE  Good
  <2>1. DeliveredInOrder'
    BY <1>5 DEF IInv, DeliveredInOrder, AfterDelivered, LastPacket
  <2>2. lastAck' \in lastAck..(StreamLen - 1)
    BY <1>0, <1>5
  <2> QED BY <1>5, <2>1, <2>2 DEF IInv, cpf
<1>6. CASE DropDuplicate
  BY <1>3, <1>5, <1>6 DEF DropDuplicate, IInv
<1>7. CASE StoreOutOfOrder
  <2> DEFINE p == batch[1]
  <2>1. /\ p \in Packets /\ p \in SequenceSpace /\ p \in Int /\ batch' \in Seq(Packets)
        /\ p > lastAck + 1
        /\ fragments' = [fragments EXCEPT ![p] = p]
    <3>1. p \in Packets /\ Wire(p) = p /\ Tail(batch) \in Seq(Packets)
      BY <1>3, <1>7 DEF StoreOutOfOrder
    <3>2. p \in SequenceSpace /\ p \in Int
      BY <3>1, PacketsFit DEF SequenceSpace
    <3> QED BY <3>1, <3>2, <1>7 DEF StoreOutOfOrder, IInv
  <2> HIDE DEF p
  <2>2. StoredOK(fragments')
    BY <2>1 DEF IInv, StoredOK
  <2>3. BufferedOK(fragments', lastProcessed, lastAck)
    BY <2>1, <1>0 DEF IInv, StoredOK, BufferedOK
  <2> QED BY <1>5, <1>7, <2>1, <2>2, <2>3 DEF StoreOutOfOrder
<1>8. ASSUME NEW d \in Datagrams, ReceiveDatagram(d)
      PROVE  Good
  <2>1. batch' \in Seq(Packets)
    BY <1>8 DEF ReceiveDatagram, Datagrams
  <2> QED BY <2>1, <1>5, <1>8 DEF ReceiveDatagram, IInv
<1>9. CASE UNCHANGED vars
  BY <1>5, <1>9 DEF vars, IInv
<1> QED BY <1>2, <1>4, <1>6, <1>7, <1>8, <1>9 DEF Next, Handle

\* The state stays well typed, and a message under reassembly is never
\* complete (SOEInputStream).
THEOREM TypeCorrect ==
  ASSUME NoWrap
  PROVE  Spec => []TypeOK
<1>1. IInv => TypeOK
  <2> SUFFICES ASSUME IInv PROVE TypeOK
    OBVIOUS
  <2>1. /\ StreamLen \in Nat /\ SequenceSpace = 0..MAX_SEQUENCE
        /\ MAX_SEQUENCE \in Nat /\ StreamLen < MAX_SEQUENCE
    BY PacketsFit DEF SequenceSpace, NoWrap
  <2>2. nextSequence \in SequenceSpace /\ lastAck \in SequenceSpace \cup {-1}
        /\ lastProcessed \in SequenceSpace \cup {-1}
    BY <2>1 DEF IInv, BufferedOK
  <2> QED BY <2>2 DEF IInv, TypeOK, StoredOK, ReassemblyOK, HistoryOK
<1> QED BY <1>1, InitIInv, StepIInv, PTL DEF Spec

\* Whatever the network loses, repeats, reorders or regroups, the application
\* gets exactly the messages sent, once each and in order.
THEOREM InOrderDelivery ==
  ASSUME NoWrap
  PROVE  Spec => []DeliveredInOrder
<1>1. IInv => DeliveredInOrder
  BY DEF IInv
<1> QED BY <1>1, InitIInv, StepIInv, PTL DEF Spec

\* What the sender may forget, because it was acknowledged, is delivered or
\* stored at the receiver.
THEOREM NoAcknowledgedLoss ==
  ASSUME NoWrap
  PROVE  Spec => []AckedNotLost
<1>1. IInv => AckedNotLost
  BY PacketsFit, MaskSmall DEF IInv, AckedNotLost, BufferedOK
<1> QED BY <1>1, InitIInv, StepIInv, PTL DEF Spec

\* When the event loop is idle nothing deliverable is left behind.
THEOREM NothingDeliverableWaits ==
  ASSUME NoWrap
  PROVE  Spec => []NoStall
<1>1. IInv => NoStall
  <2> SUFFICES ASSUME IInv, Idle, NEW p, p = lastProcessed + 1, ~(lastAck < p)
               PROVE  IsFragment(p) /\ lastAck < p + SizeOf[p] - 1
    BY DEF NoStall
  <2>1. lastProcessed \in Int /\ lastAck \in Int /\ lastProcessed >= -1
        /\ lastAck <= StreamLen - 1 /\ StreamLen \in Nat
    BY PacketsFit DEF IInv, BufferedOK
  <2>2. p \in Packets
    BY <2>1 DEF Packets
  <2>3. SizeOf[p] \in Nat \ {0}
    BY <2>2, MessageOf
  <2>4. ~Ready(lastProcessed, lastAck)
    BY DEF IInv, Idle
  <2> QED BY <2>1, <2>2, <2>3, <2>4 DEF Ready, IsFragment
<1> QED BY <1>1, InitIInv, StepIInv, PTL DEF Spec

\* The stream implements the ordered-delivery service.
THEOREM RefinesOrderedDelivery ==
  ASSUME NoWrap
  PROVE  Spec => ImplementsOrderedDelivery
<1>1. Init => Ordered!Init
  BY DEF Init, Ordered!Init
<1>2. ASSUME IInv, [Next]_vars
      PROVE  [Ordered!Next]_Ordered!vars
  <2>0. lastProcessed \in Int /\ lastAck' \in lastAck..(StreamLen - 1) /\ IInv'
    BY <1>2, StepIInv, PacketsFit DEF IInv, BufferedOK
  <2>1. CASE UNCHANGED <<lastProcessed, delivered>>
    BY <2>0, <2>1 DEF Ordered!Next, Ordered!Acknowledge
  <2>2. CASE /\ lastProcessed + 1 \in Packets
             /\ lastProcessed' = lastProcessed + SizeOf[lastProcessed + 1]
             /\ delivered' = Append(delivered, Message(lastProcessed + 1))
    <3>1. lastProcessed' <= lastAck' /\ lastProcessed' \in Int
      BY <2>0, PacketsFit DEF IInv, BufferedOK
    <3>2. SizeOf[lastProcessed + 1] \in Nat
      BY <2>2, MessageOf
    <3>3. lastProcessed' + 1 = lastProcessed + 1 + SizeOf[lastProcessed + 1]
          /\ lastProcessed' + 1 - 1 <= lastAck'
      BY <2>0, <2>2, <3>1, <3>2
    <3> QED BY <2>0, <2>2, <3>3
            DEF Ordered!Next, Ordered!Deliver, Ordered!Packets, Ordered!Message,
                Packets, Message
  <2> QED BY <1>2, <2>1, <2>2, StepIInv
<1> QED BY <1>1, <1>2, InitIInv, StepIInv, PTL
        DEF Spec, ImplementsOrderedDelivery, Ordered!Spec

=============================================================================
