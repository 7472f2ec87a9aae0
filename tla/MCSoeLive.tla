----------------------------- MODULE MCSoeLive -----------------------------
(* A session in which one direction has nothing more to say: the peer has  *)
(* sent all it will and has been acknowledged, or the server has.  Both    *)
(* are states that Spec reaches; Init is only cut in two.                  *)
EXTENDS MCSoeSession

SessionEstablished ==
  /\ queues = [waiting |-> <<>>, timer |-> FALSE, out |-> <<>>, priority |-> <<>>,
               unAck |-> [p \in Packets |-> "none"]]
  /\ cache = {}
  /\ sentThisSec = 0
  /\ issues = FALSE
  /\ ackDue = TRUE
  /\ outOfOrder = <<>>
  /\ network = {}
  /\ replies = <<>>

NothingSent ==
  sequence = -1 /\ outputAck = -1 /\ received = {} /\ peerAck = -1
AllSent ==
  /\ sequence = StreamLen - 1 /\ outputAck = StreamLen
  /\ received = Packets /\ peerAck = StreamLen - 1

NothingArrived ==
  /\ nextAck = -1 /\ lastAck = -1 /\ arrivals = 0
  /\ answers = [Ack |-> {}, OutOfOrder |-> {}]
AllArrived ==
  /\ nextAck = InboundLen - 1 /\ lastAck = nextAck /\ arrivals = MaxArrivals
  /\ answers = [Ack |-> {nextAck}, OutOfOrder |-> {}]

LiveInit ==
  /\ SessionEstablished
  /\ \/ NothingSent /\ AllArrived
     \/ AllSent /\ NothingArrived

LiveSpec == LiveInit /\ [][Next]_vars /\ Fairness
============================================================================
