-------------------------- MODULE OrderedDelivery --------------------------
(***************************************************************************)
(* What the receiving half of an SOE session promises to the application:  *)
(* it gets whole messages, each once, in the order they were sent, and     *)
(* none before all of its packets are acknowledged; an acknowledgement is  *)
(* never taken back.                                                       *)
(***************************************************************************)
EXTENDS AppStream

VARIABLES acked,       \* every packet up to this one is acknowledged
          next,        \* first packet not handed to the application
          delivered    \* messages handed to the application, oldest first

vars == <<acked, next, delivered>>

Init ==
  /\ acked = -1
  /\ next = 0
  /\ delivered = <<>>

Acknowledge ==
  /\ acked' \in acked..(StreamLen - 1)
  /\ UNCHANGED <<next, delivered>>

\* One call may acknowledge packets and hand over the next message.
Deliver ==
  /\ next \in Packets
  /\ acked' \in acked..(StreamLen - 1)
  /\ next' = next + SizeOf[next]
  /\ next' - 1 <= acked'
  /\ delivered' = Append(delivered, Message(next))

Next == Acknowledge \/ Deliver

Spec == Init /\ [][Next]_vars
============================================================================
