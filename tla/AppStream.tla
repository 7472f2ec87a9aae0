----------------------------- MODULE AppStream -----------------------------
(***************************************************************************)
(* The application data one side of an SOE session sends, as the logical   *)
(* packets 0..StreamLen-1 that SOEOutputStream.write cuts it into.  Packet *)
(* p belongs to the message of SizeOf[p] packets that starts with packet   *)
(* HeadOf[p].  A message of one packet travels as "Data", a longer one as  *)
(* consecutive "DataFragment"s.                                            *)
(***************************************************************************)
EXTENDS Integers, Sequences

CONSTANTS StreamLen,   \* number of packets
          HeadOf,      \* [packet -> first packet of its message]
          SizeOf       \* [packet -> number of packets of its message]

Packets == 0..(StreamLen - 1)

\* The messages tile the stream.
ASSUME StreamAssumption ==
  /\ StreamLen \in Nat \ {0}
  /\ HeadOf \in [Packets -> Packets]
  /\ SizeOf \in [Packets -> Nat \ {0}]
  /\ \A p \in Packets :
       /\ HeadOf[p] <= p
       /\ p < HeadOf[p] + SizeOf[p]
       /\ HeadOf[p] + SizeOf[p] <= StreamLen
       /\ \A q \in HeadOf[p]..(HeadOf[p] + SizeOf[p] - 1) :
            HeadOf[q] = HeadOf[p] /\ SizeOf[q] = SizeOf[p]

\* The packet travels as a "DataFragment".
IsFragment(p) == SizeOf[p] > 1

\* The packets of the message that starts with packet h, in order.
Message(h) == [i \in 1..SizeOf[h] |-> h + i - 1]
============================================================================
