-------------------------- MODULE MCSoeInputStream --------------------------
(* Small streams for SoeInputStream. *)
EXTENDS SoeInputStream

\* Two messages of two and three fragments between two singles.
MixedHead == [p \in 0..6 |-> IF p \in 1..2 THEN 1 ELSE IF p \in 3..5 THEN 3 ELSE p]
MixedSize == [p \in 0..6 |-> IF p \in 1..2 THEN 2 ELSE IF p \in 3..5 THEN 3 ELSE 1]

\* Singles only.
SingleHead == [p \in 0..5 |-> p]
SingleSize == [p \in 0..5 |-> 1]

\* Singles on a perfect network: each packet arrives once, in order.
PerfectNext ==
  \/ Handle
  \/ Len(delivered) < StreamLen /\ ReceiveDatagram(<<Len(delivered)>>)
PerfectSpec == Init /\ [][PerfectNext]_vars
=============================================================================
