--------------------------- MODULE MCSoeSession ---------------------------
(* Small sessions for SoeSession. *)
EXTENDS SoeSession

\* A single, then a message of two fragments.
MixedHead == [p \in 0..2 |-> IF p = 2 THEN 1 ELSE p]
MixedSize == [p \in 0..2 |-> IF p = 0 THEN 1 ELSE 2]

\* Two singles.
SingleHead == [p \in 0..1 |-> p]
SingleSize == [p \in 0..1 |-> 1]
============================================================================
