------------------------- MODULE MCLoginCharacters -------------------------
(* Three requests of two users. *)
EXTENDS LoginCharacters

TwoUsers == [h \in Handlers |-> IF h = 3 THEN "B" ELSE "A"]
============================================================================
