-------------------------------- MODULE Loops --------------------------------
(***************************************************************************)
(* Counted loops of the code, and the sums some of them build, as          *)
(* recursive functions: what one of them leaves behind can be proved by    *)
(* induction over its rounds (NumberLemmas), which a RECURSIVE operator    *)
(* would not allow.                                                        *)
(***************************************************************************)
EXTENDS Integers

\* for (k = 1; k <= n; k++) x = Round[k][x], beginning with x = first
Repeat(Round, first, n) ==
    LET after[k \in 0 .. n] == IF k = 0 THEN first ELSE Round[k][after[k - 1]]
    IN  after[n]

\* f[1] + ... + f[n]
SumTo(f, n) ==
    LET sum[k \in 0 .. n] == IF k = 0 THEN 0 ELSE sum[k - 1] + f[k]
    IN  sum[n]
=============================================================================
