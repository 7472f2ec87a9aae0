--------------------------- MODULE WrappedUint16 ---------------------------
(***************************************************************************)
(* Arithmetic on SOE sequence numbers: the class wrappedUint16 of          *)
(* utils/utils.ts and the bit masks of the stream classes.  MAX_SEQUENCE   *)
(* is 0xffff in the program (utils/constants.ts, equal to MAX_UINT16); it  *)
(* is a parameter here so that the checker can reach the wrap-around.      *)
(***************************************************************************)
EXTENDS Integers

CONSTANT MAX_SEQUENCE

ASSUME MaxSequenceAssumption == MAX_SEQUENCE \in Nat \ {0}

SequenceSpace == 0..MAX_SEQUENCE

\* wrappedUint16.wrap: one subtraction, not a modulo, and no lower bound.
wrap(value) ==
  IF value > MAX_SEQUENCE THEN value - (MAX_SEQUENCE + 1) ELSE value

\* value & MAX_SEQUENCE, for the non-negative values the program masks
\* (MAX_SEQUENCE + 1 is a power of two there).
Mask(value) == value % (MAX_SEQUENCE + 1)

\* (sequence + i) % MAX_SEQUENCE, the index of the reassembly loop of
\* SOEInputStream: a modulo where every other place masks.
FragmentIndex(value) == value % MAX_SEQUENCE

============================================================================
