---------------------------- MODULE MCExecution -----------------------------
(* TLC instances of Execution. *)
EXTENDS Execution, TLC

CONSTANTS r1, r2, s1, t1, t2, d1

Symmetry == Permutations(Runs) \cup Permutations(Tokens)
=============================================================================
