------------------------------ MODULE MCRunner ------------------------------
(* TLC instances of Runner. *)
EXTENDS Runner, TLC

CONSTANTS r1, r2, t1, t2, a1, a2

Symmetry == Permutations(Runs) \cup Permutations(Tokens) \cup Permutations(Agents)
=============================================================================
