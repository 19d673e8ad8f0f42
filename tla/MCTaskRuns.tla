----------------------------- MODULE MCTaskRuns -----------------------------
(* TLC instances of TaskRuns. *)
EXTENDS TaskRuns, TLC

CONSTANTS r1, r2, r3, s1, t1, t2, d1, x1

Symmetry == Permutations(Runs) \cup Permutations(Tokens)
=============================================================================
