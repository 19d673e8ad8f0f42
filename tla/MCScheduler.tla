----------------------------- MODULE MCScheduler -----------------------------
(* Small instances of Scheduler for TLC. *)
EXTENDS Scheduler, TLC

CONSTANTS r1, r2, r3

MCNeed == [r \in Runs |-> IF r = r1 THEN 2 ELSE 1]

MCSymmetry == Permutations(Schedulers) \cup Permutations(Tokens)
=============================================================================
