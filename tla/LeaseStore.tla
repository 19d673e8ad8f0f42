----------------------------- MODULE LeaseStore -----------------------------
(***************************************************************************)
(* The Redis side of resource leases: internal/store/redis/lease.go.  For  *)
(* every server a hash holds the amounts reserved per run, a counter their *)
(* running total and a sorted set the expiry of each reservation.  Each    *)
(* Lua script is one atomic step.  CPU, memory and disk are treated alike  *)
(* by the scripts; one of them stands for all three.                       *)
(***************************************************************************)
EXTENDS Platform, Integers, FiniteSetsExt

CONSTANTS
    Need,       \* what each run requires
    Capacity    \* what a server reports as available to runs

ASSUME NeedAssumption == Need \in [Runs -> Nat \ {0}] /\ Capacity \in Nat

VARIABLES
    amounts,    \* ...:amounts, 0 where the hash has no field for the run
    reserved,   \* ...:reserved
    elapsed     \* the runs of ...:expirations whose score has passed

leaseVars == <<amounts, reserved, elapsed>>

LeaseInit ==
    /\ amounts = [s \in Servers |-> [r \in Runs |-> 0]]
    /\ reserved = [s \in Servers |-> 0]
    /\ elapsed = [s \in Servers |-> {}]

Total(s, rs) == MapThenSumSet(LAMBDA r : amounts[s][r], rs)

\* What reserveScript leaves after dropping the elapsed reservations.
Kept(s) == [r \in Runs |-> IF r \in elapsed[s] THEN 0 ELSE amounts[s][r]]
KeptTotal(s) == reserved[s] - Total(s, elapsed[s])

\* Mutant: what is already reserved does not count.
Reservable_IgnoresTotal(s, r) == Kept(s)[r] = 0 /\ Need[r] <= Capacity

Reservable(s, r) == Kept(s)[r] = 0 /\ Need[r] <= Capacity - KeptTotal(s)

\* Both outcomes drop the elapsed reservations first.
TryReserve(s, r) ==
    LET fits == Reservable(s, r)
    IN  /\ amounts' = [amounts EXCEPT ![s] =
                         IF fits THEN [Kept(s) EXCEPT ![r] = Need[r]] ELSE Kept(s)]
        /\ reserved' = [reserved EXCEPT ![s] = KeptTotal(s) + IF fits THEN Need[r] ELSE 0]
        /\ elapsed' = [elapsed EXCEPT ![s] = {}]

Release(s, r) ==
    /\ amounts' = [amounts EXCEPT ![s][r] = 0]
    /\ reserved' = [reserved EXCEPT ![s] = @ - amounts[s][r]]
    /\ elapsed' = [elapsed EXCEPT ![s] = @ \ {r}]

\* Mutant: the full amount is added to the total again.
Restore_AddsAgain(s, r, late) ==
    /\ amounts' = [amounts EXCEPT ![s][r] = Need[r]]
    /\ reserved' = [reserved EXCEPT ![s] = @ + Need[r]]
    /\ elapsed' = [elapsed EXCEPT ![s] = IF late THEN @ \cup {r} ELSE @ \ {r}]

\* Sets the reservation to the recorded amount, whatever it was, and its expiry
\* to the recorded one, which may have passed since the lease was read.
Restore(s, r, late) ==
    /\ amounts' = [amounts EXCEPT ![s][r] = Need[r]]
    /\ reserved' = [reserved EXCEPT ![s] = @ + (Need[r] - amounts[s][r])]
    /\ elapsed' = [elapsed EXCEPT ![s] = IF late THEN @ \cup {r} ELSE @ \ {r}]

\* Time passes the expiry of a reservation, if there is one; nothing is written.
Elapse(s, r) ==
    /\ elapsed' = [elapsed EXCEPT ![s] = IF amounts[s][r] = 0 THEN @ ELSE @ \cup {r}]
    /\ UNCHANGED <<amounts, reserved>>

\* Redis loses its data.
Flush ==
    /\ amounts # [s \in Servers |-> [r \in Runs |-> 0]]
    /\ amounts' = [s \in Servers |-> [r \in Runs |-> 0]]
    /\ reserved' = [s \in Servers |-> 0]
    /\ elapsed' = [s \in Servers |-> {}]

-----------------------------------------------------------------------------
\* The counters and hashes of the lease store keep their domains.
LeaseTypeOK ==
    /\ amounts \in [Servers -> [Runs -> Nat]]
    /\ reserved \in [Servers -> Int]
    /\ elapsed \in [Servers -> SUBSET Runs]

\* The running total never drifts from the reservations it sums up, over
\* expiries, repeated releases, restores of what is still there and data loss
\* (the HINCRBY pairs of the three scripts).
TotalIsExact ==
    \A s \in Servers : reserved[s] = Total(s, Runs)
=============================================================================
