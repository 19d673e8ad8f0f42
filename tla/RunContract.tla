---------------------------- MODULE RunContract -----------------------------
(***************************************************************************)
(* What the platform promises of one task run, whatever happens to agents, *)
(* connections and schedulers: it is placed on at most one server, once;   *)
(* it holds capacity at most from its placement to its close, and capacity *)
(* given back is never taken again; a closed run stays closed.             *)
(***************************************************************************)
CONSTANTS Runs, Servers, None

VARIABLES phase, place, holding

vars == <<phase, place, holding>>

Init ==
    /\ phase = [r \in Runs |-> "absent"]
    /\ place = [r \in Runs |-> None]
    /\ holding = [r \in Runs |-> FALSE]

Create(r) ==
    /\ phase[r] = "absent"
    /\ phase' = [phase EXCEPT ![r] = "waiting"]
    /\ UNCHANGED <<place, holding>>

Place(r, s) ==
    /\ phase[r] = "waiting"
    /\ phase' = [phase EXCEPT ![r] = "placed"]
    /\ place' = [place EXCEPT ![r] = s]
    /\ holding' = [holding EXCEPT ![r] = TRUE]

\* Several runs may close in one transaction; each gives its capacity back.
Close(S) ==
    /\ \A r \in S : phase[r] \in {"waiting", "placed"}
    /\ phase' = [r \in Runs |-> IF r \in S THEN "closed" ELSE phase[r]]
    /\ holding' = [r \in Runs |-> holding[r] /\ r \notin S]
    /\ UNCHANGED place

GiveBack(S) ==
    /\ holding' = [r \in Runs |-> holding[r] /\ r \notin S]
    /\ UNCHANGED <<phase, place>>

Next ==
    \/ \E r \in Runs : Create(r)
    \/ \E r \in Runs, s \in Servers : Place(r, s)
    \/ \E S \in SUBSET Runs : Close(S) \/ GiveBack(S)

Spec == Init /\ [][Next]_vars
=============================================================================
