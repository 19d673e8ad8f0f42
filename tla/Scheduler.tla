------------------------------ MODULE Scheduler ------------------------------
(***************************************************************************)
(* Scheduler processes over the run tables and the Redis lease store:      *)
(* internal/scheduler/service.go and cmd/scheduler/main.go.  A scan reads  *)
(* PostgreSQL, talks to Redis and writes PostgreSQL in separate steps, so  *)
(* several schedulers, the agents and data loss fall between them.         *)
(***************************************************************************)
EXTENDS TaskRuns, LeaseStore

CONSTANTS
    Schedulers,      \* scheduler processes
    SchedulerFaults, \* faults explored: unverified, ambiguous, flush, overdue
    MaxAborts        \* bound: scans cut short, and losses of Redis data

ASSUME SchedulerAssumption ==
    /\ SchedulerFaults \subseteq {"unverified", "ambiguous", "flush", "overdue"}
    /\ MaxAborts \in Nat

VARIABLES
    step,        \* where each scheduler is in its scan
    todo,        \* what is left of the list the step works through
    run,         \* the run ScheduleOne works on
    candidates,  \* its candidates not tried yet
    target,      \* the server reserved for it
    overdue,     \* the runs whose resource_leases.expires_at has passed
    aborts       \* scans cut short and losses so far

scanVars == <<step, todo, run, candidates, target>>
clockVars == <<overdue, aborts>>
vars == <<runVars, leaseVars, scanVars, clockVars>>

Init ==
    /\ RunInit /\ LeaseInit
    /\ step = [p \in Schedulers |-> "idle"]
    /\ todo = [p \in Schedulers |-> {}]
    /\ run = [p \in Schedulers |-> None]
    /\ candidates = [p \in Schedulers |-> {}]
    /\ target = [p \in Schedulers |-> None]
    /\ overdue = {}
    /\ aborts = 0

-----------------------------------------------------------------------------
(* Scan.                                                                   *)

Goto(p, next, list) ==
    /\ step' = [step EXCEPT ![p] = next]
    /\ todo' = [todo EXCEPT ![p] = list]

\* Back to the loop over the queue, with nothing in hand.
Resume(p) ==
    /\ step' = [step EXCEPT ![p] = "queue"]
    /\ run' = [run EXCEPT ![p] = None]
    /\ candidates' = [candidates EXCEPT ![p] = {}]
    /\ target' = [target EXCEPT ![p] = None]
    /\ UNCHANGED todo

\* Mutant: the query overlooks timeouts.
Wanted_FailedOnly ==
    {r \in Runs : Retryable(r) /\ AutomaticRetryable(r) /\ ~HasSuccessor(r) /\ state[r] = "failed"}

Wanted == {r \in Runs : Retryable(r) /\ AutomaticRetryable(r) /\ ~HasSuccessor(r)}

\* The scan opens with the list of retry intents.
ScanRetry(p) ==
    /\ step[p] = "idle"
    /\ Goto(p, "retry", Wanted)
    /\ UNCHANGED <<runVars, leaseVars, run, candidates, target, clockVars>>

\* One transaction each; a run that is no longer retryable is passed over (and,
\* by the bound on runs, one for whose retry no identifier is left).
RetryWanted(p) ==
    /\ step[p] = "retry"
    /\ \E r \in todo[p] :
          /\ \/ RetryFailed(r)
             \/ ~(Retryable(r) /\ AutomaticRetryable(r)) /\ UNCHANGED runVars
             \/ Known = Runs /\ UNCHANGED runVars
          /\ Goto(p, "retry", todo[p] \ {r})
    /\ UNCHANGED <<leaseVars, run, candidates, target, clockVars>>

\* Mutant: only finished runs are cleaned up.
ListReleasedLeases_FinishedOnly ==
    {r \in Runs : lease[r] = "released" /\ Terminal(r) /\ r \notin overdue}

ListReleasedLeases == {r \in Runs : lease[r] = "released" /\ r \notin overdue}

ListActiveLeases ==
    {r \in Runs : lease[r] = "active" /\ r \notin overdue /\ state[r] \in ActiveStates}

ListQueued == {r \in Runs : state[r] = "queued"}

ScanReleased(p) ==
    /\ step[p] = "retry" /\ todo[p] = {}
    /\ Goto(p, "release", ListReleasedLeases)
    /\ UNCHANGED <<runVars, leaseVars, run, candidates, target, clockVars>>

CleanReleased(p) ==
    /\ step[p] = "release"
    /\ \E r \in todo[p] :
          /\ Release(server[r], r)
          /\ Goto(p, "release", todo[p] \ {r})
    /\ UNCHANGED <<runVars, run, candidates, target, clockVars>>

ScanActive(p) ==
    /\ step[p] = "release" /\ todo[p] = {}
    /\ Goto(p, "restore", ListActiveLeases)
    /\ UNCHANGED <<runVars, leaseVars, run, candidates, target, clockVars>>

restoreActiveLeases(p) ==
    /\ step[p] = "restore"
    /\ \E r \in todo[p] :
          /\ Restore(server[r], r, r \in overdue)
          /\ Goto(p, "restore", todo[p] \ {r})
    /\ UNCHANGED <<runVars, run, candidates, target, clockVars>>

ScanQueued(p) ==
    /\ step[p] = "restore" /\ todo[p] = {}
    /\ Goto(p, "queue", ListQueued)
    /\ UNCHANGED <<runVars, leaseVars, run, candidates, target, clockVars>>

ScanEnds(p) ==
    /\ step[p] = "queue" /\ todo[p] = {}
    /\ Goto(p, "idle", {})
    /\ UNCHANGED <<runVars, leaseVars, run, candidates, target, clockVars>>

-----------------------------------------------------------------------------
(* ScheduleOne.                                                            *)

\* Still waiting for its turn when the run is read again.
Eligible(r) ==
    state[r] = "queued" /\ due[r] /\ Cardinality(Counted(definition[r])) < MaxConcurrency

\* Not queued any more, in backoff, or no slot of its definition is free.
Skip(p, r) ==
    /\ step[p] = "queue" /\ r \in todo[p]
    /\ ~Eligible(r)
    /\ Goto(p, "queue", todo[p] \ {r})
    /\ UNCHANGED <<runVars, leaseVars, run, candidates, target, clockVars>>

\* max_wait_seconds has passed.
ExpireOne(p, r) ==
    /\ step[p] = "queue" /\ r \in todo[p]
    /\ Expire(r)
    /\ Goto(p, "queue", todo[p] \ {r})
    /\ UNCHANGED <<leaseVars, run, candidates, target, clockVars>>

\* The servers that pass Filter: any set of them, by their last heartbeats.
Consider(p, r, servers) ==
    /\ step[p] = "queue" /\ r \in todo[p]
    /\ Eligible(r)
    /\ step' = [step EXCEPT ![p] = "try"]
    /\ todo' = [todo EXCEPT ![p] = @ \ {r}]
    /\ run' = [run EXCEPT ![p] = r]
    /\ candidates' = [candidates EXCEPT ![p] = servers]
    /\ UNCHANGED <<runVars, leaseVars, target, clockVars>>

Reserve(p, s) ==
    /\ step[p] = "try" /\ s \in candidates[p]
    /\ TryReserve(s, run[p])
    /\ IF Reservable(s, run[p])
       THEN /\ step' = [step EXCEPT ![p] = "assign"]
            /\ target' = [target EXCEPT ![p] = s]
            /\ UNCHANGED candidates
       ELSE /\ candidates' = [candidates EXCEPT ![p] = @ \ {s}]
            /\ UNCHANGED <<step, target>>
    /\ UNCHANGED <<runVars, todo, run, clockVars>>

NoCandidateLeft(p) ==
    /\ step[p] = "try" /\ candidates[p] = {}
    /\ Resume(p)
    /\ UNCHANGED <<runVars, leaseVars, clockVars>>

AssignReserved(p, t) ==
    /\ step[p] = "assign"
    /\ Assign(run[p], target[p], t)
    /\ Resume(p)
    /\ UNCHANGED <<leaseVars, clockVars>>

\* The run was taken or cancelled, its definition filled up, or the server has
\* no verified copy of the script.
AssignRefused(p) ==
    /\ step[p] = "assign"
    /\ ~Eligible(run[p]) \/ "unverified" \in SchedulerFaults
    /\ step' = [step EXCEPT ![p] = "undo"]
    /\ UNCHANGED <<runVars, leaseVars, todo, run, candidates, target, clockVars>>

\* The transaction commits and its acknowledgement is lost: an error to the
\* scheduler, which gives the reservation back.
AssignAmbiguous(p, t) ==
    /\ "ambiguous" \in SchedulerFaults
    /\ step[p] = "assign"
    /\ Assign(run[p], target[p], t)
    /\ step' = [step EXCEPT ![p] = "undo"]
    /\ todo' = [todo EXCEPT ![p] = {}]
    /\ UNCHANGED <<leaseVars, run, candidates, target, clockVars>>

Undo(p) ==
    /\ step[p] = "undo"
    /\ Release(target[p], run[p])
    /\ Resume(p)
    /\ UNCHANGED <<runVars, clockVars>>

\* A crash, the scan's 10 second deadline or an error of either store.
Abort(p) ==
    /\ step[p] # "idle" /\ aborts < MaxAborts
    /\ aborts' = aborts + 1
    /\ step' = [step EXCEPT ![p] = "idle"]
    /\ todo' = [todo EXCEPT ![p] = {}]
    /\ run' = [run EXCEPT ![p] = None]
    /\ candidates' = [candidates EXCEPT ![p] = {}]
    /\ target' = [target EXCEPT ![p] = None]
    /\ UNCHANGED <<runVars, leaseVars, overdue>>

-----------------------------------------------------------------------------
(* What happens around the schedulers.                                     *)

\* Time passes the expiry of a lease and of its reservation, which is the same
\* moment, or that of a reservation without a lease.  leaseTTL is the timeout of
\* the run and two minutes more, counted from the assignment and never renewed:
\* a run that starts late or stays unknown outlives it (the fault "overdue").
\* A scan, which has at most ten seconds, does not.
Elapses(s, r) ==
    /\ \A p \in Schedulers : run[p] # r
    /\ \/ /\ server[r] = s /\ r \notin overdue
          /\ lease[r] = "active" => "overdue" \in SchedulerFaults
          /\ overdue' = overdue \cup {r}
       \/ /\ server[r] # s
          /\ amounts[s][r] # 0 /\ r \notin elapsed[s]
          /\ UNCHANGED overdue
    /\ Elapse(s, r)
    /\ UNCHANGED <<runVars, scanVars, aborts>>

RedisLoses ==
    /\ "flush" \in SchedulerFaults /\ aborts < MaxAborts
    /\ Flush
    /\ aborts' = aborts + 1
    /\ UNCHANGED <<runVars, scanVars, overdue>>

\* To the scheduler an assigned and a running run are alike, so of the agent's
\* events only the last one is explored.
Ends(r) ==
    \E t \in Tokens, e \in RunEvents :
       /\ stateForAgentEvent(e.type) \in TerminalStates
       /\ Len(events[r]) < MaxEvents
       /\ ApplyRunEvent(r, t, Len(events[r]) + 1, e)

RunsChange ==
    /\ \/ \E r \in Runs, d \in Definitions : Trigger(r, d)
       \/ \E r \in Runs : BackoffElapses(r) \/ CancelQueued(r) \/ Ends(r)
       \/ \E s \in Servers :
             \/ MarkServerRunsUnknown(s)
             \/ \E listed \in SUBSET PlacedOn(s), authoritative \in BOOLEAN :
                   ReconcileRunning(s, {<<r, token[r]>> : r \in listed}, authoritative)
    /\ UNCHANGED <<leaseVars, scanVars, clockVars>>

Scan(p) ==
    \/ ScanRetry(p) \/ RetryWanted(p) \/ ScanReleased(p) \/ CleanReleased(p) \/ ScanActive(p)
    \/ restoreActiveLeases(p) \/ ScanQueued(p) \/ ScanEnds(p)

ScheduleOne(p) ==
    \/ \E r \in Runs :
          \/ Skip(p, r) \/ ExpireOne(p, r)
          \/ \E servers \in SUBSET Servers : Consider(p, r, servers)
    \/ \E s \in Servers : Reserve(p, s)
    \/ NoCandidateLeft(p)
    \/ \E t \in Tokens : AssignReserved(p, t) \/ AssignAmbiguous(p, t)
    \/ AssignRefused(p) \/ Undo(p)

Next ==
    \/ \E p \in Schedulers : Scan(p) \/ ScheduleOne(p) \/ Abort(p)
    \/ \E s \in Servers, r \in Runs : Elapses(s, r)
    \/ RedisLoses
    \/ RunsChange

Spec == Init /\ [][Next]_vars

\* A scheduler process scans every 15 seconds and its scans end.
FairSpec == Spec /\ \A p \in Schedulers : WF_vars(Scan(p) \/ ScheduleOne(p))

-----------------------------------------------------------------------------
(* Properties.                                                             *)

\* A scheduler that holds a reservation knows for which run and server.
SchedulerTypeOK ==
    /\ LeaseTypeOK
    /\ overdue \subseteq Runs
    /\ step \in [Schedulers -> {"idle", "retry", "release", "restore", "queue", "try", "assign", "undo"}]
    /\ todo \in [Schedulers -> SUBSET Runs]
    /\ run \in [Schedulers -> Runs \cup {None}]
    /\ candidates \in [Schedulers -> SUBSET Servers]
    /\ target \in [Schedulers -> Servers \cup {None}]
    /\ \A p \in Schedulers : step[p] \in {"assign", "undo"} => run[p] # None /\ target[p] # None

Holders(s) == {r \in Runs : lease[r] = "active" /\ server[r] = s}

Promised(rs) == MapThenSumSet(LAMBDA r : Need[r], rs)

\* Several schedulers, aborted scans, late restores and cleanups never give the
\* same capacity out twice: the runs with an unexpired lease of a server fit
\* into what it offers (TryReserve before Assign, Release only of what is free).
NoOvercommit ==
    \A s \in Servers : Promised(Holders(s) \ overdue) <= Capacity

\* Every unexpired lease of the database is backed by a reservation in Redis,
\* so no other scheduler can reserve the same capacity (the order TryReserve,
\* Assign, and the undo of a refused assignment only).
LeaseIsReserved ==
    \A s \in Servers : \A r \in Holders(s) \ overdue : amounts[s][r] = Need[r]

\* A reservation Redis lost is made again for every run that still occupies its
\* server: later scans restore it from the database while the run is active and
\* its lease has not expired.
ActiveIsRestored ==
    \A s \in Servers, r \in Runs :
      (r \in Holders(s) \ overdue /\ state[r] \in ActiveStates) ~>
        (amounts[s][r] = Need[r] \/ r \notin Holders(s) \ overdue \/ state[r] \notin ActiveStates)

\* The capacity of a released lease is free in the end and stays free: a restore
\* that was read before the release and applied after it is cleaned up by a
\* later scan (the repeated cleanup of ListReleasedLeases).
ReleasedStaysFree ==
    \A s \in Servers, r \in Runs :
      <>[](lease[r] = "released" /\ server[r] = s => amounts[s][r] = 0 \/ r \in elapsed[s])

\* The totals in Redis are exact and cover every unexpired lease.
ReservationsAreExact == SchedulerTypeOK /\ TotalIsExact /\ LeaseIsReserved

\* Through lost data and lost acknowledgements the totals in Redis stay exact, and
\* the reservations follow the leases of the database in the end, both ways.
ReservationsFollowLeases == []TotalIsExact /\ ActiveIsRestored /\ ReleasedStaysFree
=============================================================================
