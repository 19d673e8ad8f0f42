------------------------------ MODULE TaskRuns ------------------------------
(***************************************************************************)
(* The central record of task runs: the tables task_runs, run_events and   *)
(* resource_leases, and every PostgreSQL transaction that writes them.  A  *)
(* transaction locks the rows it reads (FOR UPDATE, or an advisory lock on *)
(* the definition or on the retry lineage), so each one is one action.     *)
(***************************************************************************)
EXTENDS Platform, Naturals, Sequences, FiniteSets

CONSTANTS
    Definitions,     \* task definitions
    Idempotent,      \* the definitions declared idempotent
    MaxConcurrency,  \* max_concurrency of every definition
    MaxRetries,      \* max_retries of every definition
    MaxEvents        \* bound: agent events explored per run

ASSUME RunsAssumption == IsFiniteSet(Runs)
ASSUME DefinitionsAssumption == None \notin Definitions /\ Idempotent \subseteq Definitions
ASSUME LimitsAssumption == MaxConcurrency \in Nat \ {0} /\ MaxRetries \in Nat /\ MaxEvents \in Nat

VARIABLES
    enabled,          \* task_definitions.enabled
    state,            \* task_runs.state
    definition,       \* task_runs.task_definition_id
    root,             \* COALESCE(retry_of, id): the first attempt of the lineage
    attempt,          \* task_runs.attempt
    due,              \* queued_at <= now: FALSE while a retry waits out its backoff
    server,           \* task_runs.assigned_server_id
    token,            \* task_runs.execution_token
    gone,             \* task_runs.process_confirmed_gone
    lease,            \* the run's row of resource_leases, by released_at
    events,           \* agent events of run_events, indexed by agent_sequence
    intent,           \* some run.failed or run.timed_out event says automaticRetry
    cancelRequested   \* some run.cancel_requested event exists

lineageVars == <<definition, root, attempt>>
placeVars == <<server, token>>
eventVars == <<events, intent>>
runVars == <<enabled, state, definition, root, attempt, due, server, token, gone,
             lease, events, intent, cancelRequested>>

Known == {r \in Runs : state[r] # "absent"}
Terminal(r) == state[r] \in TerminalStates
Released(l) == IF l = "active" THEN "released" ELSE l

RunInit ==
    /\ enabled = [d \in Definitions |-> TRUE]
    /\ state = [r \in Runs |-> "absent"]
    /\ definition = [r \in Runs |-> None]
    /\ root = [r \in Runs |-> r]
    /\ attempt = [r \in Runs |-> 0]
    /\ due = [r \in Runs |-> FALSE]
    /\ server = [r \in Runs |-> None]
    /\ token = [r \in Runs |-> None]
    /\ gone = [r \in Runs |-> FALSE]
    /\ lease = [r \in Runs |-> "none"]
    /\ events = [r \in Runs |-> <<>>]
    /\ intent = [r \in Runs |-> FALSE]
    /\ cancelRequested = [r \in Runs |-> FALSE]

-----------------------------------------------------------------------------
(* Task definitions and new runs: internal/task/service.go.                *)

\* A disabled definition starts no run.
Trigger(r, d) ==
    /\ state[r] = "absent"
    /\ enabled[d]
    /\ state' = [state EXCEPT ![r] = "queued"]
    /\ definition' = [definition EXCEPT ![r] = d]
    /\ root' = [root EXCEPT ![r] = r]
    /\ attempt' = [attempt EXCEPT ![r] = 1]
    /\ due' = [due EXCEPT ![r] = TRUE]
    /\ UNCHANGED <<enabled, placeVars, gone, lease, eventVars, cancelRequested>>

\* Disabling may also cancel the queued runs; it leaves their gone flag alone.
SetEnabled(d, on, cancelQueued) ==
    /\ enabled' = [enabled EXCEPT ![d] = on]
    /\ state' = [r \in Runs |->
                   IF ~on /\ cancelQueued /\ definition[r] = d /\ state[r] = "queued"
                   THEN "cancelled" ELSE state[r]]
    /\ UNCHANGED <<lineageVars, due, placeVars, gone, lease, eventVars, cancelRequested>>

-----------------------------------------------------------------------------
(* Placement: internal/scheduler/postgres.go.                              *)

Counted(d) == {r \in Runs : definition[r] = d /\ state[r] \in ActiveStates}

\* Mutant: one run too many passes the concurrency check.
Assign_OffByOne(r, s, t) ==
    /\ state[r] = "queued" /\ due[r]
    /\ \A q \in Runs : token[q] # t
    /\ Cardinality(Counted(definition[r])) <= MaxConcurrency
    /\ state' = [state EXCEPT ![r] = "assigned"]
    /\ server' = [server EXCEPT ![r] = s]
    /\ token' = [token EXCEPT ![r] = t]
    /\ gone' = [gone EXCEPT ![r] = FALSE]
    /\ lease' = [lease EXCEPT ![r] = "active"]
    /\ UNCHANGED <<enabled, lineageVars, due, eventVars, cancelRequested>>

\* Only the outcome that assigns changes the tables of this module: a missing
\* script copy or a full definition leaves the run queued.
Assign(r, s, t) ==
    /\ state[r] = "queued"
    /\ due[r]
    /\ \A q \in Runs : token[q] # t
    /\ Cardinality(Counted(definition[r])) < MaxConcurrency
    /\ state' = [state EXCEPT ![r] = "assigned"]
    /\ server' = [server EXCEPT ![r] = s]
    /\ token' = [token EXCEPT ![r] = t]
    /\ gone' = [gone EXCEPT ![r] = FALSE]
    /\ lease' = [lease EXCEPT ![r] = "active"]
    /\ UNCHANGED <<enabled, lineageVars, due, eventVars, cancelRequested>>

Expire(r) ==
    /\ state[r] = "queued"
    /\ due[r]
    /\ state' = [state EXCEPT ![r] = "expired"]
    /\ UNCHANGED <<enabled, lineageVars, due, placeVars, gone, lease, eventVars,
                   cancelRequested>>

\* The clock passes the queued_at of a retry.
BackoffElapses(r) ==
    /\ state[r] = "queued"
    /\ ~due[r]
    /\ due' = [due EXCEPT ![r] = TRUE]
    /\ UNCHANGED <<enabled, state, lineageVars, placeVars, gone, lease, eventVars,
                   cancelRequested>>

-----------------------------------------------------------------------------
(* Agent events: internal/task/event_service.go.                           *)

\* Mutant: a finished run may start again.
validAgentTransition_Reopens(from, to) ==
    \/ from = to
    \/ to \in TerminalStates \cup {"running"} /\ from \notin {"absent", "queued"}

validAgentTransition(from, to) ==
    \/ from = to
    \/ to = "running" /\ from \in {"assigned", "syncing", "unknown"}
    \/ to \in TerminalStates /\ from \in {"assigned", "syncing", "running", "unknown"}

\* Mutant: only the latest event is recognised as a repetition.
IsReplay_LatestOnly(r, t, seq, e) ==
    token[r] = t /\ seq = Len(events[r]) /\ seq > 0 /\ events[r][seq] = e

\* Already recorded with the same content: acknowledged without effect.
IsReplay(r, t, seq, e) == token[r] = t /\ seq \in 1..Len(events[r]) /\ events[r][seq] = e

Acceptable(r, t, seq, e) ==
    /\ r \in Known
    /\ token[r] = t
    /\ seq = Len(events[r]) + 1
    /\ validAgentTransition(state[r], stateForAgentEvent(e.type))

\* Every other event is an error, which closes the agent's connection.
Rejected(r, t, seq, e) == ~IsReplay(r, t, seq, e) /\ ~Acceptable(r, t, seq, e)

ApplyRunEvent(r, t, seq, e) ==
    LET to == stateForAgentEvent(e.type)
        done == to \in TerminalStates
    IN  /\ Acceptable(r, t, seq, e)
        /\ events' = [events EXCEPT ![r] = Append(@, e)]
        /\ intent' = [intent EXCEPT ![r] = @ \/ (~Terminal(r) /\ to \in {"failed", "timed_out"})]
        /\ state' = [state EXCEPT ![r] = to]
        /\ gone' = [gone EXCEPT ![r] = done]
        /\ lease' = [lease EXCEPT ![r] = IF done THEN Released(@) ELSE @]
        /\ UNCHANGED <<enabled, lineageVars, due, placeVars, cancelRequested>>

-----------------------------------------------------------------------------
(* Cancellation: internal/task/run_service.go.                             *)

CancelQueued(r) ==
    /\ state[r] = "queued"
    /\ state' = [state EXCEPT ![r] = "cancelled"]
    /\ gone' = [gone EXCEPT ![r] = TRUE]
    /\ UNCHANGED <<enabled, lineageVars, due, placeVars, lease, eventVars, cancelRequested>>

\* The command reached a connection of the run's server; the state is left to
\* the agent.  An undeliverable command changes nothing.
CancelPlaced(r) ==
    /\ state[r] \in ActiveStates
    /\ cancelRequested' = [cancelRequested EXCEPT ![r] = TRUE]
    /\ UNCHANGED <<enabled, state, lineageVars, due, placeVars, gone, lease, eventVars>>

-----------------------------------------------------------------------------
(* Lost agents and retries: internal/task/reconcile.go.                    *)

PlacedOn(s) == {r \in Runs : server[r] = s /\ state[r] \in ActiveStates \cup {"unknown"}}

MarkServerRunsUnknown(s) ==
    LET lost == {r \in PlacedOn(s) : state[r] \in ActiveStates}
    IN  /\ state' = [r \in Runs |-> IF r \in lost THEN "unknown" ELSE state[r]]
        /\ gone' = [r \in Runs |-> gone[r] /\ r \notin lost]
        /\ UNCHANGED <<enabled, lineageVars, due, placeVars, lease, eventVars, cancelRequested>>

\* processes is the agent's list of <<run, token>>; only an authoritative list
\* says anything of the runs that are not in it.
ReconcileRunning(s, processes, authoritative) ==
    LET confirmed == {r \in PlacedOn(s) : <<r, token[r]>> \in processes}
        missing == IF authoritative THEN PlacedOn(s) \ confirmed ELSE {}
    IN  /\ state' = [r \in Runs |-> IF r \in confirmed THEN "running"
                                    ELSE IF r \in missing /\ ~gone[r] THEN "unknown"
                                    ELSE state[r]]
        /\ gone' = [r \in Runs |-> (gone[r] \/ r \in missing) /\ r \notin confirmed]
        /\ lease' = [r \in Runs |-> IF r \in missing THEN Released(lease[r]) ELSE lease[r]]
        /\ UNCHANGED <<enabled, lineageVars, due, placeVars, eventVars, cancelRequested>>

\* Mutant: the immediate successor is overlooked.
HasSuccessor_OffByOne(r) ==
    \E c \in Known : c # root[r] /\ root[c] = root[r] /\ attempt[c] > attempt[r] + 1

HasSuccessor(r) ==
    \E c \in Known : c # root[r] /\ root[c] = root[r] /\ attempt[c] > attempt[r]

\* Mutant: the process need not be confirmed gone.
Retryable_NotGone(r) ==
    /\ r \in Known
    /\ enabled[definition[r]]
    /\ definition[r] \in Idempotent
    /\ attempt[r] <= MaxRetries
    /\ state[r] \in {"failed", "timed_out", "cancelled", "unknown"}

Retryable(r) ==
    /\ r \in Known
    /\ enabled[definition[r]]
    /\ definition[r] \in Idempotent
    /\ gone[r]
    /\ attempt[r] <= MaxRetries
    /\ state[r] \in {"failed", "timed_out", "cancelled", "unknown"}

AutomaticRetryable(r) ==
    intent[r] /\ ~cancelRequested[r] /\ state[r] \in {"failed", "timed_out"}

\* The next attempt of r's lineage, under the identifier n.
InsertRetry(r, n) ==
    /\ state[n] = "absent"
    /\ state' = [state EXCEPT ![n] = "queued"]
    /\ definition' = [definition EXCEPT ![n] = definition[r]]
    /\ root' = [root EXCEPT ![n] = root[r]]
    /\ attempt' = [attempt EXCEPT ![n] = attempt[r] + 1]
    /\ due' \in {[due EXCEPT ![n] = elapsed] : elapsed \in BOOLEAN}

\* A request whose successor exists already is answered with that successor.
retryRun(r, n, automatic) ==
    /\ Retryable(r)
    /\ automatic => AutomaticRetryable(r)
    /\ lease' = [lease EXCEPT ![r] = Released(@)]
    /\ \/ HasSuccessor(r) /\ UNCHANGED <<state, lineageVars, due>>
       \/ ~HasSuccessor(r) /\ InsertRetry(r, n)
    /\ UNCHANGED <<enabled, placeVars, gone, eventVars, cancelRequested>>

RetryRun(r) == \E n \in Runs : retryRun(r, n, FALSE)
RetryFailed(r) == \E n \in Runs : retryRun(r, n, TRUE)
-----------------------------------------------------------------------------
(* The record on its own: every writer may run at any time, agents send     *)
(* whatever they like under any token, reports may list any placed runs.    *)

RunNext ==
    \/ \E r \in Runs, d \in Definitions : Trigger(r, d)
    \/ \E d \in Definitions, on, cancelQueued \in BOOLEAN : SetEnabled(d, on, cancelQueued)
    \/ \E r \in Runs, s \in Servers, t \in Tokens : Assign(r, s, t)
    \/ \E r \in Runs :
          \/ Expire(r) \/ BackoffElapses(r)
          \/ CancelQueued(r) \/ CancelPlaced(r)
          \/ RetryRun(r) \/ RetryFailed(r)
    \/ \E r \in Runs, t \in Tokens, seq \in 1..MaxEvents, e \in RunEvents :
          ApplyRunEvent(r, t, seq, e)
    \/ \E s \in Servers :
          \/ MarkServerRunsUnknown(s)
          \/ \E listed \in SUBSET PlacedOn(s), authoritative \in BOOLEAN :
                ReconcileRunning(s, {<<r, token[r]>> : r \in listed}, authoritative)

RunSpec == RunInit /\ [][RunNext]_runVars

-----------------------------------------------------------------------------
(* Properties.                                                             *)

\* Every column of the run tables keeps its domain (the CHECK constraints).
RunTypeOK ==
    /\ enabled \in [Definitions -> BOOLEAN]
    /\ state \in [Runs -> RunStates]
    /\ definition \in [Runs -> Definitions \cup {None}]
    /\ root \in [Runs -> Runs]
    /\ attempt \in [Runs -> Nat]
    /\ due \in [Runs -> BOOLEAN]
    /\ server \in [Runs -> Servers \cup {None}]
    /\ token \in [Runs -> Tokens \cup {None}]
    /\ gone \in [Runs -> BOOLEAN]
    /\ lease \in [Runs -> {"none", "active", "released"}]
    /\ events \in [Runs -> Seq(RunEvents)]
    /\ intent \in [Runs -> BOOLEAN]
    /\ cancelRequested \in [Runs -> BOOLEAN]

\* Retries form one line per first attempt, never a tree: manual and automatic
\* retries of any attempt of a lineage, in any order and repeated, never make
\* two runs with the same attempt number, never leave a hole in the numbers
\* and never exceed max_retries (retryRun's lineage lock and successor check).
LineageLinear ==
    /\ \A p, q \in Known : root[p] = root[q] /\ attempt[p] = attempt[q] => p = q
    /\ \A r \in Known :
          /\ attempt[r] \in 1..(MaxRetries + 1)
          /\ root[r] \in Known /\ attempt[root[r]] = 1
          /\ attempt[r] = 1 <=> root[r] = r
          /\ attempt[r] > 1 => \E p \in Known : root[p] = root[r] /\ attempt[p] = attempt[r] - 1

\* Capacity is held only by a run that is on a server and whose process is not
\* confirmed gone: no order of agent events, reports, disconnections, cancels
\* and retries strands the capacity a run was given (ApplyRunEvent,
\* ReconcileRunning and retryRun release it).
LeaseOnlyWhilePlaced ==
    \A r \in Runs : lease[r] = "active" =>
      state[r] \in ActiveStates \cup {"unknown"} /\ ~gone[r]

\* The flag that makes a run retryable is never left set on a run that is
\* counted as executing: whichever writer brings a run back to work clears it
\* (Assign, ApplyRunEvent on "started", ReconcileRunning).
ActiveIsNotGone ==
    \A r \in Runs : state[r] \in ActiveStates => ~gone[r]

\* A new attempt is created only behind the last attempt of its lineage, and
\* only when that attempt's process is confirmed gone and its capacity given
\* back in the same transaction (retryRun's conditions).
RetryOnlyFromLastSettledAttempt ==
    [][\A n \in Runs : state[n] = "absent" /\ state'[n] # "absent" /\ attempt'[n] > 1 =>
         \E p \in Known :
            /\ root'[n] = root[p]
            /\ attempt'[n] = attempt[p] + 1
            /\ gone[p] /\ state[p] \in {"failed", "timed_out", "cancelled", "unknown"}
            /\ lease'[p] # "active"
            /\ \A q \in Known : root[q] = root[p] => attempt[q] <= attempt[p]]_runVars

\* An assignment never takes a definition past max_concurrency, counted the
\* way Assign counts: the step that assigns leaves at most the limit.
AssignKeepsLimit ==
    [][\A d \in Definitions :
         (\E r \in Runs : state[r] = "queued" /\ state'[r] = "assigned" /\ definition[r] = d)
           => Cardinality(Counted(d))' <= MaxConcurrency]_runVars

\* A failure that recorded its retry intent is retried by the scheduler's scan,
\* unless somebody asked to cancel it, the definition is disabled or there is
\* no identifier left for the new run (RetryFailed).
IntentIsConsumed ==
    \A r \in Runs :
      (Retryable(r) /\ AutomaticRetryable(r)) ~>
        (\/ HasSuccessor(r)
         \/ \E d \in Definitions : definition[r] = d /\ ~enabled[d]
         \/ Known = Runs)

Phase(st) ==
    IF st = "absent" THEN "absent"
    ELSE IF st \in {"queued", "scheduling"} THEN "waiting"
    ELSE IF st \in ActiveStates \cup {"unknown"} THEN "placed" ELSE "closed"

\* The record implements RunContract: a run is placed once and on one server,
\* lease capacity is never taken twice, a terminal state is never left.
Contract == INSTANCE RunContract WITH
    phase <- [r \in Runs |-> Phase(state[r])],
    place <- server,
    holding <- [r \in Runs |-> lease[r] = "active"]

\* Every behaviour of the run tables is one the contract allows.
ContractHolds == Contract!Spec
=============================================================================
