--------------------------- MODULE TaskRunsProofs ---------------------------
(***************************************************************************)
(* Proofs about the run tables, for any sets of runs, servers, tokens and  *)
(* definitions and any limits.                                             *)
(***************************************************************************)
EXTENDS TaskRuns, FiniteSetTheorems, TLAPS

-----------------------------------------------------------------------------
(* Types.                                                                  *)

\* The event of an agent leads to a state of the run table, and never back to
\* waiting or to the absence of the run (stateForAgentEvent).
LEMMA EventStates ==
    ASSUME NEW e \in RunEvents
    PROVE  stateForAgentEvent(e.type) \in TerminalStates \cup {"running"}
BY DEF RunEvents, EventTypes, stateForAgentEvent, TerminalStates

\* Every column keeps its domain under every transaction (RunNext).
LEMMA TypeStep == RunTypeOK /\ [RunNext]_runVars => RunTypeOK'
<1> SUFFICES ASSUME RunTypeOK, [RunNext]_runVars PROVE RunTypeOK'
  OBVIOUS
<1> USE DEF RunTypeOK
<1>1. ASSUME NEW r \in Runs, NEW d \in Definitions, Trigger(r, d) PROVE RunTypeOK'
  BY <1>1 DEF Trigger, placeVars, eventVars, RunStates
<1>2. ASSUME NEW d \in Definitions, NEW on \in BOOLEAN, NEW c \in BOOLEAN, SetEnabled(d, on, c)
      PROVE RunTypeOK'
  BY <1>2 DEF SetEnabled, lineageVars, placeVars, eventVars, RunStates
<1>3. ASSUME NEW r \in Runs, NEW s \in Servers, NEW t \in Tokens, Assign(r, s, t) PROVE RunTypeOK'
  BY <1>3 DEF Assign, lineageVars, eventVars, RunStates
<1>4. ASSUME NEW r \in Runs, Expire(r) PROVE RunTypeOK'
  BY <1>4 DEF Expire, lineageVars, placeVars, eventVars, RunStates
<1>5. ASSUME NEW r \in Runs, BackoffElapses(r) PROVE RunTypeOK'
  BY <1>5 DEF BackoffElapses, lineageVars, placeVars, eventVars
<1>6. ASSUME NEW r \in Runs, CancelQueued(r) PROVE RunTypeOK'
  BY <1>6 DEF CancelQueued, lineageVars, placeVars, eventVars, RunStates
<1>7. ASSUME NEW r \in Runs, CancelPlaced(r) PROVE RunTypeOK'
  BY <1>7 DEF CancelPlaced, lineageVars, placeVars, eventVars
<1>8. ASSUME NEW r \in Runs, NEW n \in Runs, NEW a \in BOOLEAN, retryRun(r, n, a) PROVE RunTypeOK'
  <2>1. lease' \in [Runs -> {"none", "active", "released"}]
    BY <1>8 DEF retryRun, Released
  <2>2. CASE UNCHANGED <<state, lineageVars, due>>
    BY <1>8, <2>1, <2>2 DEF retryRun, lineageVars, placeVars, eventVars
  <2>3. CASE InsertRetry(r, n)
    <3>1. due' \in [Runs -> BOOLEAN]
      BY <2>3 DEF InsertRetry
    <3>2. state' \in [Runs -> RunStates]
      BY <2>3 DEF InsertRetry, RunStates
    <3>3. definition' \in [Runs -> Definitions \cup {None}] /\ root' \in [Runs -> Runs]
          /\ attempt' \in [Runs -> Nat]
      BY <2>3 DEF InsertRetry
    <3> QED
      BY <1>8, <2>1, <3>1, <3>2, <3>3 DEF retryRun, placeVars, eventVars
  <2> QED
    BY <1>8, <2>2, <2>3 DEF retryRun
<1>9. ASSUME NEW r \in Runs, NEW t \in Tokens, NEW seq \in 1..MaxEvents, NEW e \in RunEvents,
             ApplyRunEvent(r, t, seq, e)
      PROVE RunTypeOK'
  <2>1. stateForAgentEvent(e.type) \in RunStates
    BY EventStates DEF RunStates, TerminalStates
  <2>2. state' \in [Runs -> RunStates]
    BY <1>9, <2>1 DEF ApplyRunEvent
  <2>3. events' \in [Runs -> Seq(RunEvents)]
    BY <1>9 DEF ApplyRunEvent
  <2>4. gone' \in [Runs -> BOOLEAN] /\ intent' \in [Runs -> BOOLEAN]
    BY <1>9 DEF ApplyRunEvent
  <2>5. lease' \in [Runs -> {"none", "active", "released"}]
    BY <1>9 DEF ApplyRunEvent, Released
  <2> QED
    BY <1>9, <2>2, <2>3, <2>4, <2>5 DEF ApplyRunEvent, lineageVars, placeVars
<1>10. ASSUME NEW s \in Servers, MarkServerRunsUnknown(s) PROVE RunTypeOK'
  BY <1>10 DEF MarkServerRunsUnknown, RunStates, lineageVars, placeVars, eventVars
<1>11. ASSUME NEW s \in Servers, NEW P, NEW a \in BOOLEAN, ReconcileRunning(s, P, a) PROVE RunTypeOK'
  <2>1. state' \in [Runs -> RunStates]
    BY <1>11 DEF ReconcileRunning, RunStates
  <2>2. gone' \in [Runs -> BOOLEAN]
    BY <1>11 DEF ReconcileRunning
  <2>3. lease' \in [Runs -> {"none", "active", "released"}]
    BY <1>11 DEF ReconcileRunning, Released
  <2> QED
    BY <1>11, <2>1, <2>2, <2>3 DEF ReconcileRunning, lineageVars, placeVars, eventVars
<1>12. CASE UNCHANGED runVars
  BY <1>12 DEF runVars
<1> QED
  BY <1>1, <1>2, <1>3, <1>4, <1>5, <1>6, <1>7, <1>8, <1>9, <1>10, <1>11, <1>12
  DEF RunNext, RetryRun, RetryFailed

\* The columns of the run tables keep their domains in every behaviour.
THEOREM TypesHold == RunSpec => []RunTypeOK
<1>1. RunInit => RunTypeOK
  BY LimitsAssumption DEF RunInit, RunTypeOK, RunStates
<1> QED
  BY <1>1, TypeStep, PTL DEF RunSpec

-----------------------------------------------------------------------------
(* Leases and the confirmation that a process is gone.  The two invariants *)
(* are inductive together with the types.                                  *)

LeaseInv == RunTypeOK /\ ActiveIsNotGone /\ LeaseOnlyWhilePlaced

\* No transaction leaves the confirmation on an active run, or a lease with a
\* run that is waiting, finished or confirmed gone.
LEMMA LeaseStep == LeaseInv /\ [RunNext]_runVars => ActiveIsNotGone' /\ LeaseOnlyWhilePlaced'
<1> SUFFICES ASSUME LeaseInv, [RunNext]_runVars
             PROVE  ActiveIsNotGone' /\ LeaseOnlyWhilePlaced'
  OBVIOUS
<1> DEFINE Goal == ActiveIsNotGone' /\ LeaseOnlyWhilePlaced'
<1> USE DEF LeaseInv, RunTypeOK, ActiveIsNotGone, LeaseOnlyWhilePlaced, ActiveStates
<1>1. ASSUME NEW r \in Runs, NEW d \in Definitions, Trigger(r, d) PROVE Goal
  BY <1>1 DEF Trigger
<1>2. ASSUME NEW d \in Definitions, NEW on \in BOOLEAN, NEW c \in BOOLEAN, SetEnabled(d, on, c)
      PROVE Goal
  BY <1>2 DEF SetEnabled
<1>3. ASSUME NEW r \in Runs, NEW s \in Servers, NEW t \in Tokens, Assign(r, s, t) PROVE Goal
  BY <1>3 DEF Assign
<1>4. ASSUME NEW r \in Runs, Expire(r) PROVE Goal
  BY <1>4 DEF Expire
<1>5. ASSUME NEW r \in Runs, BackoffElapses(r) PROVE Goal
  BY <1>5 DEF BackoffElapses
<1>6. ASSUME NEW r \in Runs, CancelQueued(r) PROVE Goal
  BY <1>6 DEF CancelQueued
<1>7. ASSUME NEW r \in Runs, CancelPlaced(r) PROVE Goal
  BY <1>7 DEF CancelPlaced
<1>8. ASSUME NEW r \in Runs, NEW n \in Runs, NEW a \in BOOLEAN, retryRun(r, n, a) PROVE Goal
  <2>1. \A q \in Runs : lease'[q] = "active" => lease[q] = "active"
    BY <1>8 DEF retryRun, Released
  <2>2. CASE UNCHANGED <<state, lineageVars, due>>
    BY <1>8, <2>1, <2>2 DEF retryRun
  <2>3. CASE InsertRetry(r, n)
    BY <1>8, <2>1, <2>3 DEF retryRun, InsertRetry
  <2> QED
    BY <1>8, <2>2, <2>3 DEF retryRun
<1>9. ASSUME NEW r \in Runs, NEW t \in Tokens, NEW seq \in 1..MaxEvents, NEW e \in RunEvents,
             ApplyRunEvent(r, t, seq, e)
      PROVE Goal
  <2>1. CASE stateForAgentEvent(e.type) \in TerminalStates
    BY <1>9, <2>1 DEF ApplyRunEvent, Released, TerminalStates
  <2>2. CASE stateForAgentEvent(e.type) = "running"
    BY <1>9, <2>2 DEF ApplyRunEvent, TerminalStates
  <2> QED
    BY <2>1, <2>2, EventStates
<1>10. ASSUME NEW s \in Servers, MarkServerRunsUnknown(s) PROVE Goal
  BY <1>10 DEF MarkServerRunsUnknown
<1>11. ASSUME NEW s \in Servers, NEW P, NEW a \in BOOLEAN, ReconcileRunning(s, P, a) PROVE Goal
  BY <1>11 DEF ReconcileRunning, Released, PlacedOn
<1>12. CASE UNCHANGED runVars
  BY <1>12 DEF runVars
<1> HIDE DEF LeaseInv, RunTypeOK, ActiveIsNotGone, LeaseOnlyWhilePlaced, ActiveStates
<1> QED
  BY <1>1, <1>2, <1>3, <1>4, <1>5, <1>6, <1>7, <1>8, <1>9, <1>10, <1>11, <1>12
  DEF RunNext, RetryRun, RetryFailed

\* The two invariants and the types hold in every behaviour of the run tables.
LEMMA LeaseInvHolds == RunSpec => []LeaseInv
<1>1. RunInit => LeaseInv
  BY LimitsAssumption
  DEF RunInit, LeaseInv, RunTypeOK, RunStates, ActiveIsNotGone, LeaseOnlyWhilePlaced, ActiveStates
<1>2. LeaseInv /\ [RunNext]_runVars => LeaseInv'
  BY TypeStep, LeaseStep DEF LeaseInv
<1> QED
  BY <1>1, <1>2, PTL DEF RunSpec

\* Whatever agents, users and schedulers do, capacity is held only by a run on
\* a server whose process is not confirmed gone (resource_leases.released_at).
THEOREM LeasesAreGivenBack == RunSpec => []LeaseOnlyWhilePlaced
BY LeaseInvHolds, PTL DEF LeaseInv

\* A run that counts as executing never carries the confirmation that makes it
\* retryable (process_confirmed_gone).
THEOREM ActiveRunsAreNotGone == RunSpec => []ActiveIsNotGone
BY LeaseInvHolds, PTL DEF LeaseInv

-----------------------------------------------------------------------------
(* Retry lineages.  Only Trigger and InsertRetry change them.              *)

LineageInv == RunTypeOK /\ LineageLinear

\* A transaction that neither starts nor retries a run leaves the lineages and
\* the set of known runs alone.
LEMMA LineageUntouched ==
    ASSUME RunTypeOK, [RunNext]_runVars,
           \A r \in Runs, d \in Definitions : ~Trigger(r, d),
           \A r, n \in Runs, a \in BOOLEAN : ~(retryRun(r, n, a) /\ InsertRetry(r, n))
    PROVE  UNCHANGED lineageVars /\ Known' = Known
<1> DEFINE Goal == UNCHANGED lineageVars /\ Known' = Known
<1> USE DEF RunTypeOK, Known
<1>2. ASSUME NEW d \in Definitions, NEW on \in BOOLEAN, NEW c \in BOOLEAN, SetEnabled(d, on, c)
      PROVE Goal
  BY <1>2 DEF SetEnabled, lineageVars
<1>3. ASSUME NEW r \in Runs, NEW s \in Servers, NEW t \in Tokens, Assign(r, s, t) PROVE Goal
  BY <1>3 DEF Assign, lineageVars
<1>4. ASSUME NEW r \in Runs, Expire(r) PROVE Goal
  BY <1>4 DEF Expire, lineageVars
<1>5. ASSUME NEW r \in Runs, BackoffElapses(r) PROVE Goal
  BY <1>5 DEF BackoffElapses, lineageVars
<1>6. ASSUME NEW r \in Runs, CancelQueued(r) PROVE Goal
  BY <1>6 DEF CancelQueued, lineageVars
<1>7. ASSUME NEW r \in Runs, CancelPlaced(r) PROVE Goal
  BY <1>7 DEF CancelPlaced, lineageVars
<1>8. ASSUME NEW r \in Runs, NEW n \in Runs, NEW a \in BOOLEAN, retryRun(r, n, a) PROVE Goal
  <2>1. UNCHANGED <<state, lineageVars, due>>
    BY <1>8 DEF retryRun
  <2> QED
    BY <2>1 DEF lineageVars
<1>9. ASSUME NEW r \in Runs, NEW t \in Tokens, NEW seq \in 1..MaxEvents, NEW e \in RunEvents,
             ApplyRunEvent(r, t, seq, e)
      PROVE Goal
  <2>1. stateForAgentEvent(e.type) # "absent" /\ state[r] # "absent"
    BY <1>9, EventStates DEF ApplyRunEvent, Acceptable, TerminalStates
  <2> QED
    BY <1>9, <2>1 DEF ApplyRunEvent, lineageVars
<1>10. ASSUME NEW s \in Servers, MarkServerRunsUnknown(s) PROVE Goal
  BY <1>10 DEF MarkServerRunsUnknown, lineageVars, ActiveStates, PlacedOn
<1>11. ASSUME NEW s \in Servers, NEW P, NEW a \in BOOLEAN, ReconcileRunning(s, P, a) PROVE Goal
  BY <1>11 DEF ReconcileRunning, lineageVars, ActiveStates, PlacedOn
<1>12. CASE UNCHANGED runVars
  BY <1>12 DEF runVars, lineageVars
<1> HIDE DEF RunTypeOK, Known
<1> QED
  BY <1>2, <1>3, <1>4, <1>5, <1>6, <1>7, <1>8, <1>9, <1>10, <1>11, <1>12
  DEF RunNext, RetryRun, RetryFailed

\* A retry goes behind the last attempt of its lineage: no attempt is numbered
\* higher than the one that is retried (retryRun's successor check).
LEMMA RetriedIsLast ==
    ASSUME LineageInv, NEW r \in Known, ~HasSuccessor(r),
           NEW q \in Known, root[q] = root[r]
    PROVE  attempt[q] <= attempt[r]
<1>1. attempt[q] \in Nat /\ attempt[r] \in Nat /\ attempt[r] >= 1
  BY LimitsAssumption DEF LineageInv, LineageLinear, RunTypeOK, Known
<1>2. CASE q = root[r]
  BY <1>1, <1>2 DEF LineageInv, LineageLinear
<1>3. CASE q # root[r]
  BY <1>1, <1>3 DEF HasSuccessor
<1> QED
  BY <1>2, <1>3

\* No transaction makes a lineage branch, skip a number or exceed max_retries.
LEMMA LineageStep == LineageInv /\ [RunNext]_runVars => LineageLinear'
<1> SUFFICES ASSUME LineageInv, [RunNext]_runVars PROVE LineageLinear'
  OBVIOUS
<1>1. ASSUME NEW r \in Runs, NEW d \in Definitions, Trigger(r, d) PROVE LineageLinear'
  <2>1. Known' = Known \cup {r} /\ r \notin Known
    BY <1>1 DEF Trigger, Known, LineageInv, RunTypeOK
  <2>2. root'[r] = r /\ attempt'[r] = 1
    BY <1>1 DEF Trigger, LineageInv, RunTypeOK
  <2>3. \A q \in Known : root'[q] = root[q] /\ attempt'[q] = attempt[q]
    BY <1>1, <2>1 DEF Trigger, LineageInv, RunTypeOK, Known
  <2>4. \A q \in Known : root[q] \in Known
    BY DEF LineageInv, LineageLinear
  <2> QED
    BY <2>1, <2>2, <2>3, <2>4, LimitsAssumption DEF LineageInv, LineageLinear
<1>2. ASSUME NEW r \in Runs, NEW n \in Runs, NEW a \in BOOLEAN, retryRun(r, n, a), InsertRetry(r, n)
      PROVE LineageLinear'
  <2>1. r \in Known /\ attempt[r] <= MaxRetries /\ ~HasSuccessor(r)
    <3>1. r \in Known /\ attempt[r] <= MaxRetries
      BY <1>2 DEF retryRun, Retryable
    <3>2. ~HasSuccessor(r)
      BY <1>2 DEF retryRun, InsertRetry, LineageInv, RunTypeOK, RunStates
    <3> QED
      BY <3>1, <3>2
  <2>2. Known' = Known \cup {n} /\ n \notin Known
    <3>1. state[n] = "absent" /\ state' = [state EXCEPT ![n] = "queued"]
      BY <1>2 DEF InsertRetry
    <3> QED
      BY <3>1 DEF Known, LineageInv, RunTypeOK
  <2>3. root'[n] = root[r] /\ attempt'[n] = attempt[r] + 1
    BY <1>2 DEF InsertRetry, LineageInv, RunTypeOK
  <2>4. \A q \in Known : root'[q] = root[q] /\ attempt'[q] = attempt[q]
    <3>1. /\ root' = [root EXCEPT ![n] = root[r]]
          /\ attempt' = [attempt EXCEPT ![n] = attempt[r] + 1]
      BY <1>2 DEF InsertRetry
    <3> QED
      BY <2>2, <3>1 DEF LineageInv, RunTypeOK, Known
  <2>5. \A q \in Known : root[q] = root[r] => attempt[q] <= attempt[r]
    BY <2>1, RetriedIsLast
  <2>6. attempt[r] \in 1..MaxRetries /\ root[r] \in Known /\ root[r] # n
    BY <2>1, <2>2, LimitsAssumption DEF LineageInv, LineageLinear
  <2>7. \A q \in Known : attempt[q] \in Nat /\ root[q] \in Known
    BY DEF LineageInv, LineageLinear, RunTypeOK, Known
  <2>8. \A p, q \in Known' : root'[p] = root'[q] /\ attempt'[p] = attempt'[q] => p = q
    BY <2>2, <2>3, <2>4, <2>5, <2>6, <2>7, LimitsAssumption DEF LineageInv, LineageLinear
  <2>9. ASSUME NEW q \in Known'
        PROVE  /\ attempt'[q] \in 1..(MaxRetries + 1)
               /\ root'[q] \in Known' /\ attempt'[root'[q]] = 1
               /\ attempt'[q] = 1 <=> root'[q] = q
               /\ attempt'[q] > 1 =>
                    \E p \in Known' : root'[p] = root'[q] /\ attempt'[p] = attempt'[q] - 1
    <3>1. CASE q = n
      BY <2>1, <2>2, <2>3, <2>4, <2>6, <3>1, LimitsAssumption DEF LineageInv, LineageLinear
    <3>2. CASE q \in Known
      BY <2>2, <2>4, <2>7, <3>2 DEF LineageInv, LineageLinear
    <3> QED
      BY <2>2, <3>1, <3>2
  <2> QED
    BY <2>8, <2>9 DEF LineageLinear
<1>3. CASE UNCHANGED lineageVars /\ Known' = Known
  BY <1>3 DEF LineageInv, LineageLinear, lineageVars
<1> QED
  BY <1>1, <1>2, <1>3, LineageUntouched DEF LineageInv

\* The lineages and the types hold in every behaviour of the run tables.
LEMMA LineageInvHolds == RunSpec => []LineageInv
<1>1. RunInit => LineageInv
  BY LimitsAssumption DEF RunInit, LineageInv, LineageLinear, Known, RunTypeOK, RunStates
<1>2. LineageInv /\ [RunNext]_runVars => LineageInv'
  BY TypeStep, LineageStep DEF LineageInv
<1> QED
  BY <1>1, <1>2, PTL DEF RunSpec

\* Retries form one line per first attempt, however manual and automatic ones
\* interleave, and never exceed max_retries.
THEOREM LineagesAreLines == RunSpec => []LineageLinear
BY LineageInvHolds, PTL DEF LineageInv

\* A new attempt appears only behind the last attempt of its lineage, whose
\* process is confirmed gone and whose capacity is given back with it.
THEOREM RetriesAreSettled == RunSpec => RetryOnlyFromLastSettledAttempt
<1> DEFINE A(n) ==
      state[n] = "absent" /\ state'[n] # "absent" /\ attempt'[n] > 1 =>
         \E p \in Known :
            /\ root'[n] = root[p]
            /\ attempt'[n] = attempt[p] + 1
            /\ gone[p] /\ state[p] \in {"failed", "timed_out", "cancelled", "unknown"}
            /\ lease'[p] # "active"
            /\ \A q \in Known : root[q] = root[p] => attempt[q] <= attempt[p]
<1>1. LineageInv /\ [RunNext]_runVars => \A n \in Runs : A(n)
  <2> SUFFICES ASSUME LineageInv, [RunNext]_runVars, NEW n \in Runs,
                      state[n] = "absent", state'[n] # "absent", attempt'[n] > 1
               PROVE  A(n)
    OBVIOUS
  <2>1. ASSUME NEW r \in Runs, NEW d \in Definitions, Trigger(r, d) PROVE A(n)
    BY <2>1 DEF Trigger, LineageInv, RunTypeOK
  <2>2. ASSUME NEW r \in Runs, NEW m \in Runs, NEW a \in BOOLEAN, retryRun(r, m, a),
               InsertRetry(r, m)
        PROVE A(n)
    <3>1. r \in Known /\ gone[r] /\ state[r] \in {"failed", "timed_out", "cancelled", "unknown"}
      BY <2>2 DEF retryRun, Retryable
    <3>2. ~HasSuccessor(r)
      BY <2>2 DEF retryRun, InsertRetry, LineageInv, RunTypeOK, RunStates
    <3>3. lease'[r] # "active"
      BY <2>2 DEF retryRun, Released, LineageInv, RunTypeOK
    <3>4. n = m /\ root'[n] = root[r] /\ attempt'[n] = attempt[r] + 1
      BY <2>2 DEF InsertRetry, LineageInv, RunTypeOK
    <3>5. \A q \in Known : root[q] = root[r] => attempt[q] <= attempt[r]
      BY <3>1, <3>2, RetriedIsLast
    <3> QED
      BY <3>1, <3>3, <3>4, <3>5
  <2>3. CASE UNCHANGED lineageVars /\ Known' = Known
    BY <2>3 DEF Known
  <2> QED
    BY <2>1, <2>2, <2>3, LineageUntouched DEF LineageInv
<1>2. LineageInv /\ [RunNext]_runVars => [\A n \in Runs : A(n)]_runVars
  BY <1>1
<1> QED
  BY <1>2, LineageInvHolds, PTL DEF RunSpec, RetryOnlyFromLastSettledAttempt

-----------------------------------------------------------------------------
(* Concurrency of a definition.                                            *)

\* Assign is the only transaction that takes a run from the queue to a server.
LEMMA OnlyAssignAssigns ==
    ASSUME RunTypeOK, [RunNext]_runVars, NEW r \in Runs, state[r] = "queued", state'[r] = "assigned"
    PROVE  \E s \in Servers, t \in Tokens : Assign(r, s, t)
<1> DEFINE Goal == \E s \in Servers, t \in Tokens : Assign(r, s, t)
<1> USE DEF RunTypeOK
<1>1. ASSUME NEW q \in Runs, NEW d \in Definitions, Trigger(q, d) PROVE FALSE
  BY <1>1 DEF Trigger
<1>2. ASSUME NEW d \in Definitions, NEW on \in BOOLEAN, NEW c \in BOOLEAN, SetEnabled(d, on, c)
      PROVE FALSE
  BY <1>2 DEF SetEnabled
<1>3. ASSUME NEW q \in Runs, NEW s \in Servers, NEW t \in Tokens, Assign(q, s, t) PROVE Goal
  <2>1. q = r
    BY <1>3 DEF Assign
  <2> QED
    BY <1>3, <2>1
<1>4. ASSUME NEW q \in Runs,
             Expire(q) \/ BackoffElapses(q) \/ CancelQueued(q) \/ CancelPlaced(q)
      PROVE FALSE
  BY <1>4 DEF Expire, BackoffElapses, CancelQueued, CancelPlaced
<1>5. ASSUME NEW q \in Runs, NEW n \in Runs, NEW a \in BOOLEAN, retryRun(q, n, a) PROVE FALSE
  BY <1>5 DEF retryRun, InsertRetry
<1>6. ASSUME NEW q \in Runs, NEW t \in Tokens, NEW seq \in 1..MaxEvents, NEW e \in RunEvents,
             ApplyRunEvent(q, t, seq, e)
      PROVE FALSE
  BY <1>6, EventStates DEF ApplyRunEvent, TerminalStates
<1>7. ASSUME NEW s \in Servers, MarkServerRunsUnknown(s) PROVE FALSE
  BY <1>7 DEF MarkServerRunsUnknown
<1>8. ASSUME NEW s \in Servers, NEW P, NEW a \in BOOLEAN, ReconcileRunning(s, P, a) PROVE FALSE
  BY <1>8 DEF ReconcileRunning
<1>9. CASE UNCHANGED runVars
  BY <1>9 DEF runVars
<1> HIDE DEF RunTypeOK
<1> QED
  BY <1>1, <1>2, <1>3, <1>4, <1>5, <1>6, <1>7, <1>8, <1>9 DEF RunNext, RetryRun, RetryFailed

\* The step that assigns a run leaves its definition within max_concurrency,
\* however many schedulers assign at once (Assign's count under the lock).
THEOREM AssignmentsKeepLimit == RunSpec => AssignKeepsLimit
<1> DEFINE A == \A d \in Definitions :
      (\E r \in Runs : state[r] = "queued" /\ state'[r] = "assigned" /\ definition[r] = d)
        => Cardinality(Counted(d))' <= MaxConcurrency
<1>1. RunTypeOK /\ [RunNext]_runVars => [A]_runVars
  <2> SUFFICES ASSUME RunTypeOK, [RunNext]_runVars, NEW d \in Definitions, NEW r \in Runs,
                      state[r] = "queued", state'[r] = "assigned", definition[r] = d
               PROVE  Cardinality(Counted(d))' <= MaxConcurrency
    OBVIOUS
  <2>1. PICK s \in Servers, t \in Tokens : Assign(r, s, t)
    BY OnlyAssignAssigns
  <2>2. Counted(d)' = Counted(d) \cup {r} /\ r \notin Counted(d)
    BY <2>1 DEF Assign, Counted, ActiveStates, RunTypeOK, lineageVars
  <2>3. IsFiniteSet(Counted(d))
    BY RunsAssumption, FS_Subset DEF Counted
  <2>4. Cardinality(Counted(d) \cup {r}) = Cardinality(Counted(d)) + 1
    BY <2>2, <2>3, FS_AddElement
  <2>5. Cardinality(Counted(d)) < MaxConcurrency /\ Cardinality(Counted(d)) \in Nat
    BY <2>1, <2>3, FS_CardinalityType DEF Assign
  <2> QED
    BY <2>2, <2>4, <2>5, LimitsAssumption
<1> QED
  BY <1>1, TypesHold, PTL DEF RunSpec, AssignKeepsLimit

-----------------------------------------------------------------------------
(* The run tables implement RunContract.                                   *)

\* The states a phase of the contract stands for.
LEMMA PhaseOfState ==
    /\ Phase("absent") = "absent"
    /\ Phase("queued") = "waiting"
    /\ \A st \in ActiveStates \cup {"unknown"} : Phase(st) = "placed"
    /\ \A st \in TerminalStates : Phase(st) = "closed"
BY DEF Phase, ActiveStates, TerminalStates

\* What a transaction must do to some runs S for the contract to see it close
\* them, give their capacity back, or see nothing.
LEMMA ContractView ==
    ASSUME UNCHANGED server
    PROVE  \A S \in SUBSET Runs :
             (\A r \in Runs : (lease'[r] = "active") = (lease[r] = "active" /\ r \notin S)) =>
               /\ /\ \A r \in S : Phase(state[r]) \in {"waiting", "placed"}
                  /\ \A r \in Runs : Phase(state'[r]) = IF r \in S THEN "closed" ELSE Phase(state[r])
                  => Contract!Next
               /\ (\A r \in Runs : Phase(state'[r]) = Phase(state[r])) => Contract!Next
<1> SUFFICES ASSUME NEW S \in SUBSET Runs,
                    \A r \in Runs : (lease'[r] = "active") = (lease[r] = "active" /\ r \notin S)
             PROVE  /\ /\ \A r \in S : Phase(state[r]) \in {"waiting", "placed"}
                       /\ \A r \in Runs :
                            Phase(state'[r]) = IF r \in S THEN "closed" ELSE Phase(state[r])
                       => Contract!Next
                    /\ (\A r \in Runs : Phase(state'[r]) = Phase(state[r])) => Contract!Next
  OBVIOUS
<1>1. ASSUME \A r \in S : Phase(state[r]) \in {"waiting", "placed"},
             \A r \in Runs : Phase(state'[r]) = IF r \in S THEN "closed" ELSE Phase(state[r])
      PROVE  Contract!Close(S)
  BY <1>1 DEF Contract!Close
<1>2. ASSUME \A r \in Runs : Phase(state'[r]) = Phase(state[r])
      PROVE  Contract!GiveBack(S)
  BY <1>2 DEF Contract!GiveBack
<1> QED
  BY <1>1, <1>2 DEF Contract!Next

\* Every transaction on the run tables is a step of the contract or invisible
\* to it.
LEMMA ContractStep == LeaseInv /\ LeaseInv' /\ [RunNext]_runVars => [Contract!Next]_(Contract!vars)
<1> SUFFICES ASSUME LeaseInv, LeaseInv', [RunNext]_runVars
             PROVE  Contract!Next \/ UNCHANGED Contract!vars
  BY DEF Contract!vars
<1> DEFINE Goal == Contract!Next \/ UNCHANGED Contract!vars
<1> USE DEF LeaseInv, RunTypeOK
<1>1. ASSUME NEW r \in Runs, NEW d \in Definitions, Trigger(r, d) PROVE Goal
  <2>1. Contract!Create(r)
    BY <1>1, PhaseOfState DEF Trigger, placeVars, Contract!Create
  <2> QED
    BY <2>1 DEF Contract!Next
<1>2. ASSUME NEW d \in Definitions, NEW on \in BOOLEAN, NEW c \in BOOLEAN, SetEnabled(d, on, c)
      PROVE Goal
  <2> DEFINE S == {r \in Runs : ~on /\ c /\ definition[r] = d /\ state[r] = "queued"}
  <2>1. UNCHANGED <<server, lease>>
    BY <1>2 DEF SetEnabled, placeVars
  <2>2. \A r \in Runs : (lease'[r] = "active") = (lease[r] = "active" /\ r \notin S)
    BY <2>1 DEF LeaseOnlyWhilePlaced, ActiveStates
  <2>3. \A r \in S : Phase(state[r]) \in {"waiting", "placed"}
    BY PhaseOfState
  <2>4. \A r \in Runs : Phase(state'[r]) = IF r \in S THEN "closed" ELSE Phase(state[r])
    BY <1>2, PhaseOfState DEF SetEnabled, TerminalStates
  <2>5. S \in SUBSET Runs
    OBVIOUS
  <2> HIDE DEF S
  <2> QED
    BY <2>1, <2>2, <2>3, <2>4, <2>5, ContractView
<1>3. ASSUME NEW r \in Runs, NEW s \in Servers, NEW t \in Tokens, Assign(r, s, t) PROVE Goal
  <2>1. Phase(state[r]) = "waiting"
    BY <1>3, PhaseOfState DEF Assign
  <2>2. \A q \in Runs : Phase(state'[q]) = IF q = r THEN "placed" ELSE Phase(state[q])
    BY <1>3, PhaseOfState DEF Assign, ActiveStates
  <2>3. \A q \in Runs : lease'[q] = IF q = r THEN "active" ELSE lease[q]
    <3>1. lease' = [lease EXCEPT ![r] = "active"]
      BY <1>3 DEF Assign
    <3> QED
      BY <3>1
  <2>4. server' = [server EXCEPT ![r] = s]
    BY <1>3 DEF Assign
  <2> DEFINE phase == [q \in Runs |-> Phase(state[q])]
             holding == [q \in Runs |-> lease[q] = "active"]
  <2>5. [q \in Runs |-> Phase(state'[q])] = [phase EXCEPT ![r] = "placed"]
    BY <2>2
  <2>6. [q \in Runs |-> lease'[q] = "active"] = [holding EXCEPT ![r] = TRUE]
    BY <2>3
  <2>7. Contract!Place(r, s)
    BY <2>1, <2>4, <2>5, <2>6 DEF Contract!Place
  <2> QED
    BY <2>7 DEF Contract!Next
<1>4. ASSUME NEW r \in Runs, Expire(r) \/ CancelQueued(r) PROVE Goal
  <2>1. UNCHANGED <<server, lease>> /\ state[r] = "queued"
    BY <1>4 DEF Expire, CancelQueued, placeVars
  <2>2. \A q \in Runs : (lease'[q] = "active") = (lease[q] = "active" /\ q \notin {r})
    BY <2>1 DEF LeaseOnlyWhilePlaced, ActiveStates
  <2>3. \A q \in {r} : Phase(state[q]) \in {"waiting", "placed"}
    BY <2>1, PhaseOfState
  <2>4. \A q \in Runs : Phase(state'[q]) = IF q \in {r} THEN "closed" ELSE Phase(state[q])
    BY <1>4, PhaseOfState DEF Expire, CancelQueued, TerminalStates
  <2>5. {r} \in SUBSET Runs
    OBVIOUS
  <2> QED
    BY <2>1, <2>2, <2>3, <2>4, <2>5, ContractView
<1>5. ASSUME NEW r \in Runs, BackoffElapses(r) \/ CancelPlaced(r) PROVE Goal
  BY <1>5 DEF BackoffElapses, CancelPlaced, placeVars, Contract!vars
<1>6. ASSUME NEW r \in Runs, NEW n \in Runs, NEW a \in BOOLEAN, retryRun(r, n, a) PROVE Goal
  <2>1. gone[r] /\ lease[r] # "active"
    BY <1>6 DEF retryRun, Retryable, Known, LeaseOnlyWhilePlaced
  <2>2. UNCHANGED <<lease, server>>
    BY <1>6, <2>1 DEF retryRun, Released, placeVars
  <2>3. CASE UNCHANGED <<state, lineageVars, due>>
    BY <2>2, <2>3 DEF Contract!vars
  <2>4. CASE InsertRetry(r, n)
    <3>1. Contract!Create(n)
      BY <2>2, <2>4, PhaseOfState DEF InsertRetry, Contract!Create
    <3> QED
      BY <3>1 DEF Contract!Next
  <2> QED
    BY <1>6, <2>3, <2>4 DEF retryRun
<1>7. ASSUME NEW r \in Runs, NEW t \in Tokens, NEW seq \in 1..MaxEvents, NEW e \in RunEvents,
             ApplyRunEvent(r, t, seq, e)
      PROVE Goal
  <2> DEFINE to == stateForAgentEvent(e.type)
             open == state[r] \in ActiveStates \cup {"unknown"}
             S == IF to \in TerminalStates /\ open THEN {r} ELSE {}
  <2>1. UNCHANGED server /\ state' = [state EXCEPT ![r] = to]
    BY <1>7 DEF ApplyRunEvent, placeVars
  <2>2. to \in TerminalStates \cup {"running"} /\ (open \/ to = state[r])
    BY <1>7, EventStates DEF ApplyRunEvent, Acceptable, validAgentTransition, ActiveStates
  <2>3. \A q \in Runs : (lease'[q] = "active") = (lease[q] = "active" /\ q \notin S)
    <3>1. lease' = [lease EXCEPT ![r] = IF to \in TerminalStates THEN Released(@) ELSE @]
      BY <1>7 DEF ApplyRunEvent
    <3>2. to \in TerminalStates /\ ~open => lease[r] # "active"
      BY DEF LeaseOnlyWhilePlaced
    <3> QED
      BY <3>1, <3>2 DEF Released
  <2>4. \A q \in S : Phase(state[q]) \in {"waiting", "placed"}
    BY PhaseOfState
  <2>5. \A q \in Runs : Phase(state'[q]) = IF q \in S THEN "closed" ELSE Phase(state[q])
    <3>1. Phase(to) = IF to \in TerminalStates THEN "closed" ELSE "placed"
      BY <2>2, PhaseOfState DEF ActiveStates
    <3>2. open => Phase(state[r]) = "placed"
      BY PhaseOfState
    <3> HIDE DEF to, open
    <3> QED
      BY <2>1, <2>2, <3>1, <3>2
  <2>6. S \in SUBSET Runs
    OBVIOUS
  <2> HIDE DEF S
  <2> QED
    BY <2>1, <2>3, <2>4, <2>5, <2>6, ContractView
<1>8. ASSUME NEW s \in Servers, MarkServerRunsUnknown(s) PROVE Goal
  BY <1>8, PhaseOfState
  DEF MarkServerRunsUnknown, placeVars, PlacedOn, ActiveStates, Contract!vars
<1>9. ASSUME NEW s \in Servers, NEW P, NEW a \in BOOLEAN, ReconcileRunning(s, P, a) PROVE Goal
  <2> DEFINE S == {r \in Runs : lease[r] = "active" /\ lease'[r] # "active"}
  <2>1. UNCHANGED server
    BY <1>9 DEF ReconcileRunning, placeVars
  <2>2. \A r \in Runs : Phase(state'[r]) = Phase(state[r])
    BY <1>9, PhaseOfState DEF ReconcileRunning, PlacedOn, ActiveStates
  <2>3. \A r \in Runs : (lease'[r] = "active") = (lease[r] = "active" /\ r \notin S)
    BY <1>9 DEF ReconcileRunning, Released
  <2>4. S \in SUBSET Runs
    OBVIOUS
  <2> HIDE DEF S
  <2> QED
    BY <2>1, <2>2, <2>3, <2>4, ContractView
<1>10. CASE UNCHANGED runVars
  BY <1>10 DEF runVars, Contract!vars
<1> HIDE DEF LeaseInv, RunTypeOK
<1> QED
  BY <1>1, <1>2, <1>3, <1>4, <1>5, <1>6, <1>7, <1>8, <1>9, <1>10
  DEF RunNext, RetryRun, RetryFailed

\* The run tables implement the contract: a run is placed once and on one
\* server, capacity given back is never taken again, a closed run stays closed.
THEOREM TablesKeepContract == RunSpec => ContractHolds
<1>1. RunInit => Contract!Init
  BY DEF RunInit, Contract!Init, Phase
<1> QED
  BY <1>1, ContractStep, LeaseInvHolds, PTL DEF RunSpec, ContractHolds, Contract!Spec
=============================================================================
