----------------------------- MODULE AlertRules -----------------------------
(***************************************************************************)
(* The operations process watches one server or one run: every scan reads  *)
(* a snapshot, folds it into the stored rule states and brings the alerts  *)
(* in line with them (internal/ops, internal/alert).  A trigger of the     *)
(* database (migration 11) puts a notice into the outbox when an alert is  *)
(* opened or resolved.  A scan may be cut anywhere by a restart or by its  *)
(* ten seconds, and each of its statements may fail.                       *)
(***************************************************************************)
EXTENDS Integers, Sequences, SequencesExt, FiniteSets, FiniteSetsExt

CONSTANTS
    AlertBudgets    \* bounds of one history: heartbeats, other changes of the server, the run or the channel, and
                    \* failures or restarts during scans

ASSUME AlertAssumption == AlertBudgets \subseteq [beats : Nat, changes : Nat, cuts : Nat]

ServerRules == {"agent_offline", "memory_low"}
RunRules == {"queue_timeout", "task_failed"}
RuleKeys == ServerRules \cup RunRules
Levels == {"low", "between", "enough", "unknown"}   \* below 10 %, up to 15 %, above, total of zero
RequiredSamples == 2
OpenRun == {"queued", "late"}   \* late: queued for more than ten minutes

VARIABLES
    scene,      \* what is watched: "server" or "run"
    server,     \* enabled; seen within two minutes; samples, oldest first; old: how many are over two
                \* minutes old; since: how many came before it was last enabled or disabled
    run,        \* state of the run
    channel,    \* notification_configs.enabled
    states,     \* alert_rule_states by key
    alerts,     \* rows of one subject, in order of last_occurred_at; notices: its rows in the outbox
    scanner,    \* the scan: stage, the server as read, its evaluations by key, transitions still to apply
    left,       \* what remains of the budget
    unmarked,   \* history: keys whose alert was raised or resolved by a scan that could not mark it
    muted       \* history: the channel was off at some time

alertVars == <<scene, server, run, channel, states, alerts, scanner, left, unmarked, muted>>

NoState == [known |-> FALSE, active |-> FALSE, desired |-> FALSE, bad |-> 0, good |-> 0, at |-> 0]
NoScan == [stage |-> "idle", enabled |-> FALSE, seen |-> FALSE, evaluations |-> [k \in RuleKeys |-> <<>>],
           transitions |-> <<>>]

AlertInit ==
    /\ scene \in {"server", "run"} /\ channel \in BOOLEAN
    /\ server = [enabled |-> TRUE, seen |-> TRUE, samples |-> <<>>, old |-> 0, since |-> 0] /\ run = "queued"
    /\ states = [k \in RuleKeys |-> NoState] /\ alerts = <<>> /\ scanner = NoScan
    /\ left \in AlertBudgets /\ unmarked = {} /\ muted = ~channel

Spend(resource) == left[resource] > 0 /\ left' = [left EXCEPT ![resource] = @ - 1]
Change == Spend("changes")
Cut == Spend("cuts")

-----------------------------------------------------------------------------
(* What happens to the subject (external to the operations process). *)

SampleArrives ==
    /\ scene = "server" /\ Spend("beats")
    /\ \E level \in Levels : server' = [server EXCEPT !.seen = TRUE, !.samples = Append(@, level)]
    /\ UNCHANGED <<scene, run, channel, states, alerts, scanner, unmarked, muted>>

\* Two minutes without a heartbeat: the samples are too old as well.
Silence ==
    /\ scene = "server" /\ server.seen /\ Change
    /\ server' = [server EXCEPT !.seen = FALSE, !.old = Len(server.samples)]
    /\ UNCHANGED <<scene, run, channel, states, alerts, scanner, unmarked, muted>>

SetEnabled ==
    /\ scene = "server" /\ Change
    /\ server' = [server EXCEPT !.enabled = ~@, !.since = Len(server.samples)]
    /\ UNCHANGED <<scene, run, channel, states, alerts, scanner, unmarked, muted>>

RunMoves ==
    /\ scene = "run" /\ Change
    /\ \/ run = "queued" /\ run' = "late"
       \/ run \in OpenRun /\ run' = "assigned"
       \/ run = "assigned" /\ run' \in {"queued", "succeeded", "failed"}
    /\ UNCHANGED <<scene, server, channel, states, alerts, scanner, unmarked, muted>>

SwitchChannel ==
    /\ Change /\ channel' = ~channel /\ muted' = TRUE
    /\ UNCHANGED <<scene, server, run, states, alerts, scanner, unmarked>>

-----------------------------------------------------------------------------
(* Alerts *)

Unresolved(key) == {i \in DOMAIN alerts : alerts[i].key = key /\ alerts[i].status # "resolved"}
Opened == IF channel THEN {"opened"} ELSE {}

\* enqueue_alert_notification: only an alert whose opening is in the outbox gets a notice of its recovery.
Recovered(alert) == IF channel /\ "opened" \in alert.notices THEN alert.notices \cup {"recovered"} ELSE alert.notices

\* The newest open alert of the last five minutes counts the occurrence; otherwise there is a new one.
MergeOrCreate(key) ==
    LET mergeable == {i \in DOMAIN alerts : alerts[i].key = key /\ alerts[i].status = "open" /\ alerts[i].recent}
    IN  IF mergeable # {} THEN [alerts EXCEPT ![Max(mergeable)].recent = TRUE]
        ELSE Append(alerts, [key |-> key, status |-> "open", recent |-> TRUE, notices |-> Opened])

ResolveAlert(key) ==
    IF Unresolved(key) = {} THEN alerts
    ELSE LET i == Max(Unresolved(key))
         IN  [alerts EXCEPT ![i].status = "resolved", ![i].notices = Recovered(alerts[i])]

Acknowledge ==
    /\ \E i \in DOMAIN alerts : alerts[i].status = "open" /\ alerts' = [alerts EXCEPT ![i].status = "acknowledged"]
    /\ UNCHANGED <<scene, server, run, channel, states, scanner, left, unmarked, muted>>

\* Five minutes pass.
WindowPasses ==
    /\ \E i \in DOMAIN alerts : alerts[i].recent
    /\ alerts' = [i \in DOMAIN alerts |-> [alerts[i] EXCEPT !.recent = FALSE]]
    /\ UNCHANGED <<scene, server, run, channel, states, scanner, left, unmarked, muted>>

-----------------------------------------------------------------------------
(* Evaluations *)

Plain(bad) == <<[verdict |-> IF bad THEN "bad" ELSE "good", at |-> Len(server.samples), sample |-> FALSE,
                 required |-> 1]>>

\* The two newest samples, without the ones that are too old or that give no total.
SampleEvaluations ==
    LET n == Len(server.samples)
        read == SelectSeq([i \in 1..n |-> i], LAMBDA i : i > n - 2 /\ i > server.old /\ server.samples[i] # "unknown")
    IN  [j \in DOMAIN read |->
            [verdict |-> CASE server.samples[read[j]] = "low" -> "bad"
                           [] server.samples[read[j]] = "enough" -> "good"
                           [] OTHER -> "neither",
             at |-> read[j], sample |-> TRUE, required |-> RequiredSamples]]

\* A disabled server is neither offline nor short of memory.
EvaluateServer(enabled, seen) ==
    [k \in RuleKeys |-> CASE k = "agent_offline" -> Plain(enabled /\ ~seen)
                          [] k = "memory_low" -> IF enabled THEN SampleEvaluations ELSE Plain(FALSE)
                          [] OTHER -> <<>>]

EvaluateRun ==
    [k \in RuleKeys |-> CASE k = "queue_timeout" -> Plain(run = "late")
                          [] k = "task_failed" /\ run = "failed" -> Plain(TRUE)
                          [] OTHER -> <<>>]

Counted(n) == IF n < RequiredSamples THEN n + 1 ELSE n

ApplyEvaluation_Recounts(state, e) ==
    LET next == [state EXCEPT !.known = TRUE, !.at = e.at]
    IN  CASE e.verdict = "bad" ->
               [next EXCEPT !.bad = Counted(@), !.good = 0, !.desired = @ \/ Counted(state.bad) >= e.required]
          [] e.verdict = "good" ->
               [next EXCEPT !.good = Counted(@), !.bad = 0, !.desired = @ /\ Counted(state.good) < e.required]
          [] OTHER -> [next EXCEPT !.bad = 0, !.good = 0]

\* A sample that was counted, or that is older than one that was, does not count again.
ApplyEvaluation(state, e) ==
    LET next == [state EXCEPT !.known = TRUE, !.at = e.at]
    IN  CASE e.sample /\ e.at <= state.at -> [state EXCEPT !.known = TRUE]
          [] e.verdict = "bad" ->
               [next EXCEPT !.bad = Counted(@), !.good = 0, !.desired = @ \/ Counted(state.bad) >= e.required]
          [] e.verdict = "good" ->
               [next EXCEPT !.good = Counted(@), !.bad = 0, !.desired = @ /\ Counted(state.good) < e.required]
          [] OTHER -> [next EXCEPT !.bad = 0, !.good = 0]

-----------------------------------------------------------------------------
(* The scan *)

\* A disabled server is read as long as it has rule states.
WatchedServer == server.enabled \/ \E k \in ServerRules : states[k].known

WatchedRun ==
    \/ run = "late"
    \/ run = "failed" /\ ~states["task_failed"].known
    \/ \E k \in RunRules : states[k].known

\* First query of Snapshot; a subject no query returns leaves nothing to do.
ReadServers ==
    /\ scanner.stage = "idle"
    /\ IF scene = "server" THEN WatchedServer ELSE WatchedRun
    /\ scanner' = [NoScan EXCEPT !.stage = "read", !.enabled = server.enabled, !.seen = server.seen]
    /\ UNCHANGED <<scene, server, run, channel, states, alerts, left, unmarked, muted>>

\* Its queries for the samples and the runs, and evaluateSnapshot.
ReadRest ==
    /\ scanner.stage = "read"
    /\ scanner' = [scanner EXCEPT !.stage = "apply",
                     !.evaluations = IF scene = "server" THEN EvaluateServer(scanner.enabled, scanner.seen)
                                     ELSE EvaluateRun]
    /\ UNCHANGED <<scene, server, run, channel, states, alerts, left, unmarked, muted>>

\* Apply: one transaction; the keys to bring in line are those it evaluated.
Apply ==
    /\ scanner.stage = "apply"
    /\ states' = [k \in RuleKeys |-> FoldLeft(ApplyEvaluation, states[k], scanner.evaluations[k])]
    /\ LET due == {k \in RuleKeys : scanner.evaluations[k] # <<>> /\ states'[k].desired # states'[k].active}
       IN  \E order \in SetToSeqs(due) :
               scanner' = IF due = {} THEN NoScan
                          ELSE [NoScan EXCEPT !.stage = "alert",
                                  !.transitions = [i \in DOMAIN order |-> [key |-> order[i],
                                                                          desired |-> states'[order[i]].desired]]]
    /\ UNCHANGED <<scene, server, run, channel, alerts, left, unmarked, muted>>

NextTransition ==
    scanner' = IF Len(scanner.transitions) = 1 THEN NoScan
               ELSE [scanner EXCEPT !.stage = "alert", !.transitions = Tail(@)]

\* applyTransition
ApplyTransition ==
    /\ scanner.stage = "alert"
    /\ LET t == Head(scanner.transitions)
       IN  alerts' = IF t.desired THEN MergeOrCreate(t.key) ELSE ResolveAlert(t.key)
    /\ scanner' = [scanner EXCEPT !.stage = "mark"]
    /\ UNCHANGED <<scene, server, run, channel, states, left, unmarked, muted>>

MarkApplied ==
    /\ scanner.stage = "mark"
    /\ LET t == Head(scanner.transitions) IN states' = [states EXCEPT ![t.key].active = t.desired]
    /\ NextTransition
    /\ UNCHANGED <<scene, server, run, channel, alerts, left, unmarked, muted>>

LeftUnmarked == IF scanner.stage = "mark" THEN unmarked \cup {Head(scanner.transitions).key} ELSE unmarked

TransitionFails_Marked ==
    /\ scanner.stage \in {"alert", "mark"} /\ Cut
    /\ LET t == Head(scanner.transitions) IN states' = [states EXCEPT ![t.key].active = t.desired]
    /\ NextTransition
    /\ UNCHANGED <<scene, server, run, channel, alerts, unmarked, muted>>

\* A failed statement costs its own transition; the others go on.
TransitionFails ==
    /\ scanner.stage \in {"alert", "mark"} /\ Cut
    /\ NextTransition /\ unmarked' = LeftUnmarked
    /\ UNCHANGED <<scene, server, run, channel, states, alerts, muted>>

\* A failed Snapshot or Apply, the scan's deadline, or a restart of the process.
ScanCut ==
    /\ scanner.stage # "idle" /\ Cut
    /\ scanner' = NoScan /\ unmarked' = LeftUnmarked
    /\ UNCHANGED <<scene, server, run, channel, states, alerts, muted>>

Scan == ReadServers \/ ReadRest \/ Apply \/ ApplyTransition \/ MarkApplied

AlertNext ==
    \/ SampleArrives \/ Silence \/ SetEnabled \/ RunMoves \/ SwitchChannel
    \/ Acknowledge \/ WindowPasses \/ Scan \/ TransitionFails \/ ScanCut

\* The control loop scans every fifteen seconds.
AlertSpec == AlertInit /\ [][AlertNext]_alertVars /\ WF_alertVars(Scan)

-----------------------------------------------------------------------------
(* Properties *)

(* Types of the rule states, the alerts and the scan. *)
AlertTypeOK ==
    /\ scene \in {"server", "run"} /\ channel \in BOOLEAN /\ unmarked \subseteq RuleKeys
    /\ server.old \in 0..Len(server.samples) /\ muted \in BOOLEAN
    /\ run \in OpenRun \cup {"assigned", "succeeded", "failed"}
    /\ \A k \in RuleKeys : states[k].bad \in 0..RequiredSamples /\ states[k].good \in 0..RequiredSamples
    /\ \A i \in DOMAIN alerts : alerts[i].status \in {"open", "acknowledged", "resolved"}
    /\ scanner.stage \in {"idle", "read", "apply", "alert", "mark"}
    /\ scanner.stage \in {"alert", "mark"} <=> scanner.transitions # <<>>

Applying(key) == scanner.stage = "mark" /\ Head(scanner.transitions).key = key

(* Rule engine and alerts agree: unless a scan could not mark what it did, *)
(* a key that is active has exactly one alert that is not resolved, and a  *)
(* key that is not active has none, acknowledged ones included.            *)
AlertFollowsRule ==
    \A k \in RuleKeys \ unmarked :
        Applying(k) \/ Cardinality(Unresolved(k)) = IF states[k].active THEN 1 ELSE 0

(* Hysteresis (design 7.3): memory_low is wanted only after two different  *)
(* low samples, however often one of them is scanned, and the sample just  *)
(* before the second one, if it was read at all, was low too.              *)
TwoSamplesNeeded ==
    [][(~states["memory_low"].desired /\ states'["memory_low"].desired) =>
         \E j \in DOMAIN server.samples : \E i \in 1..(j - 1) :
             /\ server.samples[i] = "low" /\ server.samples[j] = "low"
             /\ j - 1 <= server.old \/ server.samples[j - 1] \in {"low", "unknown"}]_alertVars

(* A notice of recovery follows a notice of the opening, and with the      *)
(* channel on throughout every resolved alert has both (design 4.5).       *)
NoticesArePaired ==
    \A i \in DOMAIN alerts :
        /\ "recovered" \in alerts[i].notices => "opened" \in alerts[i].notices /\ alerts[i].status = "resolved"
        /\ (alerts[i].status = "resolved" /\ ~muted) => alerts[i].notices = {"opened", "recovered"}

\* The two newest samples, both of the server as it is enabled now and neither too old when it came.
LastTwo(level) ==
    LET n == Len(server.samples)
    IN  n >= server.since + 2 /\ n >= server.old + 2 /\ server.samples[n] = level /\ server.samples[n - 1] = level

Bad(key) ==
    CASE key = "agent_offline" -> scene = "server" /\ server.enabled /\ ~server.seen
      [] key = "memory_low" -> scene = "server" /\ server.enabled /\ server.seen /\ LastTwo("low")
      [] key = "queue_timeout" -> run = "late"
      [] OTHER -> run = "failed"

Good(key) ==
    CASE key = "agent_offline" -> ~server.enabled \/ server.seen
      [] key = "memory_low" -> ~server.enabled \/ (server.seen /\ LastTwo("enough"))
      [] key = "queue_timeout" -> run # "late"
      [] OTHER -> FALSE

(* A problem that lasts has an alert in the end, whatever failed before    *)
(* (RuleEngine.Scan repeats a transition until it is marked).              *)
ProblemIsAlerted ==
    \A k \in RuleKeys : <>[](Bad(k) /\ k \notin unmarked) => <>[](Unresolved(k) # {})

(* A problem that is over has no alert in the end; a disabled server's     *)
(* alerts end as well.                                                     *)
RecoveryIsResolved ==
    \A k \in RuleKeys : <>[](Good(k) /\ k \notin unmarked) => <>[](Unresolved(k) = {})

(* No alert without its cause, none twice, and no notice without the other *)
(* of its pair.                                                            *)
AlertsAreJustified == [](AlertTypeOK /\ AlertFollowsRule /\ NoticesArePaired) /\ TwoSamplesNeeded

(* Alerts follow lasting problems and lasting recoveries in the end.       *)
AlertsConverge == ProblemIsAlerted /\ RecoveryIsResolved
=============================================================================
