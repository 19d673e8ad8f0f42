---------------------------- MODULE AgentUpgrade ----------------------------
(***************************************************************************)
(* Upgrade plans of the centre (internal/agentupgrade): the coordinator's  *)
(* scan, its handlers of agent events and heartbeats, and the requests of  *)
(* administrators, with the agents they command.  Every writer reads the   *)
(* plan and saves it under its revision, so a writer that loses a race     *)
(* changes nothing and the others are atomic; commands are sent after the  *)
(* save and may be overtaken.  One plan and one target per server; an      *)
(* agent is what AgentUpdate shows of it: stages in order, a version that  *)
(* changes with the restart, reports repeated when a command is.           *)
(***************************************************************************)
EXTENDS Naturals, Sequences, SequencesExt

CONSTANTS
    NumTargets,     \* targets, each on a server of its own
    BatchSize,      \* targets per batch after the first
    UpgradeFaults,  \* faults explored: stale, drop, restart, gone, overdue, manual, tasks, hasty
    MaxDisturbances, \* bound: requests of administrators and faults
    MaxMessages     \* bound: messages in flight per agent

ASSUME UpgradeAssumption ==
    /\ NumTargets \in Nat \ {0} /\ BatchSize \in Nat \ {0}
    /\ UpgradeFaults \subseteq {"stale", "drop", "restart", "gone", "overdue", "manual", "tasks", "hasty"}
    /\ MaxDisturbances \in Nat /\ MaxMessages \in Nat \ {0}

VARIABLES
    plan,       \* status, current_batch, cancel_requested
    targets,    \* status, command_id, install_command_id; started too long ago; heartbeat since updated_at
    servers,    \* the centre's view: version, draining, running tasks of the last snapshot, seen lately
    agents,     \* the agents: version, runtime state, at work on it, process up, tasks
    issued,     \* command ids given to a target
    sending,    \* commands about to be sent
    messages,   \* from an agent to the centre
    disturbances, \* requests made and faults that happened
    upgradeFaults \* kinds of fault that happened

agentVars == <<agents, messages>>
planVars == <<plan, targets, servers, issued>>
upgradeVars == <<planVars, agentVars, sending, disturbances, upgradeFaults>>

Targets == 1..NumTargets

Disturbed == disturbances < MaxDisturbances /\ disturbances' = disturbances + 1

\* A fault of kind f; a behaviour has faults of one kind.
Happens(f) == f \in UpgradeFaults /\ upgradeFaults \subseteq {f} /\ upgradeFaults' = {f}

\* The first batch is one server, the others are filled in order.
BatchNumber(t) == IF t = 1 THEN 1 ELSE 2 + ((t - 2) \div BatchSize)

\* Every attempt has an install command and at most one rollback command.
CommandIDs == 1..(2 * (MaxDisturbances + 1))

TerminalStatuses == {"succeeded", "rolled_back", "manual_intervention", "cancelled"}
Installing == {"downloading", "verifying", "installing"}

\* A plan as createPlan makes it, for servers that are online, run the source
\* version and have an artifact; or one that was paused before its first scan.
UpgradeInit ==
    /\ plan \in [status : {"running", "paused"}, batch : {1}, cancel : {FALSE}]
    /\ targets = [t \in Targets |-> [status |-> "waiting", command |-> 1, install |-> 1,
                                     overdue |-> FALSE, beat |-> FALSE]]
    /\ servers = [t \in Targets |-> [version |-> "old", draining |-> FALSE, tasks |-> 0, seen |-> TRUE]]
    /\ agents = [t \in Targets |-> [version |-> "old", command |-> 0, action |-> "none", stage |-> "none", code |-> "none",
                                    work |-> FALSE, resumed |-> FALSE, inbox |-> <<>>, up |-> TRUE, tasks |-> 0]]
    /\ issued = [t \in Targets |-> 1]
    /\ sending = {} /\ messages = [t \in Targets |-> <<>>]
    /\ disturbances = 0
    /\ upgradeFaults = {}

-----------------------------------------------------------------------------
(* The coordinator.  A scan goes through the targets of the batch with a   *)
(* working copy of the plan.                                               *)

\* Sender of the commands of a scan; a handler's is its target.
ScanLoop == 0

\* Command id as sent for target t by the scan or by the handler of a target.
Command(from, t, id, action) == [from |-> from, target |-> t, id |-> id, action |-> action]

Working(from) ==
    [plan |-> plan, targets |-> targets, servers |-> servers, issued |-> issued, commands |-> {}, from |-> from,
     mayStart |-> plan.status = "running" /\ ~plan.cancel, touched |-> {}]

Touch(w, t, status) == [w EXCEPT !.targets[t].status = status, !.targets[t].beat = FALSE, !.touched = @ \cup {t}]

Send(w, t, action) == [w EXCEPT !.commands = @ \cup {Command(w.from, t, w.targets[t].command, action)}]

\* Ended targets keep their state; what was not installed is rolled back already.
Undone(w, failed, code) ==
    {t \in Targets : /\ BatchNumber(t) = BatchNumber(failed)
                     /\ \/ w.targets[t].status \in {"waiting", "draining"}
                        \/ /\ t = failed
                           /\ \/ w.targets[t].status \in {"downloading", "verifying"}
                              \/ code \in {"apply_start_failed", "apply_rolled_back", "stage_failed"}}

rollbackBatch(w, failed, code) ==
    LET batch == {t \in Targets : BatchNumber(t) = BatchNumber(failed)}
        ended == {t \in batch : w.targets[t].status \in {"cancelled", "rolling_back", "rolled_back", "manual_intervention"}}
        undone == Undone(w, failed, code) \ ended
        undo == batch \ (ended \cup undone)
    IN  [w EXCEPT
           !.plan.status = "paused",
           !.targets = [t \in Targets |->
               IF t \in undone THEN [w.targets[t] EXCEPT !.status = "rolled_back", !.beat = FALSE]
               ELSE IF t \in undo THEN [w.targets[t] EXCEPT !.status = "rolling_back", !.beat = FALSE,
                                                            !.command = w.issued[t] + 1]
               ELSE w.targets[t]],
           !.issued = [t \in Targets |-> w.issued[t] + IF t \in undo THEN 1 ELSE 0],
           !.commands = {c \in w.commands : c.target \notin batch}
                          \cup {Command(w.from, t, w.issued[t] + 1, "rollback") : t \in undo},
           !.touched = @ \cup undone \cup undo]

markSourceVersionChanged(w, t) ==
    [Touch(w, t, "manual_intervention") EXCEPT !.plan.status = "paused", !.mayStart = FALSE]

SetServerDraining(w, t, draining) == [w EXCEPT !.servers[t].draining = draining]

ScanDraining(w, t) ==
    IF w.targets[t].overdue THEN [w EXCEPT !.plan.status = "paused"]
    ELSE LET d == SetServerDraining(w, t, TRUE)
         IN  IF ~w.servers[t].seen \/ w.servers[t].tasks > 0 THEN d
             ELSE IF w.servers[t].version # "old" THEN markSourceVersionChanged(d, t)
             ELSE Send(Touch(d, t, "downloading"), t, "install")

runtimeAvailable(w, t) == w.servers[t].seen /\ w.servers[t].version = "new"

\* Mutant: a cancelled plan does not go on with a target that is draining.
ScanTarget_IgnoresCancel(late, w, t) ==
    LET status == w.targets[t].status
    IN  CASE status = "waiting" /\ w.mayStart -> Touch(w, t, "draining")
          [] status = "draining" /\ w.mayStart -> ScanDraining(w, t)
          [] status \in Installing -> Send(w, t, "install")
          [] OTHER -> w

\* The timer that runs since updated_at: a target touched in this scan is never late.
ScanTarget(late, w, t) ==
    LET status == w.targets[t].status
        isLate == t \in late \ w.touched
    IN  CASE status = "waiting" /\ w.mayStart -> Touch(w, t, "draining")
          [] status = "draining" /\ (w.mayStart \/ w.plan.cancel) -> ScanDraining(w, t)
          [] status \in Installing ->
               IF w.servers[t].version \notin {"old", "new"} THEN markSourceVersionChanged(w, t)
               ELSE Send(w, t, "install")
          [] status = "reconnecting" /\ isLate -> rollbackBatch(w, t, "reconnect_timeout")
          [] status = "health_checking" /\ ~runtimeAvailable(w, t) -> rollbackBatch(w, t, "health_check_failed")
          [] status = "health_checking" /\ runtimeAvailable(w, t) /\ isLate ->
               IF ~w.targets[t].beat THEN rollbackBatch(w, t, "health_check_failed")
               ELSE Touch(SetServerDraining(w, t, FALSE), t, "succeeded")
          [] status = "rolling_back" ->
               IF isLate THEN [Touch(w, t, "manual_intervention") EXCEPT !.plan.status = "paused"]
               ELSE Send(w, t, "rollback")
          [] OTHER -> w

\* Mutant: a batch is done once all its targets have ended.
Concluded_AnyEnd(w) ==
    LET done == \A t \in Targets : BatchNumber(t) = w.plan.batch => w.targets[t].status \in TerminalStatuses
        more == \E t \in Targets : BatchNumber(t) = w.plan.batch + 1
    IN  IF w.mayStart /\ done /\ more THEN [w EXCEPT !.plan.batch = @ + 1] ELSE w

\* What a scan does after the loop.
Concluded(w) ==
    LET done == \A t \in Targets : BatchNumber(t) = w.plan.batch => w.targets[t].status = "succeeded"
        more == \E t \in Targets : BatchNumber(t) = w.plan.batch + 1
    IN  IF w.plan.cancel /\ \A t \in Targets : w.targets[t].status \in TerminalStatuses
        THEN [w EXCEPT !.plan.status = "cancelled"]
        ELSE IF w.mayStart /\ done
        THEN IF more THEN [w EXCEPT !.plan.batch = @ + 1] ELSE [w EXCEPT !.plan.status = "succeeded"]
        ELSE w

\* The plan is saved, then the commands are sent; one is "stale" when another writer
\* has given its target a new command before it is sent.
SavePlan(w) ==
    LET wanted == {c \in sending : c.id = w.targets[c.target].command}
    IN  /\ plan' = w.plan /\ targets' = w.targets /\ servers' = w.servers
        /\ issued' = w.issued
        /\ \/ sending' = wanted \cup w.commands /\ UNCHANGED upgradeFaults
           \/ wanted # sending /\ Happens("stale") /\ sending' = sending \cup w.commands

Scan(late) ==
    /\ plan.status \in {"running", "paused"}
    /\ \A c \in sending : c.from # ScanLoop
    /\ \E w \in {Concluded(FoldLeft(LAMBDA v, t : ScanTarget(late, v, t), Working(ScanLoop), order)) :
                     order \in SetToSeqs({t \in Targets : BatchNumber(t) = plan.batch})} : SavePlan(w)
    /\ UNCHANGED <<agentVars, disturbances>>

-----------------------------------------------------------------------------
(* Messages of the agents, handled in order by the connection.             *)

targetStatusForStage ==
    [accepted |-> "downloading", downloading |-> "downloading", verifying |-> "verifying",
     installing |-> "installing", reconnecting |-> "reconnecting",
     rolling_back |-> "rolling_back", rolled_back |-> "rolled_back"]

Rank == [waiting |-> 0, draining |-> 1, downloading |-> 2, verifying |-> 3, installing |-> 4, reconnecting |-> 5,
         health_checking |-> 6, succeeded |-> 7]

forwardTransition(current, next) ==
    \/ current = "rolling_back" /\ next = "rolled_back"
    \/ {current, next} \subseteq DOMAIN Rank /\ Rank[next] > Rank[current]

\* ApplyUpgradeEvent of a message that matches the target's command.
ApplyUpgradeEvent(w, t, m) ==
    LET status == w.targets[t].status
    IN  IF m.stage = "failed"
        THEN IF m.code = "rollback_failed" \/ status = "rolling_back"
             THEN SetServerDraining([Touch(w, t, "manual_intervention") EXCEPT !.plan.status = "paused"], t, TRUE)
             ELSE rollbackBatch(w, t, m.code)
        ELSE IF ~(status = "rolling_back" /\ m.stage = "reconnecting")
                  /\ forwardTransition(status, targetStatusForStage[m.stage])
        THEN Touch(w, t, targetStatusForStage[m.stage])
        ELSE w

\* ObserveHeartbeat of a message that matches the target's command.
ObserveHeartbeat(w, t, m) ==
    LET status == w.targets[t].status
    IN  IF status = "rolling_back" /\ m.version = "old" THEN Touch(w, t, "rolled_back")
        ELSE IF status = "reconnecting"
        THEN IF m.version = "new" THEN Touch(w, t, "health_checking")
             ELSE LET u == Touch([w EXCEPT !.plan.status = "paused", !.issued[t] = @ + 1], t, "rolling_back")
                  IN  Send([u EXCEPT !.targets[t].command = u.issued[t]], t, "rollback")
        ELSE w

\* A heartbeat is accepted before it is observed.
HeartbeatAccepted(w, t, m) ==
    [w EXCEPT !.servers[t].version = m.version, !.servers[t].tasks = m.tasks, !.servers[t].seen = TRUE,
              !.targets[t].beat = TRUE]

HandleMessage(t) ==
    LET m == Head(messages[t])
        accepted == IF m.stage = "beat" THEN HeartbeatAccepted(Working(t), t, m) ELSE Working(t)
        matches == plan.status \in {"running", "paused"} /\ m.command = targets[t].command
    IN  /\ messages[t] # <<>>
        /\ \A c \in sending : c.from # t
        /\ SavePlan(IF ~matches THEN accepted
                    ELSE IF m.stage = "beat" THEN ObserveHeartbeat(accepted, t, m)
                    ELSE ApplyUpgradeEvent(accepted, t, m))
        /\ messages' = [messages EXCEPT ![t] = Tail(@)]
        /\ UNCHANGED <<agents, disturbances>>

\* An event loses the race for the plan's revision and is dropped.
tolerateConcurrentUpdate(t) ==
    /\ Disturbed /\ Happens("drop")
    /\ messages[t] # <<>> /\ Head(messages[t]).stage # "beat"
    /\ messages' = [messages EXCEPT ![t] = Tail(@)]
    /\ UNCHANGED <<planVars, agents, sending>>

\* A scan loses the race after it has ended the draining of a verified server.
ScanConflicts(t) ==
    /\ Disturbed /\ Happens("drop")
    /\ plan.status \in {"running", "paused"}
    /\ targets[t].status = "health_checking" /\ runtimeAvailable(Working(ScanLoop), t) /\ targets[t].beat
    /\ servers' = [servers EXCEPT ![t].draining = FALSE]
    /\ UNCHANGED <<plan, targets, issued, agentVars, sending>>

-----------------------------------------------------------------------------
(* Commands and agents.                                                    *)

TargetVersion == [install |-> "new", rollback |-> "old"]

Event(a) == [command |-> a.command, stage |-> a.stage, code |-> a.code, version |-> a.version, tasks |-> a.tasks]

\* Bound: one heartbeat and one event of an agent are in flight.
Room(t, beat) == Len(messages[t]) < MaxMessages /\ \A m \in Range(messages[t]) : (m.stage = "beat") # beat

\* The agent of t goes on as a and reports its stage.
Report(t, a) ==
    /\ Room(t, FALSE)
    /\ agents' = [agents EXCEPT ![t] = a]
    /\ messages' = [messages EXCEPT ![t] = Append(@, Event(a))]

\* A command gets to the agent, where it waits for the command at work.
SendUpgradeCommand(c) ==
    /\ c \in sending /\ agents[c.target].up
    /\ sending' = sending \ {c}
    /\ agents' = [agents EXCEPT ![c.target].inbox =
                    IF [id |-> c.id, action |-> c.action] \in Range(@) THEN @
                    ELSE Append(@, [id |-> c.id, action |-> c.action])]
    /\ UNCHANGED <<planVars, messages, disturbances, upgradeFaults>>

\* The agent takes a command: a new one is accepted, a known one only reported and,
\* after a restart, taken up again, an accepted rollback as if it were an install.
AgentHandles(t) ==
    LET a == [agents[t] EXCEPT !.inbox = Tail(@)]
        c == Head(agents[t].inbox)
        resume == a.stage \in Installing \cup {"accepted", "rolling_back"}
    IN  /\ agents[t].inbox # <<>> /\ a.up /\ ~a.work
        /\ Report(t, IF a.command = c.id THEN [a EXCEPT !.work = resume, !.resumed = resume]
                     ELSE [a EXCEPT !.command = c.id, !.action = c.action, !.stage = "accepted",
                                    !.code = "none", !.work = TRUE, !.resumed = FALSE])
        /\ UNCHANGED <<planVars, sending, disturbances, upgradeFaults>>

\* The agent is not connected: the sender gives up the rest of its commands.
SendFails(c) ==
    /\ c \in sending /\ ~agents[c.target].up
    /\ sending' = {d \in sending : d.from # c.from}
    /\ UNCHANGED <<planVars, agentVars, disturbances, upgradeFaults>>

\* A sender goes on with its commands.
SendNext(from) == \E c \in sending : c.from = from /\ (SendUpgradeCommand(c) \/ SendFails(c))

\* The next stage of an install, or how it ends: by a failure, reported or left in
\* the runtime state by the helper that restored the files, or in the new version.
InstallNext(a) ==
    LET ends(version, stage, code) == [a EXCEPT !.version = version, !.stage = stage, !.code = code, !.work = FALSE]
    IN  [accepted |-> {[a EXCEPT !.stage = "downloading"]},
         downloading |-> {ends(a.version, "failed", "stage_failed")}
                          \cup (IF a.action = "install" THEN {[a EXCEPT !.stage = "verifying"]} ELSE {}),
         verifying |-> {[a EXCEPT !.stage = "installing"]},
         installing |-> {ends("new", "reconnecting", "none"), ends(a.version, "failed", "apply_start_failed"),
                         ends("new", "failed", "rollback_failed")}][a.stage]

RollbackNext(a) ==
    LET ends(version, stage, code) == [a EXCEPT !.version = version, !.stage = stage, !.code = code, !.work = FALSE]
    IN  IF a.stage = "accepted" THEN {[a EXCEPT !.stage = "rolling_back"]}
        ELSE {ends("old", "reconnecting", "none"), ends(a.version, "failed", "rollback_failed")}
               \cup (IF a.version = "old" THEN {ends("old", "rolled_back", "none")} ELSE {})

AgentWorks(t) ==
    /\ agents[t].up /\ agents[t].work
    /\ LET asInstall == agents[t].action = "install" \/ (agents[t].resumed /\ agents[t].stage # "rolling_back")
       IN  \E a \in IF asInstall THEN InstallNext(agents[t]) ELSE RollbackNext(agents[t]) : Report(t, a)
    /\ UNCHANGED <<planVars, sending, disturbances, upgradeFaults>>

\* The helper restores the old version without a report.
RestoresLocally(t) ==
    /\ agents[t].work /\ agents[t].stage = "installing" /\ agents[t].action = "install"
    /\ agents' = [agents EXCEPT ![t].stage = "failed", ![t].code = "apply_rolled_back", ![t].work = FALSE]
    /\ UNCHANGED <<planVars, messages, sending, disturbances, upgradeFaults>>

\* Heartbeats the centre would learn nothing from are left out: they change nothing,
\* now or when events already under way have been handled.
News(t) ==
    \/ servers[t].version # agents[t].version \/ servers[t].tasks # agents[t].tasks \/ ~servers[t].seen
    \/ targets[t].status = "health_checking" /\ ~targets[t].beat
    \/ targets[t].status \in {"reconnecting", "rolling_back"} /\ targets[t].command = agents[t].command

Heartbeat(t) ==
    /\ agents[t].up /\ Room(t, TRUE) /\ News(t)
    /\ messages' = [messages EXCEPT ![t] = Append(@, [Event(agents[t]) EXCEPT !.stage = "beat"])]
    /\ UNCHANGED <<planVars, agents, sending, disturbances, upgradeFaults>>

\* The connection is lost with what is in flight; the agent is started again,
\* unless its server is gone.
AgentDisconnects(t) ==
    /\ Disturbed /\ \E f \in {"restart", "gone"} : Happens(f)
    /\ agents[t].up
    /\ agents' = [agents EXCEPT ![t].up = FALSE, ![t].work = FALSE, ![t].inbox = <<>>]
    /\ messages' = [messages EXCEPT ![t] = <<>>]
    /\ UNCHANGED <<planVars, sending>>

AgentReconnects(t) ==
    /\ ~agents[t].up /\ "gone" \notin upgradeFaults
    /\ LET a == [agents[t] EXCEPT !.up = TRUE]
       IN  IF a.stage \in {"installing", "rolling_back", "reconnecting"} /\ a.version = TargetVersion[a.action]
           THEN Report(t, [a EXCEPT !.stage = "reconnecting"])
           ELSE agents' = [agents EXCEPT ![t] = a] /\ UNCHANGED messages
    /\ UNCHANGED <<planVars, sending, disturbances, upgradeFaults>>

\* What the agent does on its own; at most one of these is possible.
AgentNext(t) == AgentHandles(t) \/ AgentWorks(t) \/ AgentReconnects(t)

\* The offline loop marks a server that has been silent.
ServerSilent(t) ==
    /\ ~agents[t].up /\ servers[t].seen
    /\ servers' = [servers EXCEPT ![t].seen = FALSE]
    /\ UNCHANGED <<plan, targets, issued, agentVars, sending, disturbances, upgradeFaults>>

\* The API process restarts: commands about to be sent are lost.
CentreRestarts ==
    /\ Disturbed /\ Happens("restart")
    /\ sending # {}
    /\ sending' = {}
    /\ UNCHANGED <<planVars, agentVars>>

\* The drain timeout passes.
DrainTimeout(t) ==
    /\ Disturbed /\ Happens("overdue")
    /\ targets[t].status = "draining" /\ ~targets[t].overdue
    /\ targets' = [targets EXCEPT ![t].overdue = TRUE]
    /\ UNCHANGED <<plan, servers, issued, agentVars, sending>>

\* Another version is installed by hand while the agent is idle.
InstalledByHand(t) ==
    /\ Disturbed /\ Happens("manual")
    /\ agents[t].version # "other" /\ ~agents[t].work
    /\ agents' = [agents EXCEPT ![t].version = "other"]
    /\ UNCHANGED <<planVars, messages, sending>>

\* The scheduler gives tasks to a server that is not draining.
TaskStarts(t) ==
    /\ Disturbed /\ Happens("tasks")
    /\ ~servers[t].draining /\ agents[t].tasks = 0
    /\ agents' = [agents EXCEPT ![t].tasks = 1]
    /\ UNCHANGED <<planVars, messages, sending>>

TaskEnds(t) ==
    /\ agents[t].tasks = 1
    /\ agents' = [agents EXCEPT ![t].tasks = 0]
    /\ UNCHANGED <<planVars, messages, sending, disturbances, upgradeFaults>>

-----------------------------------------------------------------------------
(* Requests of administrators.                                             *)

Requested(newPlan, newTargets) ==
    /\ Disturbed
    /\ plan' = newPlan /\ targets' = newTargets
    /\ UNCHANGED <<servers, agentVars, sending>>

Pause == plan.status = "running" /\ Requested([plan EXCEPT !.status = "paused"], targets) /\ UNCHANGED <<issued, upgradeFaults>>

\* Servers still to be upgraded must be online and unchanged.
Resume ==
    /\ plan.status = "paused" /\ ~plan.cancel
    /\ \A t \in Targets : targets[t].status \in {"waiting", "draining"} => servers[t].seen /\ servers[t].version = "old"
    /\ Requested([plan EXCEPT !.status = "running"], targets) /\ UNCHANGED <<issued, upgradeFaults>>

\* Waiting targets are cancelled; the plan ends at once when no other is under way.
Cancel ==
    LET left == [t \in Targets |-> IF targets[t].status = "waiting" THEN [targets[t] EXCEPT !.status = "cancelled"]
                                   ELSE targets[t]]
        started == \E t \in Targets : left[t].status \notin TerminalStatuses
    IN  /\ plan.status \in {"running", "paused"} /\ ~plan.cancel
        /\ Requested([plan EXCEPT !.status = IF started THEN "paused" ELSE "cancelled", !.cancel = TRUE], left)
        /\ UNCHANGED <<issued, upgradeFaults>>

\* A failed target starts over with a new command, and the plan runs again.  Unless
\* the fault is "hasty", the administrator waits for the agent to be done and for
\* its next heartbeat.
RetryTarget(t) ==
    /\ IF servers[t].version = agents[t].version /\ ~agents[t].work /\ agents[t].inbox = <<>>
       THEN UNCHANGED upgradeFaults ELSE Happens("hasty")
    /\ ~plan.cancel /\ targets[t].status \in {"rolled_back", "manual_intervention"} /\ servers[t].version = "old"
    /\ issued' = [issued EXCEPT ![t] = @ + 1]
    /\ Requested([plan EXCEPT !.status = "running"],
                 [targets EXCEPT ![t].status = "draining", ![t].command = issued[t] + 1, ![t].install = issued[t] + 1,
                                 ![t].beat = FALSE])

-----------------------------------------------------------------------------
UpgradeNext ==
    \/ \E late \in SUBSET Targets : Scan(late)
    \/ \E from \in Targets \cup {ScanLoop} : SendNext(from)
    \/ \E t \in Targets :
         \/ HandleMessage(t) \/ tolerateConcurrentUpdate(t) \/ ScanConflicts(t)
         \/ AgentNext(t) \/ RestoresLocally(t) \/ Heartbeat(t) \/ AgentDisconnects(t)
         \/ ServerSilent(t) \/ DrainTimeout(t) \/ InstalledByHand(t) \/ TaskStarts(t) \/ TaskEnds(t)
         \/ RetryTarget(t)
    \/ CentreRestarts \/ Pause \/ Resume \/ Cancel

\* The scan loop, the connections and the agents run on, timers run out, a healthy
\* agent's heartbeats get through, and a silent server is noticed.
UpgradeFairness ==
    /\ WF_upgradeVars(Scan(Targets))
    /\ \A t \in Targets :
         /\ WF_upgradeVars(HandleMessage(t)) /\ WF_upgradeVars(Heartbeat(t)) /\ WF_upgradeVars(AgentNext(t))
         /\ WF_upgradeVars(ServerSilent(t))
    /\ \A from \in Targets \cup {ScanLoop} : WF_upgradeVars(SendNext(from))

UpgradeSpec == UpgradeInit /\ [][UpgradeNext]_upgradeVars /\ UpgradeFairness

-----------------------------------------------------------------------------
(* Properties.                                                             *)

TargetStatuses == TerminalStatuses \cup Installing \cup {"waiting", "draining", "reconnecting", "health_checking", "rolling_back"}
Versions == {"old", "new", "other"}

\* The plan, its targets, the agents and what travels between them are well formed.
UpgradeTypeOK ==
    /\ plan \in [status : {"running", "paused", "succeeded", "cancelled"}, batch : 1..NumTargets, cancel : BOOLEAN]
    /\ targets \in [Targets -> [status : TargetStatuses, command : CommandIDs, install : CommandIDs,
                                overdue : BOOLEAN, beat : BOOLEAN]]
    /\ servers \in [Targets -> [version : Versions, draining : BOOLEAN, tasks : 0..1, seen : BOOLEAN]]
    /\ \A t \in Targets : agents[t].version \in Versions /\ agents[t].command \in CommandIDs \cup {0}
    /\ issued \in [Targets -> CommandIDs]
    /\ \A t \in Targets : Len(messages[t]) <= MaxMessages

\* A batch starts only when every server of the batches before it has succeeded
\* and, as far as the plan knows, stays so.
BatchesInOrder ==
    \A t, u \in Targets :
      /\ BatchNumber(t) < BatchNumber(u)
      /\ targets[u].status \notin {"waiting", "cancelled"}
      => targets[t].status = "succeeded"

\* The scheduler gives no task to a server from the install command until its
\* agent has reported the new version.
InstallIsDrained ==
    \A t \in Targets : targets[t].status \in Installing \cup {"reconnecting"} => servers[t].draining

\* A target recorded as succeeded runs the new version, one recorded as rolled
\* back the old one and is not about to install, whatever was repeated, dropped
\* or lost; unless a command overtaken by a rollback arrives late, somebody
\* installs by hand or retries before the agent has settled.
RecordIsTrue ==
    upgradeFaults \cap {"stale", "manual", "hasty"} = {} =>
      \A t \in Targets :
        /\ targets[t].status = "succeeded" => agents[t].version = "new"
        /\ targets[t].status = "rolled_back" =>
             agents[t].version = "old" /\ ~(agents[t].work /\ agents[t].stage \in Installing)

\* A running plan never waits for ever for its servers: it ends or is paused,
\* unless it was resumed over a target that failed and nobody retries.
PlanSettles ==
    []<>(\/ plan.status # "running"
         \/ \E t \in Targets : targets[t].status \in {"rolled_back", "manual_intervention"}
         \/ ~(upgradeFaults \subseteq {"drop", "restart"}))

\* A cancelled plan ends once the targets under way have.
CancelEnds == []<>(plan.cancel /\ upgradeFaults \subseteq {"drop", "restart"} => plan.status = "cancelled")

\* A plan upgrades in turn and records what is true: batches follow each other,
\* only drained servers install, and a recorded end is what the agent runs.
UpgradeIsSound == UpgradeTypeOK /\ BatchesInOrder /\ InstallIsDrained /\ RecordIsTrue

\* Plans end: a running one settles, a cancelled one is over once its targets are.
PlansEnd == PlanSettles /\ CancelEnds
=============================================================================
