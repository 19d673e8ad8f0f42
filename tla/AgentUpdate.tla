---------------------------- MODULE AgentUpdate ----------------------------
(***************************************************************************)
(* How one server installs and undoes an agent release: the agent's        *)
(* upgrade client and manager (internal/agent/upgrade_client.go,           *)
(* internal/agentupdate/stager.go), the root helper that replaces the      *)
(* managed files and restarts the agent (applier.go), and the files that   *)
(* survive a crash: runtime.json, one spec.json per command, the backups   *)
(* and the installed files.  The centre is the environment that delivers   *)
(* commands: an install, then its rollback and a second install, or a      *)
(* second install and its rollback.                                        *)
(***************************************************************************)
EXTENDS Naturals, Sequences

CONSTANTS
    NumFiles,       \* managed files; the first is the agent's binary
    UpdateFaults,   \* faults explored: copy, systemctl, crash, reboot
    MaxUpdateFaults \* bound: faults

ASSUME UpdateAssumption ==
    /\ NumFiles \in Nat \ {0} /\ MaxUpdateFaults \in Nat
    /\ UpdateFaults \subseteq {"copy", "systemctl", "crash", "reboot"}

Installs == {"i1", "i2"}
Commands == Installs \cup {"r1"}
Orders == {<<"i1", "r1", "i2">>, <<"i1", "i2", "r1">>}

VARIABLES
    order,      \* the commands in the order the centre issues them
    current,    \* how many it has issued
    runtime,    \* runtime.json
    phases,     \* Spec.Phase by command; absent before the spec is written
    backups,    \* backup directories by install command
    installed,  \* version of every managed file in place
    connected,  \* commands whose file "connected" exists
    agent,      \* the agent process
    helpers,    \* yunling-agent-upgrade@<command>.service
    updateFaults,
    faultCount

stateVars == <<runtime, phases, backups, installed, connected>>
centreVars == <<order, current>>
faultVars == <<updateFaults, faultCount>>
updateVars == <<centreVars, stateVars, agent, helpers, faultVars>>

FileNumbers == 1..NumFiles
Copies(v) == [i \in FileNumbers |-> v]

\* An install leads from the old to the new version, a rollback back.
CommandVersion(c) == IF c \in Installs THEN "new" ELSE "old"

\* InstallCommandID of the rollback.
InstallCommandID == IF order[2] = "r1" THEN "i1" ELSE "i2"

NoState == [command |-> "none", stage |-> "none", code |-> "none"]

UpdateInit ==
    /\ order \in Orders /\ current = 1
    /\ runtime = NoState
    /\ phases = [c \in Commands |-> "absent"]
    /\ backups = [c \in Installs |-> Copies("none")]
    /\ installed = Copies("old")
    /\ connected = {}
    /\ agent = [pc |-> "loop", version |-> "old", command |-> "none", seen |-> {}]
    /\ helpers = [c \in Commands |-> [pc |-> "inactive", copied |-> 0]]
    /\ updateFaults \in {{}} \cup {{f} : f \in UpdateFaults}
    /\ faultCount = 0

\* A fault of kind f, within the bound.
Fault(f) ==
    /\ f \in updateFaults /\ faultCount < MaxUpdateFaults
    /\ faultCount' = faultCount + 1 /\ UNCHANGED updateFaults

-----------------------------------------------------------------------------
(* The centre, as far as this server sees it.                              *)

\* The next command: a rollback at any time after the first was taken up, an
\* install only when the server reports the old version and the end of the
\* command before.  An administrator who asks for a new attempt is slower than
\* the five seconds after which systemd starts a failed helper again.
Issue ==
    /\ current < Len(order) /\ runtime.command = order[current]
    /\ order[current + 1] \in Installs =>
         /\ agent.pc = "loop" /\ agent.version = "old"
         /\ runtime.command = "r1" \/ runtime.stage = "failed"
         /\ \A c \in Commands : helpers[c].pc = "inactive"
    /\ current' = current + 1
    /\ UNCHANGED <<order, stateVars, agent, helpers, faultVars>>

-----------------------------------------------------------------------------
(* The agent process.                                                      *)

transition(c, stage, code) == runtime' = [command |-> c, stage |-> stage, code |-> code]
Go(pc) == agent' = [agent EXCEPT !.pc = pc]

\* A helper between its start and its end or its wait for the new agent.  Its few
\* copies take less than the five seconds (RestartSec) after which systemd starts
\* the agent or a failed helper again: both wait for it.
Busy(c) == helpers[c].pc \notin {"inactive", "retry", "begin", "restarted", "wait", "rolled back"}

\* systemd starts the agent with the binary in place; it dials.
StartAgent ==
    /\ agent.pc = "down" /\ \A c \in Commands : ~Busy(c)
    /\ agent' = [pc |-> "confirm", version |-> installed[1], command |-> "none", seen |-> {}]
    /\ UNCHANGED <<centreVars, stateVars, helpers, faultVars>>

Confirmable ==
    /\ runtime.command # "none" /\ CommandVersion(runtime.command) = agent.version
    /\ runtime.stage \in {"installing", "rolling_back", "reconnecting"}

\* ConfirmReconnect fails without a spec, and the agent exits.
confirmPendingUpgrade ==
    /\ agent.pc = "confirm"
    /\ IF ~Confirmable THEN Go("loop") /\ UNCHANGED runtime
       ELSE IF phases[runtime.command] = "absent" THEN Go("down") /\ UNCHANGED runtime
       ELSE /\ transition(runtime.command, "reconnecting", runtime.code)
            /\ agent' = [agent EXCEPT !.pc = "connect", !.command = runtime.command]
    /\ UNCHANGED <<centreVars, phases, backups, installed, connected, helpers, faultVars>>

ConfirmReconnect ==
    /\ agent.pc = "connect"
    /\ connected' = connected \cup {agent.command}
    /\ Go("loop")
    /\ UNCHANGED <<centreVars, runtime, phases, backups, installed, helpers, faultVars>>

\* The current command, and after a rollback, sent while an event is handled, the
\* install that the scan was about to repeat.
Deliverable(c) == c = order[current] \/ (order[current] = "r1" /\ c = InstallCommandID)

\* A command arrives.  One the agent works on, or has seen since its start, only
\* repeats the report.
handle(c) ==
    /\ agent.pc = "loop" /\ Deliverable(c)
    /\ runtime.command = c => c \notin agent.seen
    /\ IF runtime.command = c
       THEN /\ UNCHANGED runtime
            /\ agent' = [agent EXCEPT !.command = c, !.seen = @ \cup {c},
                           !.pc = IF runtime.stage \in {"accepted", "downloading", "verifying", "installing",
                                                        "rolling_back"}
                                  THEN runtime.stage ELSE "loop"]
       ELSE /\ transition(c, "accepted", "none")
            /\ agent' = [agent EXCEPT !.command = c, !.seen = @ \cup {c},
                           !.pc = IF c \in Installs THEN "accepted" ELSE "accepted rollback"]
    /\ UNCHANGED <<centreVars, phases, backups, installed, connected, helpers, faultVars>>

\* Manager.Stage writes the spec of an install whose archive was downloaded, checked
\* and unpacked; the spec of an earlier attempt is kept.
Stage(c) ==
    /\ c \in Installs \/ phases[c] # "absent"
    /\ phases' = IF phases[c] = "absent" THEN [phases EXCEPT ![c] = "staged"] ELSE phases

\* The download fails or the archive is refused; a rollback has none.
StageFails(c) ==
    /\ c \in Installs => phases[c] = "absent"
    /\ UNCHANGED phases

\* resumeInstall, from the stage it finds.
resumeInstall ==
    LET c == agent.command
    IN  /\ \/ /\ agent.pc = "accepted"
              /\ transition(c, "downloading", "none") /\ Go("downloading") /\ UNCHANGED phases
           \/ /\ agent.pc = "downloading" /\ Stage(c)
              /\ transition(c, "verifying", "none") /\ Go("verifying")
           \/ /\ agent.pc = "downloading" /\ StageFails(c)
              /\ transition(c, "failed", "stage_failed") /\ Go("loop")
           \/ /\ agent.pc = "verifying"
              /\ transition(c, "installing", "none") /\ Go("installing") /\ UNCHANGED phases
        /\ UNCHANGED <<centreVars, backups, installed, connected, helpers, faultVars>>

RollBackAccepted ==
    /\ agent.pc = "accepted rollback"
    /\ transition(agent.command, "rolling_back", "none") /\ Go("rolling_back")
    /\ UNCHANGED <<centreVars, phases, backups, installed, connected, helpers, faultVars>>

\* Phases of an install that left the managed files alone.
Untouched == {"absent", "staged", "backup_complete", "rolled_back"}

\* systemctl start of the helper; it returns when the helper ends.
StartApply(c) ==
    /\ helpers' = IF helpers[c].pc \in {"inactive", "retry"}
                  THEN [helpers EXCEPT ![c] = [pc |-> "begin", copied |-> 0]] ELSE helpers
    /\ Go("waiting")

StartInstall ==
    /\ agent.pc = "installing" /\ StartApply(agent.command)
    /\ UNCHANGED <<centreVars, stateVars, faultVars>>

\* Mutant: a rollback is refused once the install has succeeded.
Rollback_OnlyUnfinished ==
    LET c == agent.command
    IN  /\ agent.pc = "rolling_back"
        /\ IF phases[c] = "absent" /\ phases[InstallCommandID] \in Untouched \cup {"succeeded"}
           THEN transition(c, "rolled_back", "none") /\ Go("loop") /\ UNCHANGED <<phases, helpers>>
           ELSE /\ phases' = IF phases[c] = "absent" THEN [phases EXCEPT ![c] = "staged"] ELSE phases
                /\ StartApply(c) /\ UNCHANGED runtime
        /\ UNCHANGED <<centreVars, backups, installed, connected, faultVars>>

\* Manager.Rollback: nothing to do when the install did not touch the files.
Rollback ==
    LET c == agent.command
    IN  /\ agent.pc = "rolling_back"
        /\ IF phases[c] = "absent" /\ phases[InstallCommandID] \in Untouched
           THEN transition(c, "rolled_back", "none") /\ Go("loop") /\ UNCHANGED <<phases, helpers>>
           ELSE /\ phases' = IF phases[c] = "absent" THEN [phases EXCEPT ![c] = "staged"] ELSE phases
                /\ StartApply(c) /\ UNCHANGED runtime
        /\ UNCHANGED <<centreVars, backups, installed, connected, faultVars>>

\* StartApply returned an error.
ApplyFailed ==
    LET c == agent.command
    IN  /\ agent.pc = "apply failed"
        /\ transition(c, "failed", IF c = "r1" \/ phases[c] \in {"rollback_failed", "rollback_ready"}
                              THEN "rollback_failed" ELSE "apply_start_failed")
        /\ Go("loop")
        /\ UNCHANGED <<centreVars, phases, backups, installed, connected, helpers, faultVars>>

\* The agent stops and systemd starts it again: a lost connection, an event that
\* cannot be sent, a kill.
AgentKilled ==
    /\ Fault("crash") /\ agent.pc # "down"
    /\ Go("down")
    /\ UNCHANGED <<centreVars, stateVars, helpers>>

-----------------------------------------------------------------------------
(* The root helper of command c.                                           *)

To(c, pc) == helpers' = [helpers EXCEPT ![c] = [pc |-> pc, copied |-> 0]]
Save(c, phase) == phases' = [phases EXCEPT ![c] = phase]

\* The helper ends; systemd starts it again after an error, and the agent's
\* systemctl start returns.
Ends(c, ok) ==
    /\ To(c, IF ok THEN "inactive" ELSE "retry")
    /\ agent' = IF agent.pc = "waiting" /\ agent.command = c
                THEN [agent EXCEPT !.pc = IF ok THEN "loop" ELSE "apply failed"] ELSE agent

Retry(c) ==
    /\ helpers[c].pc = "retry" /\ To(c, "begin")
    /\ UNCHANGED <<centreVars, stateVars, agent, faultVars>>

\* Mutant: an interrupted replacement starts over with the backup.
ApplyFrom_StartsOver(c) ==
    [staged |-> "backup", backup_complete |-> "replace", replacing |-> "backup",
     files_replaced |-> "restart", restarted |-> "wait", rollback_failed |-> "restore",
     rollback_ready |-> "finish", succeeded |-> "end", rolled_back |-> "end"][phases[c]]

\* Mutant: a failed restoration is final.
ApplyFrom_GivesUp(c) ==
    [staged |-> "backup", backup_complete |-> "replace", replacing |-> "restore",
     files_replaced |-> "restart", restarted |-> "wait", rollback_failed |-> "end",
     rollback_ready |-> "finish", succeeded |-> "end", rolled_back |-> "end"][phases[c]]

\* Where Apply goes on, by the saved phase of an install.
ApplyFrom(c) ==
    [staged |-> "backup", backup_complete |-> "replace", replacing |-> "restore",
     files_replaced |-> "restart", restarted |-> "wait", rollback_failed |-> "restore",
     rollback_ready |-> "finish", succeeded |-> "end", rolled_back |-> "end"][phases[c]]

Apply(c) ==
    /\ helpers[c].pc = "begin" /\ \A d \in Commands : ~Busy(d)
    /\ IF c = "r1" THEN Save(c, "rolling_back") /\ To(c, "undo") /\ UNCHANGED agent
       ELSE IF ApplyFrom(c) = "end" THEN Ends(c, TRUE) /\ UNCHANGED phases
       ELSE /\ To(c, ApplyFrom(c))
            /\ phases' = IF phases[c] = "backup_complete" THEN [phases EXCEPT ![c] = "replacing"] ELSE phases
            /\ UNCHANGED agent
    /\ UNCHANGED <<centreVars, runtime, backups, installed, connected, faultVars>>

\* File i is replaced at once, by a rename.
copyAtomic(files, i, version) == [files EXCEPT ![i] = version]

\* backupManaged copies one file.
backupManaged(c) ==
    LET i == helpers[c].copied + 1
    IN  /\ helpers[c].pc = "backup" /\ i \in FileNumbers
        /\ backups' = [backups EXCEPT ![c] = copyAtomic(@, i, installed[i])]
        /\ helpers' = [helpers EXCEPT ![c].copied = i]
        /\ UNCHANGED <<centreVars, runtime, phases, installed, connected, agent, faultVars>>

\* The source replaceManaged copies from.
SourceRoot(c) ==
    IF helpers[c].pc = "replace" THEN Copies("new")
    ELSE backups[IF c = "r1" THEN InstallCommandID ELSE c]

\* replaceManaged replaces one file.
replaceManaged(c) ==
    LET i == helpers[c].copied + 1
    IN  /\ helpers[c].pc \in {"replace", "restore", "undo"} /\ i \in FileNumbers
        /\ installed' = copyAtomic(installed, i, SourceRoot(c)[i])
        /\ helpers' = [helpers EXCEPT ![c].copied = i]
        /\ UNCHANGED <<centreVars, runtime, phases, backups, connected, agent, faultVars>>

\* A copy fails: a backup or a rollback ends, a replacement is undone, a failed
\* restoration is recorded.
CopyFails(c) ==
    /\ Fault("copy") /\ helpers[c].pc \in {"backup", "replace", "restore", "undo"}
    /\ IF helpers[c].pc = "replace" THEN To(c, "restore") /\ UNCHANGED <<phases, agent>>
       ELSE Ends(c, FALSE) /\ phases' = IF helpers[c].pc = "restore"
                                         THEN [phases EXCEPT ![c] = "rollback_failed"] ELSE phases
    /\ UNCHANGED <<centreVars, runtime, backups, installed, connected>>

\* All files are copied: the phase is saved, systemd reloaded.
CopyDone(c) ==
    LET pc == helpers[c].pc
        next == [backup |-> "begin", replace |-> "begin", restore |-> "finish", undo |-> "undone"]
        phase == [backup |-> "backup_complete", replace |-> "files_replaced", restore |-> "rollback_ready",
                  undo |-> "rolling_back"]
    IN  /\ pc \in DOMAIN next /\ helpers[c].copied = NumFiles
        /\ Save(c, phase[pc]) /\ To(c, next[pc])
        /\ UNCHANGED <<centreVars, runtime, backups, installed, connected, agent, faultVars>>

\* daemon-reload fails, or the restart after a replacement.
SystemctlFails(c) ==
    /\ Fault("systemctl")
    /\ \/ helpers[c].pc = "restart" /\ To(c, "restore") /\ UNCHANGED <<phases, agent>>
       \/ helpers[c].pc = "restore" /\ helpers[c].copied = NumFiles /\ Save(c, "rollback_failed") /\ Ends(c, FALSE)
       \/ helpers[c].pc \in {"undone", "finished"} /\ Ends(c, FALSE) /\ UNCHANGED phases
    /\ UNCHANGED <<centreVars, runtime, backups, installed, connected>>

\* systemctl restart yunling-agent, in the three places it is called from.
RestartAgent(c) ==
    LET next == [restart |-> "restarted", undone |-> "rolled back", finished |-> "rolled back"]
    IN  /\ helpers[c].pc \in DOMAIN next
        /\ To(c, next[helpers[c].pc])
        /\ Go("down")
        /\ UNCHANGED <<centreVars, stateVars, faultVars>>

Restarted(c) ==
    /\ helpers[c].pc = "restarted" /\ Save(c, "restarted") /\ To(c, "begin")
    /\ UNCHANGED <<centreVars, runtime, backups, installed, connected, agent, faultVars>>

\* The new agent has confirmed.
WaitForConfirmation(c) ==
    /\ helpers[c].pc = "wait" /\ c \in connected
    /\ Save(c, "succeeded") /\ Ends(c, TRUE)
    /\ UNCHANGED <<centreVars, runtime, backups, installed, connected, faultVars>>

\* ReconnectTimeout passes without a confirmation.
ConfirmationTimesOut(c) ==
    /\ helpers[c].pc = "wait" /\ c \notin connected
    /\ To(c, "restore")
    /\ UNCHANGED <<centreVars, stateVars, agent, faultVars>>

\* The failure is recorded before the old agent is started, whatever command the
\* agent has taken up since.
finishAutomaticRollback(c) ==
    /\ helpers[c].pc = "finish"
    /\ transition(c, "failed", "apply_rolled_back")
    /\ To(c, "finished")
    /\ UNCHANGED <<centreVars, phases, backups, installed, connected, agent, faultVars>>

\* An automatic rollback ends with an error, a commanded one without.
RolledBack(c) ==
    /\ helpers[c].pc = "rolled back" /\ Save(c, "rolled_back") /\ Ends(c, c = "r1")
    /\ UNCHANGED <<centreVars, runtime, backups, installed, connected, faultVars>>

\* The helper is killed, though not in the midst of restoring a backup, and
\* systemd starts it again; Reboot stops it anywhere.
HelperStops(c) ==
    /\ Fault("crash") /\ helpers[c].pc \notin {"inactive", "retry", "restore"} /\ Ends(c, FALSE)
    /\ UNCHANGED <<centreVars, stateVars>>

\* Power is lost: the agent is started again, a helper is not.
Reboot ==
    /\ Fault("reboot")
    /\ Go("down") /\ helpers' = [c \in Commands |-> [pc |-> "inactive", copied |-> 0]]
    /\ UNCHANGED <<centreVars, stateVars>>

-----------------------------------------------------------------------------
AgentStep ==
    \/ StartAgent \/ confirmPendingUpgrade \/ ConfirmReconnect \/ resumeInstall
    \/ RollBackAccepted \/ StartInstall \/ Rollback \/ ApplyFailed

HelperStep(c) ==
    \/ Retry(c) \/ Apply(c) \/ backupManaged(c) \/ replaceManaged(c) \/ CopyDone(c) \/ RestartAgent(c)
    \/ Restarted(c) \/ WaitForConfirmation(c) \/ ConfirmationTimesOut(c) \/ finishAutomaticRollback(c)
    \/ RolledBack(c)

UpdateNext ==
    \/ Issue \/ AgentStep \/ AgentKilled \/ Reboot
    \/ \E c \in Commands :
         handle(c) \/ HelperStep(c) \/ CopyFails(c) \/ SystemctlFails(c) \/ HelperStops(c)

\* The agent and the helpers run on; the centre repeats the current command with
\* every scan.
UpdateFairness ==
    /\ WF_updateVars(AgentStep)
    /\ \A c \in Commands : WF_updateVars(HelperStep(c)) /\ WF_updateVars(c = order[current] /\ handle(c))

UpdateSpec == UpdateInit /\ [][UpdateNext]_updateVars /\ UpdateFairness

-----------------------------------------------------------------------------
(* Properties.                                                             *)

\* The agent's files, phases and helpers are well formed.
UpdateTypeOK ==
    /\ order \in Orders /\ current \in 1..3
    /\ runtime \in [command : Commands \cup {"none"},
                    stage : {"none", "accepted", "downloading", "verifying", "installing", "reconnecting",
                             "rolling_back", "rolled_back", "failed"},
                    code : {"none", "stage_failed", "apply_start_failed", "apply_rolled_back", "rollback_failed"}]
    /\ phases \in [Commands -> {"absent", "staged", "backup_complete", "replacing", "files_replaced", "restarted",
                                "succeeded", "rollback_failed", "rollback_ready", "rolled_back", "rolling_back"}]
    /\ backups \in [Installs -> [FileNumbers -> {"none", "old", "new"}]]
    /\ installed \in [FileNumbers -> {"old", "new"}]
    /\ connected \subseteq Commands
    /\ agent \in [pc : {"down", "confirm", "connect", "loop", "accepted", "downloading", "verifying", "installing",
                        "accepted rollback", "rolling_back", "waiting", "apply failed"},
                  version : {"old", "new"}, command : Commands \cup {"none"}, seen : SUBSET Commands]
    /\ helpers \in [Commands -> [pc : {"inactive", "retry", "begin", "backup", "replace", "restart", "restarted", "wait",
                                       "restore", "finish", "finished", "undo", "undone", "rolled back"},
                                 copied : 0..NumFiles]]
    /\ updateFaults \subseteq UpdateFaults /\ faultCount \in 0..MaxUpdateFaults

Uniform == \E v \in {"old", "new"} : installed = Copies(v)

\* The backup an install can be undone from is complete and of the version before
\* it, however often backupManaged and Apply are repeated after a crash; of the
\* first install even when power is lost.
BackupIsWhole ==
    \A c \in Installs :
      phases[c] \notin {"absent", "staged"} /\ (c = order[1] \/ "reboot" \notin updateFaults) =>
        backups[c] = Copies("old")

\* Unless power was lost, files of two versions are in place only while a helper
\* is at work or about to be started again.
MixedOnlyInProgress ==
    ~Uniform /\ "reboot" \notin updateFaults => \E c \in Commands : helpers[c].pc # "inactive"

\* An upgrade counts as succeeded only after an agent of the target version,
\* started from the replaced binary, has connected.
SucceededWasConfirmed ==
    \A c \in Installs : phases[c] = "succeeded" => c \in connected

\* When no helper is at work, what the agent reports of the last command is true:
\* "rolled back", by the helper or on command, means that the old files are in
\* place, "reconnecting" that the files are those of the command.
ReportIsTrue ==
    /\ "reboot" \notin updateFaults /\ agent.pc = "loop"
    /\ \A c \in Commands : helpers[c].pc = "inactive"
    => /\ runtime.code = "apply_rolled_back" \/ runtime.stage = "rolled_back" => installed = Copies("old")
       /\ runtime.stage = "reconnecting" => installed = Copies(CommandVersion(runtime.command))

\* An install that replaced files is settled: confirmed, or undone, without the
\* centre's help as long as the helper is started again.
InstallIsSettled ==
    \A c \in Installs :
      []<>("reboot" \notin updateFaults =>
             phases[c] \in {"absent", "staged", "backup_complete", "succeeded", "rolled_back"})

\* Whatever cuts the updater short, the files it leaves and keeps are those of one
\* version, so that an install can be finished or undone.
FilesAreWhole == UpdateTypeOK /\ BackupIsWhole /\ MixedOnlyInProgress

\* What the updater records and reports of an install is true of the agent that runs.
OutcomeIsTrue == SucceededWasConfirmed /\ ReportIsTrue
=============================================================================
