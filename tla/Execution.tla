----------------------------- MODULE Execution ------------------------------
(***************************************************************************)
(* A run from its assignment to its end: the central run record (TaskRuns),*)
(* the dispatcher (internal/dispatch), the agents' websocket connections   *)
(* (internal/server/http.go, connections.go; internal/agent/client.go),    *)
(* and the agents with their executors (Runner, cmd/agent/main.go).        *)
(*                                                                         *)
(* A connection delivers in order, each way, until one side drops it.  The *)
(* centre serves every connection in a goroutine of its own, so what an    *)
(* agent wrote before it stopped may be handled while its successor is     *)
(* already connected.                                                      *)
(***************************************************************************)
EXTENDS TaskRuns, Runner

CONSTANT MaxQueue   \* bound: messages in flight on a connection, each way

ASSUME AgentsAssumption == Agents = Servers
ASSUME QueueAssumption == MaxQueue \in Nat \ {0} /\ "dispatch" \in Details

VARIABLES
    serving,      \* has the agent sent its first report and started its loops
    link,         \* does the centre hold the connection of the running agent
    cmds,         \* commands sent on that connection and not read by the agent
    inbox,        \* messages sent on that connection and not handled yet
    oldOpen,      \* is the connection of a stopped agent still being served
    stale,        \* messages on that older connection
    dispatching,  \* runs claimed by the dispatcher: "no", "send" or "reject"
    boot,         \* history: how often the agent was started
    launchedIn    \* history: the boot that launched the run

netVars == <<serving, link, cmds, inbox, oldOpen, stale>>
dispatchVars == <<dispatching>>
bootVars == <<boot, launchedIn>>
vars == <<runVars, runnerVars, netVars, dispatchVars, bootVars>>

Init ==
    /\ RunInit /\ RunnerInit
    /\ serving = [s \in Servers |-> TRUE]
    /\ link = [s \in Servers |-> TRUE]
    /\ cmds = [s \in Servers |-> <<>>]
    /\ inbox = [s \in Servers |-> <<>>]
    /\ oldOpen = [s \in Servers |-> FALSE]
    /\ stale = [s \in Servers |-> <<>>]
    /\ dispatching = [r \in Runs |-> "no"]
    /\ boot = [s \in Servers |-> 0]
    /\ launchedIn = [r \in Runs |-> 0]

EventMessage(report) == [kind |-> "event", body |-> report]
\* Mutant: the report loses its authoritative flag.
ReportMessage_NeverAuthoritative(s, processes, authoritative) ==
    [kind |-> "report", processes |-> processes, authoritative |-> FALSE, boot |-> boot[s]]
ReportMessage(s, processes, authoritative) ==
    [kind |-> "report", processes |-> processes, authoritative |-> authoritative, boot |-> boot[s]]
Command(type, r) == [type |-> type, run |-> r, token |-> token[r]]

-----------------------------------------------------------------------------
(* The scheduler and the users act on the run record alone.                *)

Centre ==
    /\ \/ \E r \in Runs, d \in Definitions : Trigger(r, d)
       \/ \E r \in Runs, s \in Servers, t \in Tokens : Assign(r, s, t)
       \/ \E r \in Runs : BackoffElapses(r) \/ CancelQueued(r) \/ RetryRun(r) \/ RetryFailed(r)
    /\ UNCHANGED <<runnerVars, netVars, dispatchVars, bootVars>>

\* SendExecutionCommand picks any connection of the server: a command given to
\* the one of a stopped agent is lost, and so is one no connection takes.
SendExecutionCommand(s, command) ==
    \/ /\ link[s] /\ Len(cmds[s]) < MaxQueue
       /\ cmds' = [cmds EXCEPT ![s] = Append(@, command)]
    \/ oldOpen[s] /\ UNCHANGED cmds

\* Explored once per run: a repeated cancel sends one more such command.
CancelRun(r) ==
    /\ CancelPlaced(r) /\ ~cancelRequested[r]
    /\ SendExecutionCommand(server[r], Command("cancel", r))
    /\ UNCHANGED <<runnerVars, serving, link, inbox, oldOpen, stale, dispatchVars, bootVars>>

-----------------------------------------------------------------------------
(* The dispatcher: internal/dispatch.                                      *)

\* Claim reads the state of the script copy in the transaction that claims.
Claim(r) ==
    /\ state[r] = "assigned" /\ dispatching[r] = "no"
    /\ dispatching' \in {[dispatching EXCEPT ![r] = how] :
                           how \in {"send"} \cup (IF "drift" \in Faults THEN {"reject"} ELSE {})}
    /\ UNCHANGED <<runVars, runnerVars, netVars, bootVars>>

\* The command goes out whatever became of the run since it was claimed.
DispatchSend(r) ==
    /\ dispatching[r] = "send"
    /\ dispatching' = [dispatching EXCEPT ![r] = "no"]
    /\ \/ SendExecutionCommand(server[r], Command("assign", r))
       \/ ~link[server[r]] /\ UNCHANGED cmds
    /\ UNCHANGED <<runVars, runnerVars, serving, link, inbox, oldOpen, stale, bootVars>>

\* A missing or failed script copy, or an unreadable secret: the dispatcher
\* itself reports the failure, under the agent's first sequence number.
DispatchReject(r) ==
    LET failed == Event("failed", "dispatch")
    IN  /\ dispatching[r] = "reject"
        /\ dispatching' = [dispatching EXCEPT ![r] = "no"]
        /\ \/ ApplyRunEvent(r, token[r], 1, failed)
           \/ ~Acceptable(r, token[r], 1, failed) /\ UNCHANGED runVars
        /\ UNCHANGED <<runnerVars, netVars, bootVars>>
-----------------------------------------------------------------------------
(* The agent: cmd/agent/main.go and the loops it starts.                   *)

\* A write on a connection the centre has closed ends the agent, see AgentDown.
Send(s, message) ==
    /\ link[s] /\ Len(inbox[s]) < MaxQueue
    /\ inbox' = [inbox EXCEPT ![s] = Append(@, message)]

\* With the fault "linger" the centre may go on serving what a stopped agent
\* wrote, for at most one connection at a time.
Disconnect(s) ==
    /\ ~oldOpen[s]
    /\ serving' = [serving EXCEPT ![s] = FALSE]
    /\ link' = [link EXCEPT ![s] = FALSE]
    /\ cmds' = [cmds EXCEPT ![s] = <<>>]
    /\ inbox' = [inbox EXCEPT ![s] = <<>>]
    /\ oldOpen' = [oldOpen EXCEPT ![s] = link[s] /\ "linger" \in Faults]
    /\ stale' = [stale EXCEPT ![s] = IF "linger" \in Faults THEN inbox[s] ELSE <<>>]
    /\ UNCHANGED <<runVars, dispatchVars, bootVars>>

\* Any error of any loop is fatal: a connection the centre closed is one.
AgentDown(s) ==
    /\ AgentFails(s) \/ (~link[s] /\ AgentStops(s) /\ UNCHANGED restarts)
    /\ Disconnect(s)

\* Dialling registers the connection with the centre, before the first report.
AgentUp(s) ==
    /\ AgentStarts(s)
    /\ link' = [link EXCEPT ![s] = TRUE]
    /\ boot' = [boot EXCEPT ![s] = @ + 1]
    /\ UNCHANGED <<runVars, serving, cmds, inbox, oldOpen, stale, dispatchVars, launchedIn>>

\* Mutant: the units are not looked at.
NoActiveSystemdRuns_Assumed(s) == TRUE

NoActiveSystemdRuns(s) == \A r \in Runs : server[r] = s => proc[r] # "live"

\* The first report waits for old units to stop; if that takes too long, or
\* cannot be found out, the report is not authoritative.
FirstReport(s) ==
    /\ up[s] /\ ~serving[s]
    /\ \/ NoActiveSystemdRuns(s) /\ Send(s, ReportMessage(s, {}, TRUE))
       \/ "probe" \in Faults /\ Send(s, ReportMessage(s, {}, FALSE))
    /\ serving' = [serving EXCEPT ![s] = TRUE]
    /\ UNCHANGED <<runVars, runnerVars, link, cmds, oldOpen, stale, dispatchVars, bootVars>>

\* The list sent with every heartbeat never claims to be complete.  Explored
\* while no other message waits: a later copy says the same.
HeartbeatReport(s) ==
    /\ serving[s] /\ inbox[s] = <<>>
    /\ \E r \in Runs : active[s][r] # None
    /\ Send(s, ReportMessage(s, {<<r, active[s][r]>> : r \in {q \in Runs : active[s][q] # None}}, FALSE))
    /\ UNCHANGED <<runVars, runnerVars, serving, link, cmds, oldOpen, stale, dispatchVars, bootVars>>

\* Mutant: an assignment that cannot be handled at once is dropped.
TakeAssign_Drops(s) ==
    /\ serving[s] /\ cmds[s] # <<>> /\ Head(cmds[s]).type = "assign"
    /\ cmds' = [cmds EXCEPT ![s] = Tail(@)]
    /\ UNCHANGED <<runVars, runnerVars, serving, link, inbox, oldOpen, stale, dispatchVars, bootVars>>

TakeAssign(s) ==
    /\ serving[s] /\ cmds[s] # <<>> /\ Head(cmds[s]).type = "assign"
    /\ StartCheck(s, Head(cmds[s]).run, Head(cmds[s]).token)
    /\ cmds' = [cmds EXCEPT ![s] = Tail(@)]
    /\ UNCHANGED <<runVars, serving, link, inbox, oldOpen, stale, dispatchVars, bootVars>>

TakeCancel(s) ==
    /\ serving[s] /\ cmds[s] # <<>> /\ Head(cmds[s]).type = "cancel" /\ job[s] = NoJob
    /\ \/ /\ active[s][Head(cmds[s]).run] = Head(cmds[s]).token
          /\ stopProcess(s, Head(cmds[s]).run, "cancelled")
          /\ cmds' = [cmds EXCEPT ![s] = Tail(@)]
          /\ UNCHANGED <<runVars, serving, link, inbox, oldOpen, stale, dispatchVars, bootVars>>
       \/ /\ active[s][Head(cmds[s]).run] # Head(cmds[s]).token
          /\ AgentStops(s) /\ UNCHANGED restarts
          /\ Disconnect(s)

RejectStart(s) ==
    /\ StartReject(s)
    /\ Send(s, EventMessage(Report(job[s].run, job[s].token, 1, Event("failed", "rejected"))))
    /\ UNCHANGED <<runVars, serving, link, cmds, oldOpen, stale, dispatchVars, bootVars>>

LaunchRun(s) ==
    /\ Launch(s)
    /\ launchedIn' = [launchedIn EXCEPT ![job[s].run] = boot[s]]
    /\ UNCHANGED <<runVars, netVars, dispatchVars, boot>>

ForwardEvent(s, r) ==
    /\ forwardEvents(s, r)
    /\ Send(s, EventMessage(Head(outbox[s][r])))
    /\ UNCHANGED <<runVars, serving, link, cmds, oldOpen, stale, dispatchVars, bootVars>>

Supervise(s, r) ==
    \/ WaitReturns(s, r) \/ ControlFails(s, r) \/ Complete(s, r)
    \/ stopProcess(s, r, "timed_out")

Local ==
    /\ \/ \E s \in Servers : claimExecution(s) \/ LaunchFails(s)
       \/ \E s \in Servers, r \in Runs : Supervise(s, r)
       \/ \E r \in Runs : ProcessExits(r) \/ UnitStops(r)
    /\ UNCHANGED <<runVars, netVars, dispatchVars, bootVars>>

-----------------------------------------------------------------------------
(* The centre's end of a connection: agentConnectHandler.                  *)

IsEvent(m) == m.kind = "event"
Refused(m) == Rejected(m.body.run, m.body.token, m.body.seq, m.body.event)

Handle(s, m) ==
    \/ IsEvent(m) /\ ApplyRunEvent(m.body.run, m.body.token, m.body.seq, m.body.event)
    \/ IsEvent(m) /\ IsReplay(m.body.run, m.body.token, m.body.seq, m.body.event) /\ UNCHANGED runVars
    \/ ~IsEvent(m) /\ ReconcileRunning(s, m.processes, m.authoritative)

\* An event the centre refuses closes the connection it came on.
Receive(s) ==
    /\ inbox[s] # <<>>
    /\ \/ /\ Handle(s, Head(inbox[s]))
          /\ inbox' = [inbox EXCEPT ![s] = Tail(@)]
          /\ UNCHANGED link
       \/ /\ IsEvent(Head(inbox[s])) /\ Refused(Head(inbox[s]))
          /\ inbox' = [inbox EXCEPT ![s] = <<>>]
          /\ link' = [link EXCEPT ![s] = FALSE]
          /\ UNCHANGED runVars
    /\ UNCHANGED <<runnerVars, serving, cmds, oldOpen, stale, dispatchVars, bootVars>>

ReceiveOld(s) ==
    /\ oldOpen[s]
    /\ \/ /\ stale[s] # <<>> /\ Handle(s, Head(stale[s]))
          /\ stale' = [stale EXCEPT ![s] = Tail(@)]
          /\ UNCHANGED oldOpen
       \/ /\ stale[s] # <<>> => IsEvent(Head(stale[s])) /\ Refused(Head(stale[s]))
          /\ stale' = [stale EXCEPT ![s] = <<>>]
          /\ oldOpen' = [oldOpen EXCEPT ![s] = FALSE]
          /\ UNCHANGED runVars
    /\ UNCHANGED <<runnerVars, serving, link, cmds, inbox, dispatchVars, bootVars>>

\* Heartbeats were missed for 15 seconds, whether or not the agent stopped.
ServerOffline(s) ==
    /\ MarkServerRunsUnknown(s)
    /\ UNCHANGED <<runnerVars, netVars, dispatchVars, bootVars>>

-----------------------------------------------------------------------------
Next ==
    \/ Centre \/ Local
    \/ \E r \in Runs : CancelRun(r) \/ Claim(r) \/ DispatchSend(r) \/ DispatchReject(r)
    \/ \E s \in Servers :
          \/ AgentDown(s) \/ AgentUp(s) \/ FirstReport(s) \/ HeartbeatReport(s)
          \/ TakeAssign(s) \/ TakeCancel(s) \/ RejectStart(s) \/ LaunchRun(s)
          \/ Receive(s) \/ ReceiveOld(s) \/ ServerOffline(s)
    \/ \E s \in Servers, r \in Runs : ForwardEvent(s, r)

Spec == Init /\ [][Next]_vars

\* Every loop of the centre and of a running agent keeps turning: the
\* dispatcher every 2 seconds, the handlers and forwarders as goroutines,
\* systemd restarting the agent (Restart=always) and stopping bound units.
\* A script that does not end is stopped by its timeout.
Fairness ==
    /\ \A r \in Runs : WF_vars(Claim(r)) /\ WF_vars(DispatchSend(r)) /\ WF_vars(DispatchReject(r))
    /\ \A r \in Runs : WF_vars(UnitStops(r) /\ Local)
    /\ \A s \in Servers :
         /\ WF_vars(AgentUp(s)) /\ WF_vars(FirstReport(s)) /\ WF_vars(TakeAssign(s))
         /\ WF_vars(TakeCancel(s)) /\ WF_vars(LaunchRun(s) \/ (LaunchFails(s) /\ Local))
         /\ WF_vars(claimExecution(s) /\ Local)
         /\ WF_vars(Receive(s)) /\ WF_vars(ReceiveOld(s)) /\ WF_vars(~link[s] /\ AgentDown(s))
         /\ \A r \in Runs : WF_vars(ForwardEvent(s, r)) /\ WF_vars(Supervise(s, r) /\ Local)

FairSpec == Spec /\ Fairness

-----------------------------------------------------------------------------
(* Properties.                                                             *)

\* The messages, queues and claims of the composition keep their shape.
ExecutionTypeOK ==
    /\ RunTypeOK /\ RunnerTypeOK
    /\ serving \in [Servers -> BOOLEAN] /\ link \in [Servers -> BOOLEAN]
    /\ oldOpen \in [Servers -> BOOLEAN]
    /\ dispatching \in [Runs -> {"no", "send", "reject"}]
    /\ \A s \in Servers : \A q \in {inbox[s], stale[s], cmds[s]} : Len(q) <= MaxQueue

\* What the centre records as a success is a script that ended with exit code
\* zero, through every loss, replay, restart and repeated dispatch.
RecordedSuccessIsReal ==
    \A r \in Runs : state[r] = "succeeded" => proc[r] = "exited" /\ launches[r] = 1

\* An authoritative report, as long as it is under way, is true of the past:
\* no unit that an earlier incarnation of the agent launched is still alive
\* (WaitForNoActiveSystemdRuns before SendRunningReport).
AuthoritativeReportIsTrue ==
    \A s \in Servers : \A q \in {inbox[s], stale[s]} : \A i \in 1..Len(q) :
      ~IsEvent(q[i]) /\ q[i].authoritative =>
        \A r \in Runs : proc[r] = "live" /\ server[r] = s => launchedIn[r] >= q[i].boot

\* The centre never refuses an event of an agent, so no connection is dropped
\* and no agent ended by the order in which events, replays, reports and
\* repeated assignments of its runs happen to arrive (ApplyRunEvent).
NoEventIsRefused ==
    \A s \in Servers : \A q \in {inbox[s], stale[s]} :
      q # <<>> /\ IsEvent(Head(q)) => ~Refused(Head(q))

\* An assignment is not lost in a dispatcher, a connection or an agent that
\* dies: under repeated dispatch an assigned run gets somewhere.
AssignedGetsSomewhere ==
    \A r \in Runs : state[r] = "assigned" ~> state[r] # "assigned"

\* A run that the centre counts as running comes to an end it knows of, or is
\* marked as unknown.
RunningIsSettled ==
    \A r \in Runs : state[r] = "running" ~> state[r] # "running"

\* At most one attempt of a retry lineage is executing.
OneLiveAttempt ==
    \A p, q \in Known : root[p] = root[q] /\ proc[p] = "live" /\ proc[q] = "live" => p = q

\* What the centre is told of runs is true: successes it records are real, and
\* authoritative reports leave out no live unit.
ReportsAreTrue == ExecutionTypeOK /\ RecordedSuccessIsReal /\ AuthoritativeReportIsTrue
=============================================================================
