------------------------------- MODULE Runner -------------------------------
(***************************************************************************)
(* The executor of an agent: internal/executor/runner.go with its durable  *)
(* execution records (execution_record.go), driven by the command loop of  *)
(* internal/agent/execution_client.go.  Records live on disk and survive   *)
(* the agent; everything else is lost when the agent stops.  Several agent *)
(* processes may share one work root, as after an upgrade.                 *)
(***************************************************************************)
EXTENDS Platform, Naturals, Sequences

CONSTANTS
    Agents,       \* agent processes, each with one Runner
    Faults,       \* which environment faults may happen, see below
    MaxRestarts,  \* bound: how often agents fail
    MaxBacklog    \* bound: unsent events of a run while assignments are taken

\* "record": writing an execution record fails.   "reject": a start fails before
\* its claim is written.   "control": systemctl dies while the unit lives on.
\* "probe", "drift", "linger": see module Execution.
ASSUME FaultsAssumption == Faults \subseteq {"record", "reject", "control", "probe", "drift",
                                        "linger"}
ASSUME DetailsAssumption == {"run", "launch", "rejected", "control"} \subseteq Details
ASSUME TornAssumption == "torn" \notin Tokens \cup {None}
ASSUME BoundsAssumption == MaxRestarts \in Nat /\ MaxBacklog \in Nat

VARIABLES
    up,        \* is the agent process running
    restarts,  \* how often agents failed so far
    job,       \* the assignment inside Runner.Start: prepared, then claimed
    active,    \* Runner.active: the token under which a run is supervised
    outbox,    \* events handed to forwardEvents and not sent yet
    claim,     \* <run>.claim.json: absent, unreadable, or the token it names
    result,    \* <run>.result.json: its events; <<>> if absent or unreadable
    proc,      \* the run's unit: "none", "live", "exited" (code 0) or "crashed"
    owner,     \* the agent process the unit is bound to; None once that stopped
    verdict,   \* the terminal event supervise is about to report
    launches,  \* history: processes started for the run
    sent       \* history: events given to the connection

agentVars == <<up, restarts, job, active, outbox>>
diskVars == <<claim, result>>
procVars == <<proc, owner, launches>>
runnerVars == <<agentVars, diskVars, procVars, verdict, sent>>

NoJob == [run |-> None, token |-> None, stage |-> "idle"]
Jobs == [run : Runs, token : Tokens, stage : {"prepare", "claimed"}]
NoVerdict == [type |-> "started", detail |-> "run"]
Event(type, detail) == [type |-> type, detail |-> detail]
Report(r, t, seq, e) == [run |-> r, token |-> t, seq |-> seq, event |-> e]

RunnerInit ==
    /\ up = [a \in Agents |-> TRUE]
    /\ restarts = 0
    /\ job = [a \in Agents |-> NoJob]
    /\ active = [a \in Agents |-> [r \in Runs |-> None]]
    /\ outbox = [a \in Agents |-> [r \in Runs |-> <<>>]]
    /\ claim = [r \in Runs |-> None]
    /\ result = [r \in Runs |-> <<>>]
    /\ proc = [r \in Runs |-> "none"]
    /\ owner = [r \in Runs |-> None]
    /\ verdict = [r \in Runs |-> NoVerdict]
    /\ launches = [r \in Runs |-> 0]
    /\ sent = {}

-----------------------------------------------------------------------------
(* Runner.Start: the checks, the claim and the launch.                     *)

\* Mutant: the claim file is not consulted.
AlreadyStarted_MemoryOnly(a, r) == active[a][r] # None

\* A supervised or recorded run is never started again: replay answers.
AlreadyStarted(a, r) == active[a][r] # None \/ claim[r] # None

Reports(r, t, es) == [i \in 1..Len(es) |-> Report(r, t, i, es[i])]

\* Mutant: the recorded events are replayed under any token.
replay_AnyToken(a, r, t) ==
    IF active[a][r] = None /\ claim[r] # None THEN Reports(r, t, result[r]) ELSE <<>>

\* What the caller forwards: the recorded events, or nothing when the run is
\* active, the token differs, or the record is incomplete.
replay(a, r, t) ==
    IF active[a][r] = None /\ claim[r] = t THEN Reports(r, t, result[r]) ELSE <<>>

Answer(a, r, t) ==
    outbox' = [outbox EXCEPT ![a][r] = @ \o replay(a, r, t)]

StartCheck(a, r, t) ==
    /\ up[a] /\ job[a] = NoJob
    /\ Len(outbox[a][r]) <= MaxBacklog
    /\ \/ /\ AlreadyStarted(a, r)
          /\ Answer(a, r, t)
          /\ UNCHANGED job
       \/ /\ ~AlreadyStarted(a, r)
          /\ job' = [job EXCEPT ![a] = [run |-> r, token |-> t, stage |-> "prepare"]]
          /\ UNCHANGED outbox
    /\ UNCHANGED <<up, restarts, active, diskVars, procVars, verdict, sent>>

\* The script path, the working directory or the command cannot be prepared:
\* the client reports a failure under sequence 1 and writes no record.
StartReject(a) ==
    /\ up[a] /\ job[a].stage = "prepare"
    /\ "reject" \in Faults
    /\ sent' = sent \cup {Report(job[a].run, job[a].token, 1, Event("failed", "rejected"))}
    /\ job' = [job EXCEPT ![a] = NoJob]
    /\ UNCHANGED <<up, restarts, active, outbox, diskVars, procVars, verdict>>

\* The second check and the exclusive creation of the claim.  A failed write
\* leaves no claim, an unreadable or a complete one, and an uncertain run.
claimExecution(a) ==
    LET r == job[a].run
        t == job[a].token
    IN  /\ up[a] /\ job[a].stage = "prepare"
        /\ \/ /\ AlreadyStarted(a, r)
              /\ Answer(a, r, t)
              /\ job' = [job EXCEPT ![a] = NoJob]
              /\ UNCHANGED claim
           \/ /\ ~AlreadyStarted(a, r)
              /\ claim' = [claim EXCEPT ![r] = t]
              /\ job' = [job EXCEPT ![a].stage = "claimed"]
              /\ UNCHANGED outbox
           \/ /\ ~AlreadyStarted(a, r)
              /\ "record" \in Faults
              /\ \E left \in {None, "torn", t} : claim' = [claim EXCEPT ![r] = left]
              /\ job' = [job EXCEPT ![a] = NoJob]
              /\ UNCHANGED outbox
        /\ UNCHANGED <<up, restarts, active, result, procVars, verdict, sent>>

Launch(a) ==
    LET r == job[a].run
        t == job[a].token
    IN  /\ up[a] /\ job[a].stage = "claimed"
        /\ proc' = [proc EXCEPT ![r] = "live"]
        /\ owner' = [owner EXCEPT ![r] = a]
        /\ launches' = [launches EXCEPT ![r] = @ + 1]
        /\ active' = [active EXCEPT ![a][r] = t]
        /\ outbox' = [outbox EXCEPT ![a][r] = Append(@, Report(r, t, 1, Event("started", "run")))]
        /\ job' = [job EXCEPT ![a] = NoJob]
        /\ UNCHANGED <<up, restarts, diskVars, verdict, sent>>

\* result.json is written once; the write may fail.
saveExecution(r, es) ==
    \/ result' = [result EXCEPT ![r] = es]
    \/ "record" \in Faults /\ UNCHANGED result

LaunchFails(a) ==
    LET r == job[a].run
        t == job[a].token
        failed == Event("failed", "launch")
    IN  /\ up[a] /\ job[a].stage = "claimed"
        /\ saveExecution(r, <<failed>>)
        /\ outbox' = [outbox EXCEPT ![a][r] = Append(@, Report(r, t, 1, failed))]
        /\ job' = [job EXCEPT ![a] = NoJob]
        /\ UNCHANGED <<up, restarts, active, claim, procVars, verdict, sent>>

-----------------------------------------------------------------------------
(* Runner.supervise.                                                       *)

\* The script ends by itself, with exit code zero or not.
ProcessExits(r) ==
    /\ proc[r] = "live"
    /\ proc' \in {[proc EXCEPT ![r] = how] : how \in {"exited", "crashed"}}
    /\ UNCHANGED <<agentVars, diskVars, owner, launches, verdict, sent>>

\* Mutant: a missing exit code is read as zero.
WaitReturns_ZeroByDefault(a, r) ==
    /\ up[a] /\ active[a][r] # None /\ verdict[r] = NoVerdict
    /\ verdict' = [verdict EXCEPT ![r] =
                     Event(IF proc[r] = "crashed" THEN "failed" ELSE "succeeded", "run")]
    /\ UNCHANGED <<agentVars, diskVars, procVars, sent>>

\* process.Wait returned: the exit code decides.
WaitReturns(a, r) ==
    /\ up[a] /\ active[a][r] # None /\ verdict[r] = NoVerdict
    /\ proc[r] # "live"
    /\ verdict' = [verdict EXCEPT ![r] =
                     Event(IF proc[r] = "exited" THEN "succeeded" ELSE "failed", "run")]
    /\ UNCHANGED <<agentVars, diskVars, procVars, sent>>

\* systemctl itself failed: no result file, so the run is reported failed,
\* whatever its unit does.
ControlFails(a, r) ==
    /\ up[a] /\ active[a][r] # None /\ verdict[r] = NoVerdict
    /\ "control" \in Faults
    /\ verdict' = [verdict EXCEPT ![r] = Event("failed", "control")]
    /\ UNCHANGED <<agentVars, diskVars, procVars, sent>>

\* Timeout, cancel command or agent shutdown: the process group is stopped.
stopProcess(a, r, type) ==
    /\ up[a] /\ active[a][r] # None /\ verdict[r] = NoVerdict
    /\ verdict' = [verdict EXCEPT ![r] = Event(type, "run")]
    /\ proc' = [proc EXCEPT ![r] = IF @ = "live" THEN "crashed" ELSE @]
    /\ UNCHANGED <<agentVars, diskVars, owner, launches, sent>>

\* Mutant: nothing is reported when the result cannot be saved.
Complete_SilentOnError(a, r) ==
    LET t == active[a][r]
        story == <<Event("started", "run"), verdict[r]>>
    IN  /\ up[a] /\ t # None /\ verdict[r] # NoVerdict
        /\ saveExecution(r, story)
        /\ outbox' = IF result'[r] = story
                     THEN [outbox EXCEPT ![a][r] = Append(@, Report(r, t, 2, verdict[r]))]
                     ELSE outbox
        /\ active' = [active EXCEPT ![a][r] = None]
        /\ UNCHANGED <<up, restarts, job, claim, procVars, verdict, sent>>

\* The result is saved, then reported; the run stops being active.
Complete(a, r) ==
    LET t == active[a][r]
    IN  /\ up[a] /\ t # None /\ verdict[r] # NoVerdict
        /\ saveExecution(r, <<Event("started", "run"), verdict[r]>>)
        /\ outbox' = [outbox EXCEPT ![a][r] = Append(@, Report(r, t, 2, verdict[r]))]
        /\ active' = [active EXCEPT ![a][r] = None]
        /\ UNCHANGED <<up, restarts, job, claim, procVars, verdict, sent>>

forwardEvents(a, r) ==
    /\ up[a] /\ outbox[a][r] # <<>>
    /\ sent' = sent \cup {Head(outbox[a][r])}
    /\ outbox' = [outbox EXCEPT ![a][r] = Tail(@)]
    /\ UNCHANGED <<up, restarts, job, active, diskVars, procVars, verdict>>

-----------------------------------------------------------------------------
(* Agent stops.  Run units are bound to the agent's unit (BindsTo=), so     *)
(* systemd stops them too, but not in the same instant.                    *)

AgentStops(a) ==
    /\ up[a]
    /\ up' = [up EXCEPT ![a] = FALSE]
    /\ job' = [job EXCEPT ![a] = NoJob]
    /\ active' = [active EXCEPT ![a] = [r \in Runs |-> None]]
    /\ outbox' = [outbox EXCEPT ![a] = [r \in Runs |-> <<>>]]
    /\ owner' = [r \in Runs |-> IF owner[r] = a THEN None ELSE owner[r]]
    /\ verdict' = [r \in Runs |-> IF active[a][r] # None THEN NoVerdict ELSE verdict[r]]
    /\ UNCHANGED <<diskVars, proc, launches, sent>>

\* A crash, a signal, an upgrade or a lost connection: at any moment.
AgentFails(a) ==
    /\ restarts < MaxRestarts
    /\ restarts' = restarts + 1
    /\ AgentStops(a)

AgentStarts(a) ==
    /\ ~up[a]
    /\ up' = [up EXCEPT ![a] = TRUE]
    /\ UNCHANGED <<restarts, job, active, outbox, diskVars, procVars, verdict, sent>>

\* systemd stops a unit whose agent has gone.
UnitStops(r) ==
    /\ proc[r] = "live" /\ owner[r] = None
    /\ proc' = [proc EXCEPT ![r] = "crashed"]
    /\ UNCHANGED <<agentVars, diskVars, owner, launches, verdict, sent>>

\* The command loop hands over one command at a time.  A cancel for a run that
\* is not active here, or under another token, is an error that ends the agent.
Cancel(a, r, t) ==
    /\ job[a] = NoJob
    /\ IF active[a][r] = t THEN stopProcess(a, r, "cancelled")
                         ELSE AgentStops(a) /\ UNCHANGED restarts

-----------------------------------------------------------------------------
(* The executor on its own: assignments and cancels arrive any number of   *)
(* times, under any token.                                                 *)

RunnerNext ==
    \/ \E a \in Agents, r \in Runs, t \in Tokens : StartCheck(a, r, t) \/ Cancel(a, r, t)
    \/ \E a \in Agents :
          \/ StartReject(a) \/ claimExecution(a) \/ Launch(a) \/ LaunchFails(a)
          \/ AgentFails(a) \/ AgentStarts(a)
    \/ \E a \in Agents, r \in Runs :
          \/ WaitReturns(a, r) \/ ControlFails(a, r) \/ Complete(a, r) \/ forwardEvents(a, r)
          \/ \E type \in {"timed_out", "cancelled"} : stopProcess(a, r, type)
    \/ \E r \in Runs : ProcessExits(r) \/ UnitStops(r)

RunnerSpec == RunnerInit /\ [][RunnerNext]_runnerVars

\* The command loop, the supervisors and the forwarders are goroutines of a
\* running agent; a script that does not end is stopped by its timeout.
RunnerFairness ==
    \A a \in Agents :
      /\ WF_runnerVars(claimExecution(a)) /\ WF_runnerVars(Launch(a) \/ LaunchFails(a))
      /\ \A r \in Runs :
           /\ WF_runnerVars(WaitReturns(a, r) \/ stopProcess(a, r, "timed_out"))
           /\ WF_runnerVars(Complete(a, r)) /\ WF_runnerVars(forwardEvents(a, r))

LiveRunnerSpec == RunnerSpec /\ RunnerFairness

-----------------------------------------------------------------------------
(* Properties.                                                             *)

ReportSet == [run : Runs, token : Tokens, seq : 1..2, event : RunEvents]

\* The executor's state keeps its shape.
RunnerTypeOK ==
    /\ up \in [Agents -> BOOLEAN]
    /\ restarts \in 0..MaxRestarts
    /\ job \in [Agents -> Jobs \cup {NoJob}]
    /\ active \in [Agents -> [Runs -> Tokens \cup {None}]]
    /\ outbox \in [Agents -> [Runs -> Seq(ReportSet)]]
    /\ claim \in [Runs -> Tokens \cup {None, "torn"}]
    /\ result \in [Runs -> Seq(RunEvents)] /\ \A r \in Runs : Len(result[r]) <= 2
    /\ proc \in [Runs -> {"none", "live", "exited", "crashed"}]
    /\ owner \in [Runs -> Agents \cup {None}]
    /\ verdict \in [Runs -> RunEvents]
    /\ launches \in [Runs -> Nat]
    /\ sent \subseteq ReportSet

\* However often an assignment is delivered, to one agent or to several that
\* share the work root, and wherever an agent stops in between, a run is
\* launched at most once (the exclusive claim file of claimExecution).
AtMostOneLaunch == \A r \in Runs : launches[r] <= 1

\* All events of an execution, live or replayed from disk after any number of
\* restarts, tell one story: one content per sequence number, and only under
\* the token that claimed the run (replay, saveExecution).
OneStory ==
    \A p \in sent : p.event.detail # "rejected" =>
      /\ claim[p.run] = p.token
      /\ \A q \in sent : q.event.detail # "rejected" /\ q.run = p.run /\ q.seq = p.seq => q = p

\* A success is reported only for a script that ended with exit code zero: not
\* for one the agent stopped, lost or never launched (exitEvent, systemd Wait).
SuccessIsReal ==
    \A p \in sent : p.event.type = "succeeded" => proc[p.run] = "exited"

\* While the agent lives, a supervised run gets a terminal event: supervise
\* reports the exit or, at the latest, the timeout.
SupervisedIsReported ==
    \A a \in Agents, r \in Runs :
      active[a][r] # None ~>
        (~up[a] \/ \E p \in sent : p.run = r /\ p.event.type \in TerminalStates)
=============================================================================
