---------------------------- MODULE RunnerProofs ----------------------------
(***************************************************************************)
(* Proofs about the executor, for any sets of agents, runs and tokens.     *)
(***************************************************************************)
EXTENDS Runner, TLAPS

-----------------------------------------------------------------------------
(* Types.                                                                  *)

\* A job whose stage says so is an assignment of a run under a token.
LEMMA JobInHand ==
    ASSUME RunnerTypeOK, NEW a \in Agents, job[a].stage \in {"prepare", "claimed"}
    PROVE  job[a] \in Jobs /\ job[a].run \in Runs /\ job[a].token \in Tokens
BY DEF RunnerTypeOK, Jobs, NoJob

\* The events the executor makes are events of the platform.
LEMMA EventTyped ==
    ASSUME NEW type \in EventTypes, NEW detail \in {"run", "launch", "rejected", "control"}
    PROVE  Event(type, detail) \in RunEvents
BY DetailsAssumption DEF Event, RunEvents

\* What replay adds to an outbox are reports.
LEMMA ReplayTyped ==
    ASSUME RunnerTypeOK, NEW a \in Agents, NEW r \in Runs, NEW t \in Tokens
    PROVE  replay(a, r, t) \in Seq(ReportSet)
<1>1. result[r] \in Seq(RunEvents) /\ Len(result[r]) \in Nat /\ Len(result[r]) <= 2
  BY DEF RunnerTypeOK
<1>2. \A i \in 1..Len(result[r]) : Report(r, t, i, result[r][i]) \in ReportSet
  BY <1>1 DEF Report, ReportSet
<1>3. Reports(r, t, result[r]) \in Seq(ReportSet)
  BY <1>1, <1>2 DEF Reports
<1> QED
  BY <1>3 DEF replay

\* Answering a repeated assignment keeps the outboxes well-formed.
LEMMA AnswerTyped ==
    ASSUME RunnerTypeOK, NEW a \in Agents, NEW r \in Runs, NEW t \in Tokens, Answer(a, r, t)
    PROVE  outbox' \in [Agents -> [Runs -> Seq(ReportSet)]]
<1>1. outbox[a][r] \o replay(a, r, t) \in Seq(ReportSet)
  BY ReplayTyped DEF RunnerTypeOK
<1> QED
  BY <1>1 DEF Answer, RunnerTypeOK

\* Appending a report keeps the outboxes well-formed.
LEMMA AppendTyped ==
    ASSUME RunnerTypeOK, NEW a \in Agents, NEW r \in Runs, NEW p \in ReportSet
    PROVE  [outbox EXCEPT ![a][r] = Append(@, p)] \in [Agents -> [Runs -> Seq(ReportSet)]]
<1>1. Append(outbox[a][r], p) \in Seq(ReportSet)
  BY DEF RunnerTypeOK
<1> QED
  BY <1>1 DEF RunnerTypeOK

\* Saving one or two events keeps the records well-formed.
LEMMA SaveTyped ==
    ASSUME RunnerTypeOK, NEW r \in Runs, NEW es \in Seq(RunEvents), Len(es) <= 2,
           saveExecution(r, es)
    PROVE  result' \in [Runs -> Seq(RunEvents)] /\ \A q \in Runs : Len(result'[q]) <= 2
BY DEF saveExecution, RunnerTypeOK

\* Every step of the executor keeps the shape of its state.
LEMMA RunnerTypeStep == RunnerTypeOK /\ [RunnerNext]_runnerVars => RunnerTypeOK'
<1> SUFFICES ASSUME RunnerTypeOK, [RunnerNext]_runnerVars PROVE RunnerTypeOK'
  OBVIOUS
<1> USE DEF agentVars, diskVars, procVars
<1>1. ASSUME NEW a \in Agents, NEW r \in Runs, NEW t \in Tokens, StartCheck(a, r, t)
      PROVE  RunnerTypeOK'
  <2>1. CASE Answer(a, r, t) /\ UNCHANGED job
    BY <1>1, <2>1, AnswerTyped DEF StartCheck, RunnerTypeOK
  <2>2. CASE job' = [job EXCEPT ![a] = [run |-> r, token |-> t, stage |-> "prepare"]] /\ UNCHANGED outbox
    BY <1>1, <2>2 DEF StartCheck, RunnerTypeOK, Jobs
  <2> QED
    BY <1>1, <2>1, <2>2 DEF StartCheck
<1>2. ASSUME NEW a \in Agents, StartReject(a) PROVE RunnerTypeOK'
  <2>1. Report(job[a].run, job[a].token, 1, Event("failed", "rejected")) \in ReportSet
    BY <1>2, JobInHand, EventTyped DEF StartReject, Report, ReportSet, EventTypes
  <2> QED
    BY <1>2, <2>1 DEF StartReject, RunnerTypeOK
<1>3. ASSUME NEW a \in Agents, claimExecution(a) PROVE RunnerTypeOK'
  <2>1. job[a] \in Jobs /\ job[a].run \in Runs /\ job[a].token \in Tokens
    BY <1>3, JobInHand DEF claimExecution
  <2>2. outbox' \in [Agents -> [Runs -> Seq(ReportSet)]]
    BY <1>3, <2>1, AnswerTyped DEF claimExecution, RunnerTypeOK
  <2>3. claim' \in [Runs -> Tokens \cup {None, "torn"}]
    BY <1>3, <2>1 DEF claimExecution, RunnerTypeOK
  <2>4. job' \in [Agents -> Jobs \cup {NoJob}]
    <3>1. [job[a] EXCEPT !.stage = "claimed"] \in Jobs
      BY <2>1 DEF Jobs
    <3>2. job' = [job EXCEPT ![a] = NoJob]
          \/ job' = [job EXCEPT ![a] = [job[a] EXCEPT !.stage = "claimed"]]
      BY <1>3 DEF claimExecution, RunnerTypeOK
    <3> QED
      BY <3>1, <3>2 DEF RunnerTypeOK
  <2> QED
    BY <1>3, <2>2, <2>3, <2>4 DEF claimExecution, RunnerTypeOK
<1>4. ASSUME NEW a \in Agents, Launch(a) PROVE RunnerTypeOK'
  <2>1. job[a].run \in Runs /\ job[a].token \in Tokens
    BY <1>4, JobInHand DEF Launch
  <2>2. Report(job[a].run, job[a].token, 1, Event("started", "run")) \in ReportSet
    BY <2>1, EventTyped DEF Report, ReportSet, EventTypes
  <2>3. outbox' \in [Agents -> [Runs -> Seq(ReportSet)]]
    BY <1>4, <2>1, <2>2, AppendTyped DEF Launch
  <2>4. /\ proc' \in [Runs -> {"none", "live", "exited", "crashed"}]
        /\ owner' \in [Runs -> Agents \cup {None}]
        /\ launches' \in [Runs -> Nat]
    BY <1>4, <2>1 DEF Launch, RunnerTypeOK
  <2>5. active' \in [Agents -> [Runs -> Tokens \cup {None}]] /\ job' \in [Agents -> Jobs \cup {NoJob}]
    BY <1>4, <2>1 DEF Launch, RunnerTypeOK
  <2>6. UNCHANGED <<up, restarts, diskVars, verdict, sent>>
    BY <1>4 DEF Launch
  <2> QED
    BY <2>3, <2>4, <2>5, <2>6 DEF RunnerTypeOK
<1>5. ASSUME NEW a \in Agents, LaunchFails(a) PROVE RunnerTypeOK'
  <2>1. job[a].run \in Runs /\ job[a].token \in Tokens
    BY <1>5, JobInHand DEF LaunchFails
  <2>2. Event("failed", "launch") \in RunEvents
    BY EventTyped DEF EventTypes
  <2>3. Report(job[a].run, job[a].token, 1, Event("failed", "launch")) \in ReportSet
    BY <2>1, <2>2 DEF Report, ReportSet
  <2>4. outbox' \in [Agents -> [Runs -> Seq(ReportSet)]]
    BY <1>5, <2>1, <2>3, AppendTyped DEF LaunchFails
  <2>5. result' \in [Runs -> Seq(RunEvents)] /\ \A q \in Runs : Len(result'[q]) <= 2
    <3>1. <<Event("failed", "launch")>> \in Seq(RunEvents) /\ Len(<<Event("failed", "launch")>>) <= 2
      BY <2>2
    <3> QED
      BY <1>5, <2>1, <3>1, SaveTyped DEF LaunchFails
  <2> QED
    BY <1>5, <2>4, <2>5 DEF LaunchFails, RunnerTypeOK
<1>6. ASSUME NEW a \in Agents, AgentStops(a), restarts' \in 0..MaxRestarts PROVE RunnerTypeOK'
  <2>1. NoVerdict \in RunEvents
    BY EventTyped DEF NoVerdict, EventTypes, Event
  <2> QED
    BY <1>6, <2>1 DEF AgentStops, RunnerTypeOK
<1>7. ASSUME NEW a \in Agents, AgentFails(a) PROVE RunnerTypeOK'
  <2>1. restarts' \in 0..MaxRestarts
    BY <1>7, BoundsAssumption DEF AgentFails, RunnerTypeOK
  <2> QED
    BY <1>6, <1>7, <2>1 DEF AgentFails
<1>8. ASSUME NEW a \in Agents, AgentStarts(a) PROVE RunnerTypeOK'
  BY <1>8 DEF AgentStarts, RunnerTypeOK
<1>9. ASSUME NEW a \in Agents, NEW r \in Runs, WaitReturns(a, r) \/ ControlFails(a, r)
      PROVE  RunnerTypeOK'
  <2>1. \A type \in {"succeeded", "failed"}, detail \in {"run", "control"} : Event(type, detail) \in RunEvents
    BY EventTyped DEF EventTypes
  <2>2. verdict' \in [Runs -> RunEvents]
    <3>1. CASE WaitReturns(a, r)
      BY <2>1, <3>1 DEF WaitReturns, RunnerTypeOK
    <3>2. CASE ControlFails(a, r)
      BY <2>1, <3>2 DEF ControlFails, RunnerTypeOK
    <3> QED
      BY <1>9, <3>1, <3>2
  <2>3. UNCHANGED <<agentVars, diskVars, procVars, sent>>
    BY <1>9 DEF WaitReturns, ControlFails
  <2> QED
    BY <2>2, <2>3 DEF RunnerTypeOK
<1>10. ASSUME NEW a \in Agents, NEW r \in Runs, NEW type \in {"timed_out", "cancelled"},
              stopProcess(a, r, type)
       PROVE  RunnerTypeOK'
  <2>1. Event(type, "run") \in RunEvents
    BY EventTyped DEF EventTypes
  <2> QED
    BY <1>10, <2>1 DEF stopProcess, RunnerTypeOK
<1>11. ASSUME NEW a \in Agents, NEW r \in Runs, Complete(a, r) PROVE RunnerTypeOK'
  <2>1. active[a][r] \in Tokens /\ verdict[r] \in RunEvents /\ Event("started", "run") \in RunEvents
    BY <1>11, EventTyped DEF Complete, RunnerTypeOK, EventTypes
  <2>2. Report(r, active[a][r], 2, verdict[r]) \in ReportSet
    BY <2>1 DEF Report, ReportSet
  <2>3. outbox' \in [Agents -> [Runs -> Seq(ReportSet)]]
    BY <1>11, <2>2, AppendTyped DEF Complete
  <2>4. result' \in [Runs -> Seq(RunEvents)] /\ \A q \in Runs : Len(result'[q]) <= 2
    <3> DEFINE story == <<Event("started", "run"), verdict[r]>>
    <3>1. story \in Seq(RunEvents) /\ Len(story) <= 2
      BY <2>1
    <3>2. saveExecution(r, story)
      BY <1>11 DEF Complete
    <3> HIDE DEF story
    <3> QED
      BY <3>1, <3>2, SaveTyped
  <2> QED
    BY <1>11, <2>3, <2>4 DEF Complete, RunnerTypeOK
<1>12. ASSUME NEW a \in Agents, NEW r \in Runs, forwardEvents(a, r) PROVE RunnerTypeOK'
  <2>1. Head(outbox[a][r]) \in ReportSet /\ Tail(outbox[a][r]) \in Seq(ReportSet)
    BY <1>12 DEF forwardEvents, RunnerTypeOK
  <2>2. outbox' \in [Agents -> [Runs -> Seq(ReportSet)]]
    BY <1>12, <2>1 DEF forwardEvents, RunnerTypeOK
  <2> QED
    BY <1>12, <2>1, <2>2 DEF forwardEvents, RunnerTypeOK
<1>13. ASSUME NEW r \in Runs, ProcessExits(r) \/ UnitStops(r) PROVE RunnerTypeOK'
  BY <1>13 DEF ProcessExits, UnitStops, RunnerTypeOK
<1>14. ASSUME NEW a \in Agents, NEW r \in Runs, NEW t \in Tokens, Cancel(a, r, t) PROVE RunnerTypeOK'
  BY <1>6, <1>10, <1>14 DEF Cancel, RunnerTypeOK
<1>15. CASE UNCHANGED runnerVars
  BY <1>15 DEF runnerVars, RunnerTypeOK
<1> QED
  BY <1>1, <1>2, <1>3, <1>4, <1>5, <1>7, <1>8, <1>9, <1>10, <1>11, <1>12, <1>13, <1>14, <1>15
  DEF RunnerNext

\* The executor's state keeps its shape in every behaviour.
THEOREM RunnerTypesHold == RunnerSpec => []RunnerTypeOK
<1>1. RunnerInit => RunnerTypeOK
  <2>1. NoVerdict \in RunEvents
    BY EventTyped DEF NoVerdict, EventTypes, Event
  <2> QED
    BY <2>1, BoundsAssumption DEF RunnerInit, RunnerTypeOK
<1> QED
  BY <1>1, RunnerTypeStep, PTL DEF RunnerSpec

-----------------------------------------------------------------------------
(* At most one launch.  The claim file carries the argument from the agent *)
(* that wrote it to every later one: a claimed assignment has not been     *)
(* launched, it is in one agent's hands, and no claim is ever taken back.  *)

LaunchInv ==
    /\ RunnerTypeOK
    /\ AtMostOneLaunch
    /\ \A r \in Runs : launches[r] # 0 => claim[r] # None
    /\ \A a \in Agents : job[a].stage = "claimed" =>
         claim[job[a].run] # None /\ launches[job[a].run] = 0
    /\ \A a, b \in Agents :
         job[a].stage = "claimed" /\ job[b].stage = "claimed" /\ job[a].run = job[b].run => a = b

\* A step that writes no claim, launches nothing and brings no assignment to
\* the stage of being claimed cannot disturb the argument.
LEMMA LaunchUntouched ==
    ASSUME LaunchInv, RunnerTypeOK', UNCHANGED <<claim, launches>>,
           \A a \in Agents : job'[a] = job[a] \/ job'[a].stage # "claimed"
    PROVE  LaunchInv'
BY DEF LaunchInv, AtMostOneLaunch

\* Every step of every agent keeps the argument.
LEMMA LaunchStep == LaunchInv /\ [RunnerNext]_runnerVars => LaunchInv'
<1> SUFFICES ASSUME LaunchInv, [RunnerNext]_runnerVars PROVE LaunchInv'
  OBVIOUS
<1>0. RunnerTypeOK /\ RunnerTypeOK'
  BY RunnerTypeStep DEF LaunchInv
<1> DEFINE Untouched ==
      /\ UNCHANGED <<claim, launches>>
      /\ \A a \in Agents : job'[a] = job[a] \/ job'[a].stage # "claimed"
<1> USE DEF agentVars, diskVars, procVars
<1>1. ASSUME NEW a \in Agents, claimExecution(a) PROVE LaunchInv'
  <2> DEFINE r == job[a].run
  <2>1. r \in Runs /\ job[a].token \in Tokens /\ UNCHANGED launches
    BY <1>0, <1>1, JobInHand DEF claimExecution
  <2>2. CASE job' = [job EXCEPT ![a] = NoJob] /\ UNCHANGED claim
    BY <1>0, <2>1, <2>2, LaunchUntouched DEF RunnerTypeOK, NoJob
  <2>3. CASE /\ claim[r] = None
             /\ claim' = [claim EXCEPT ![r] = job[a].token]
             /\ job' = [job EXCEPT ![a].stage = "claimed"]
    <3>1. claim'[r] # None
      BY <1>0, <2>1, <2>3, NoneAssumption DEF RunnerTypeOK
    <3>2. \A q \in Runs : q # r => claim'[q] = claim[q]
      BY <1>0, <2>1, <2>3 DEF RunnerTypeOK
    <3>3. launches[r] = 0
      BY <2>1, <2>3 DEF LaunchInv
    <3>4. job'[a].stage = "claimed" /\ job'[a].run = r
      BY <1>0, <2>3 DEF RunnerTypeOK, Jobs, NoJob
    <3>5. \A b \in Agents : b # a => job'[b] = job[b]
      BY <1>0, <2>3 DEF RunnerTypeOK
    <3>6. \A b \in Agents : job[b].stage = "claimed" => job[b].run # r /\ job[b].run \in Runs
      BY <1>0, <2>3, JobInHand DEF LaunchInv
    <3> HIDE DEF r
    <3> QED
      BY <1>0, <2>1, <3>1, <3>2, <3>3, <3>4, <3>5, <3>6 DEF LaunchInv, AtMostOneLaunch
  <2>4. CASE /\ claim[r] = None
             /\ \E left \in {None, "torn", job[a].token} : claim' = [claim EXCEPT ![r] = left]
             /\ job' = [job EXCEPT ![a] = NoJob]
    <3>2. \A q \in Runs : claim[q] # None => claim'[q] # None
      BY <1>0, <2>1, <2>4 DEF RunnerTypeOK
    <3>3. \A b \in Agents : job'[b].stage = "claimed" => job'[b] = job[b]
      BY <1>0, <2>4 DEF RunnerTypeOK, NoJob
    <3>4. \A b \in Agents : job[b].stage = "claimed" => job[b].run \in Runs
      BY <1>0, JobInHand
    <3> QED
      BY <1>0, <2>1, <3>2, <3>3, <3>4 DEF LaunchInv, AtMostOneLaunch
  <2> QED
    BY <1>1, <2>2, <2>3, <2>4 DEF claimExecution, AlreadyStarted
<1>2. ASSUME NEW a \in Agents, Launch(a) PROVE LaunchInv'
  <2> DEFINE r == job[a].run
  <2>1. r \in Runs /\ launches[r] = 0 /\ claim[r] # None /\ UNCHANGED claim
    BY <1>0, <1>2, JobInHand DEF Launch, LaunchInv
  <2>2. launches' = [launches EXCEPT ![r] = 1]
    BY <1>0, <1>2, <2>1 DEF Launch, RunnerTypeOK
  <2>3. job'[a] = NoJob /\ \A b \in Agents : b # a => job'[b] = job[b]
    BY <1>0, <1>2 DEF Launch, RunnerTypeOK
  <2>4. \A b \in Agents : job'[b].stage = "claimed" => b # a /\ job[b].run # r /\ job[b].run \in Runs
    BY <1>0, <1>2, <2>3, JobInHand DEF Launch, LaunchInv, NoJob
  <2>5. \A q \in Runs : launches'[q] = IF q = r THEN 1 ELSE launches[q]
    BY <1>0, <2>1, <2>2 DEF RunnerTypeOK
  <2> HIDE DEF r
  <2>6. AtMostOneLaunch'
    BY <2>1, <2>5 DEF LaunchInv, AtMostOneLaunch
  <2>7. \A q \in Runs : launches'[q] # 0 => claim'[q] # None
    BY <2>1, <2>5 DEF LaunchInv
  <2>8. \A b \in Agents : job'[b].stage = "claimed" =>
          claim'[job'[b].run] # None /\ launches'[job'[b].run] = 0
    BY <2>1, <2>3, <2>4, <2>5 DEF LaunchInv
  <2>9. \A b, c \in Agents :
          job'[b].stage = "claimed" /\ job'[c].stage = "claimed" /\ job'[b].run = job'[c].run => b = c
    BY <2>3, <2>4 DEF LaunchInv
  <2> QED
    BY <1>0, <2>6, <2>7, <2>8, <2>9 DEF LaunchInv
<1>3. ASSUME NEW a \in Agents, NEW r \in Runs, NEW t \in Tokens, StartCheck(a, r, t) PROVE Untouched
  <2>1. UNCHANGED <<claim, launches>>
    BY <1>3 DEF StartCheck
  <2>2. UNCHANGED job \/ job' = [job EXCEPT ![a] = [run |-> r, token |-> t, stage |-> "prepare"]]
    BY <1>3 DEF StartCheck
  <2> QED
    BY <1>0, <2>1, <2>2 DEF RunnerTypeOK
<1>4. ASSUME NEW a \in Agents, StartReject(a) \/ LaunchFails(a) PROVE Untouched
  BY <1>0, <1>4 DEF StartReject, LaunchFails, RunnerTypeOK, NoJob
<1>5. ASSUME NEW a \in Agents, AgentStops(a) PROVE Untouched
  BY <1>0, <1>5 DEF AgentStops, RunnerTypeOK, NoJob
<1>6. ASSUME NEW a \in Agents, AgentFails(a) \/ AgentStarts(a) PROVE Untouched
  BY <1>5, <1>6 DEF AgentFails, AgentStarts
<1>7. ASSUME NEW a \in Agents, NEW r \in Runs,
             WaitReturns(a, r) \/ ControlFails(a, r) \/ Complete(a, r) \/ forwardEvents(a, r)
      PROVE  Untouched
  BY <1>7 DEF WaitReturns, ControlFails, Complete, forwardEvents
<1>8. ASSUME NEW a \in Agents, NEW r \in Runs, NEW type, stopProcess(a, r, type) PROVE Untouched
  BY <1>8 DEF stopProcess
<1>9. ASSUME NEW r \in Runs, ProcessExits(r) \/ UnitStops(r) PROVE Untouched
  BY <1>9 DEF ProcessExits, UnitStops
<1>10. ASSUME NEW a \in Agents, NEW r \in Runs, NEW t \in Tokens, Cancel(a, r, t) PROVE Untouched
  BY <1>5, <1>8, <1>10 DEF Cancel
<1>11. CASE UNCHANGED runnerVars
  BY <1>0, <1>11, LaunchUntouched DEF runnerVars
<1>12. ASSUME Untouched PROVE LaunchInv'
  BY <1>0, <1>12, LaunchUntouched
<1> HIDE DEF Untouched
<1> QED
  BY <1>1, <1>2, <1>3, <1>4, <1>6, <1>7, <1>8, <1>9, <1>10, <1>11, <1>12 DEF RunnerNext

\* However often assignments are delivered and wherever agents stop, a run is
\* launched at most once (claimExecution's exclusive creation of the claim).
THEOREM OneLaunch == RunnerSpec => []AtMostOneLaunch
<1>1. RunnerInit => LaunchInv
  <2>1. NoVerdict \in RunEvents
    BY EventTyped DEF NoVerdict, EventTypes, Event
  <2> QED
    BY <2>1, BoundsAssumption DEF RunnerInit, LaunchInv, RunnerTypeOK, AtMostOneLaunch, NoJob
<1>2. LaunchInv => AtMostOneLaunch
  BY DEF LaunchInv
<1> QED
  BY <1>1, <1>2, LaunchStep, PTL DEF RunnerSpec
-----------------------------------------------------------------------------
(* One story per execution.  Whatever was reported, waits to be sent or    *)
(* can be replayed from disk agrees with the claim, the launch and the     *)
(* verdict of its run, none of which changes any more once there is such a *)
(* report.                                                                 *)

Rejected(p) == p.event = Event("failed", "rejected")

Consistent(p) ==
    /\ claim[p.run] = p.token
    /\ p.seq = 1 => p.event = IF launches[p.run] = 0 THEN Event("failed", "launch") ELSE Event("started", "run")
    /\ p.seq = 2 => p.event = verdict[p.run] /\ \A a \in Agents : active[a][p.run] = None
    /\ p.seq = 2 => launches[p.run] # 0
    /\ \A a \in Agents : job[a].stage = "claimed" => job[a].run # p.run

Recorded(r, i) == Report(r, claim[r], i, result[r][i])

Told ==
    /\ \A p \in sent : Rejected(p) \/ Consistent(p)
    /\ \A a \in Agents, r \in Runs : \A i \in 1..Len(outbox[a][r]) : Consistent(outbox[a][r][i])
    /\ \A r \in Runs : \A i \in 1..Len(result[r]) : claim[r] \in Tokens /\ Consistent(Recorded(r, i))

Supervision ==
    /\ \A a \in Agents : job[a].stage = "claimed" => claim[job[a].run] = job[a].token
    /\ \A a \in Agents, r \in Runs : active[a][r] # None => active[a][r] = claim[r] /\ launches[r] # 0
    /\ \A a, b \in Agents, r \in Runs : active[a][r] # None /\ active[b][r] # None => a = b
    /\ \A r \in Runs : proc[r] # "none" => launches[r] # 0
    /\ \A r \in Runs : verdict[r].type = "succeeded" => proc[r] = "exited"

StoryInv == LaunchInv /\ Told /\ Supervision

\* What a step must leave alone for a report to stay consistent.
Settled(p) ==
    /\ claim'[p.run] = claim[p.run] /\ launches'[p.run] = launches[p.run]
    /\ p.seq = 2 => verdict'[p.run] = verdict[p.run]
    /\ \A a \in Agents : active'[a][p.run] \in {active[a][p.run], None}
    /\ \A a \in Agents : job'[a] = job[a] \/ job'[a].stage # "claimed" \/ job'[a].run # p.run

\* A report that was consistent stays so when its claim, launch and verdict are left alone.
LEMMA SettledStays ==
    ASSUME NEW p \in ReportSet, Consistent(p), Settled(p)
    PROVE  Consistent(p)'
BY DEF Consistent, Settled

\* An element of a queue that one report was added to is an old one or that one.
LEMMA AppendCases ==
    ASSUME NEW S, NEW s \in Seq(S), NEW x \in S, NEW i \in 1..Len(Append(s, x))
    PROVE  (i \in 1..Len(s) /\ Append(s, x)[i] = s[i]) \/ Append(s, x)[i] = x
<1>1. Len(s) \in Nat /\ Len(Append(s, x)) = Len(s) + 1
  OBVIOUS
<1>2. CASE i = Len(s) + 1
  BY <1>1, <1>2
<1>3. CASE i # Len(s) + 1
  <2>1. i \in 1..Len(s)
    BY <1>1, <1>3
  <2> QED
    BY <2>1
<1> QED
  BY <1>2, <1>3

\* Reports that wait to be sent, and those that can be replayed, are reports.
LEMMA ReportsTyped ==
    ASSUME RunnerTypeOK
    PROVE  /\ \A a \in Agents, r \in Runs : \A i \in 1..Len(outbox[a][r]) : outbox[a][r][i] \in ReportSet
           /\ \A r \in Runs : \A i \in 1..Len(result[r]) :
                claim[r] \in Tokens => Recorded(r, i) \in ReportSet
<1>1. ASSUME NEW a \in Agents, NEW r \in Runs, NEW i \in 1..Len(outbox[a][r])
      PROVE  outbox[a][r][i] \in ReportSet
  <2>1. outbox[a][r] \in Seq(ReportSet)
    BY DEF RunnerTypeOK
  <2> QED
    BY <2>1
<1>2. ASSUME NEW r \in Runs, NEW i \in 1..Len(result[r]), claim[r] \in Tokens
      PROVE  Recorded(r, i) \in ReportSet
  <2>1. result[r] \in Seq(RunEvents) /\ Len(result[r]) <= 2 /\ Len(result[r]) \in Nat
    BY DEF RunnerTypeOK
  <2>2. result[r][i] \in RunEvents /\ i \in 1..2
    BY <2>1
  <2> QED
    BY <1>2, <2>2 DEF Recorded, Report, ReportSet
<1> QED
  BY <1>1, <1>2

\* Replaying recorded events into an outbox tells nothing new.
LEMMA AnswerIsConsistent ==
    ASSUME StoryInv, NEW a \in Agents, NEW r \in Runs, NEW t \in Tokens, Answer(a, r, t)
    PROVE  \A b \in Agents, q \in Runs : \A i \in 1..Len(outbox'[b][q]) : Consistent(outbox'[b][q][i])
<1>0. RunnerTypeOK
  BY DEF StoryInv, LaunchInv
<1>1. outbox[a][r] \in Seq(ReportSet) /\ replay(a, r, t) \in Seq(ReportSet)
  BY <1>0, ReplayTyped DEF RunnerTypeOK
<1>2. \A i \in 1..Len(replay(a, r, t)) : Consistent(replay(a, r, t)[i])
  <2>1. CASE active[a][r] = None /\ claim[r] = t
    <3>1. replay(a, r, t) = Reports(r, claim[r], result[r])
      BY <2>1 DEF replay
    <3>2. result[r] \in Seq(RunEvents) /\ Len(result[r]) \in Nat
      BY <1>0 DEF RunnerTypeOK
    <3>3. \A i \in 1..Len(result[r]) : Reports(r, claim[r], result[r])[i] = Recorded(r, i)
      BY DEF Reports, Recorded
    <3>4. Len(Reports(r, claim[r], result[r])) = Len(result[r])
      BY <3>2 DEF Reports
    <3> QED
      BY <3>1, <3>3, <3>4 DEF StoryInv, Told
  <2>2. CASE ~(active[a][r] = None /\ claim[r] = t)
    BY <2>2 DEF replay
  <2> QED
    BY <2>1, <2>2
<1>3. \A i \in 1..Len(outbox[a][r] \o replay(a, r, t)) : Consistent((outbox[a][r] \o replay(a, r, t))[i])
  <2> SUFFICES ASSUME NEW i \in 1..Len(outbox[a][r] \o replay(a, r, t))
               PROVE  Consistent((outbox[a][r] \o replay(a, r, t))[i])
    OBVIOUS
  <2>1. CASE i <= Len(outbox[a][r])
    <3>1. (outbox[a][r] \o replay(a, r, t))[i] = outbox[a][r][i] /\ i \in 1..Len(outbox[a][r])
      BY <1>1, <2>1
    <3> QED
      BY <3>1 DEF StoryInv, Told
  <2>2. CASE i > Len(outbox[a][r])
    <3>1. /\ (outbox[a][r] \o replay(a, r, t))[i] = replay(a, r, t)[i - Len(outbox[a][r])]
          /\ i - Len(outbox[a][r]) \in 1..Len(replay(a, r, t))
      BY <1>1, <2>2
    <3> QED
      BY <1>2, <3>1
  <2>3. Len(outbox[a][r]) \in Nat /\ i \in Nat
    BY <1>1
  <2> QED
    BY <2>1, <2>2, <2>3
<1>4. \A b \in Agents, q \in Runs :
        outbox'[b][q] = IF b = a /\ q = r THEN outbox[a][r] \o replay(a, r, t) ELSE outbox[b][q]
  BY <1>0 DEF Answer, RunnerTypeOK
<1>5. ASSUME NEW b \in Agents, NEW q \in Runs, NEW i \in 1..Len(outbox'[b][q])
      PROVE  Consistent(outbox'[b][q][i])
  <2>1. CASE b = a /\ q = r
    BY <1>3, <1>4, <1>5, <2>1
  <2>2. CASE ~(b = a /\ q = r)
    <3>1. outbox'[b][q] = outbox[b][q]
      BY <1>4, <2>2
    <3> QED
      BY <1>5, <3>1 DEF StoryInv, Told
  <2> QED
    BY <2>1, <2>2
<1> QED
  BY <1>5

\* A step keeps what was told consistent if it leaves alone what that rests on and tells nothing else.
LEMMA ToldStays ==
    ASSUME StoryInv, RunnerTypeOK',
           \A p \in ReportSet : Consistent(p) => Settled(p),
           \A p \in sent' : p \in sent \/ Rejected(p) \/ Consistent(p),
           \A a \in Agents, r \in Runs : \A i \in 1..Len(outbox'[a][r]) :
             Consistent(outbox'[a][r][i]) \/ Consistent(outbox[a][r][i])',
           \A r \in Runs :
             \/ result'[r] = result[r]
             \/ \A i \in 1..Len(result'[r]) : claim'[r] \in Tokens /\ Consistent(Recorded(r, i))'
    PROVE  Told'
<1>0. RunnerTypeOK
  BY DEF StoryInv, LaunchInv
<1>1. ASSUME NEW p \in sent' PROVE Rejected(p) \/ Consistent(p)'
  <2>1. p \in ReportSet
    BY <1>1 DEF RunnerTypeOK
  <2>2. Rejected(p) \/ Consistent(p)
    BY <1>1 DEF StoryInv, Told
  <2> QED
    BY <2>1, <2>2, SettledStays
<1>2. ASSUME NEW a \in Agents, NEW r \in Runs, NEW i \in 1..Len(outbox'[a][r])
      PROVE  Consistent(outbox[a][r][i])'
  <2>1. outbox'[a][r][i] \in ReportSet
    <3>1. outbox'[a][r] \in Seq(ReportSet)
      BY DEF RunnerTypeOK
    <3> QED
      BY <1>2, <3>1
  <2>2. PICK p \in ReportSet : p = outbox'[a][r][i]
    BY <2>1
  <2>3. CASE Consistent(outbox'[a][r][i])
    <3>1. Consistent(p)'
      BY <2>2, <2>3, SettledStays
    <3> QED
      BY <2>2, <3>1 DEF Consistent
  <2> QED
    BY <1>2, <2>3
<1>3. ASSUME NEW r \in Runs, NEW i \in 1..Len(result[r]), result'[r] = result[r]
      PROVE  claim'[r] \in Tokens /\ Consistent(Recorded(r, i))'
  <2>1. claim[r] \in Tokens /\ Consistent(Recorded(r, i))
    BY <1>3 DEF StoryInv, Told
  <2>2. PICK p \in ReportSet : p = Recorded(r, i)
    BY <1>0, <1>3, <2>1, ReportsTyped
  <2>3. Settled(p) /\ p.run = r
    BY <2>1, <2>2 DEF Recorded, Report
  <2>4. claim'[r] = claim[r]
    BY <2>3 DEF Settled
  <2>5. Recorded(r, i)' = p
    BY <1>3, <2>2, <2>4 DEF Recorded
  <2>6. Consistent(p)'
    BY <2>1, <2>2, <2>3, SettledStays
  <2> QED
    BY <2>1, <2>4, <2>5, <2>6 DEF Consistent
<1>4. ASSUME NEW r \in Runs, NEW i \in 1..Len(result'[r])
      PROVE  claim'[r] \in Tokens /\ Consistent(Recorded(r, i))'
  <2>1. CASE result'[r] = result[r]
    <3>1. i \in 1..Len(result[r])
      BY <1>4, <2>1
    <3> QED
      BY <1>3, <2>1, <3>1
  <2> QED
    BY <1>4, <2>1
<1> QED
  BY <1>1, <1>2, <1>4 DEF Told, Rejected

\* A step that touches no report and only unsettled parts of the state.
LEMMA StoryUntouched ==
    ASSUME StoryInv, LaunchInv', UNCHANGED <<claim, launches, outbox, result>>,
           \A p \in sent' : p \in sent \/ Rejected(p),
           \A a \in Agents : job'[a] = job[a] \/ job'[a].stage # "claimed",
           \A a \in Agents, r \in Runs : active'[a][r] = active[a][r],
           \A r \in Runs : verdict'[r] = verdict[r] \/ \E a \in Agents : active[a][r] # None,
           \A r \in Runs : verdict'[r].type = "succeeded" => proc'[r] = "exited",
           \A r \in Runs : proc'[r] # "none" => proc[r] # "none"
    PROVE  StoryInv'
<1>0. RunnerTypeOK /\ RunnerTypeOK'
  BY DEF StoryInv, LaunchInv
<1>1. ASSUME NEW p \in ReportSet, Consistent(p) PROVE Settled(p)
  <2>1. p.run \in Runs
    BY DEF ReportSet
  <2> QED
    BY <1>1, <2>1 DEF Settled, Consistent
<1>2. Told'
  <2>1. \A a \in Agents, r \in Runs : \A i \in 1..Len(outbox'[a][r]) : Consistent(outbox'[a][r][i])
    BY DEF StoryInv, Told
  <2> QED
    BY <1>0, <1>1, <2>1, ToldStays
<1>3. Supervision'
  <2>1. Supervision
    BY DEF StoryInv
  <2>2. \A a \in Agents : job'[a].stage = "claimed" => claim'[job'[a].run] = job'[a].token
    BY <2>1 DEF Supervision
  <2>3. /\ \A a \in Agents, r \in Runs : active'[a][r] # None => active'[a][r] = claim'[r] /\ launches'[r] # 0
        /\ \A a, b \in Agents, r \in Runs : active'[a][r] # None /\ active'[b][r] # None => a = b
    BY <2>1 DEF Supervision
  <2>4. \A r \in Runs : proc'[r] # "none" => launches'[r] # 0
    BY <2>1 DEF Supervision
  <2> QED
    BY <2>2, <2>3, <2>4 DEF Supervision
<1> QED
  BY <1>2, <1>3 DEF StoryInv

\* Every step of every agent keeps the story.
LEMMA StoryStep == StoryInv /\ [RunnerNext]_runnerVars => StoryInv'
<1> SUFFICES ASSUME StoryInv, [RunnerNext]_runnerVars PROVE StoryInv'
  OBVIOUS
<1>0. RunnerTypeOK /\ RunnerTypeOK' /\ LaunchInv /\ LaunchInv'
  BY LaunchStep DEF StoryInv, LaunchInv
<1>p. \A p \in ReportSet : p.run \in Runs /\ p.token \in Tokens /\ p.token # None
  BY NoneAssumption DEF ReportSet
<1>t. /\ job \in [Agents -> Jobs \cup {NoJob}] /\ launches \in [Runs -> Nat]
      /\ proc \in [Runs -> {"none", "live", "exited", "crashed"}]
  BY <1>0 DEF RunnerTypeOK
<1>a. active \in [Agents -> [Runs -> Tokens \cup {None}]]
  BY <1>0 DEF RunnerTypeOK
<1>o. outbox \in [Agents -> [Runs -> Seq(ReportSet)]]
  BY <1>0 DEF RunnerTypeOK
<1>s. Told /\ Supervision
  BY DEF StoryInv
<1>q. \A a, b \in Agents :
        job[a].stage = "claimed" /\ job[b].stage = "claimed" /\ job[a].run = job[b].run => a = b
  BY <1>0 DEF LaunchInv
<1> USE DEF agentVars, diskVars, procVars
<1>1. ASSUME NEW a \in Agents, NEW r \in Runs, NEW t \in Tokens, StartCheck(a, r, t) PROVE StoryInv'
  <2>1. /\ UNCHANGED <<claim, launches, result, sent, active, verdict, proc>>
        /\ \A b \in Agents : job'[b] = job[b] \/ job'[b].stage # "claimed"
    <3>1. UNCHANGED job \/ job' = [job EXCEPT ![a] = [run |-> r, token |-> t, stage |-> "prepare"]]
      BY <1>1 DEF StartCheck
    <3> QED
      BY <1>0, <1>1, <3>1 DEF StartCheck, RunnerTypeOK
  <2>2. \A p \in ReportSet : Consistent(p) => Settled(p)
    BY <2>1 DEF Settled, Consistent
  <2>3. \A b \in Agents, q \in Runs : \A i \in 1..Len(outbox'[b][q]) : Consistent(outbox'[b][q][i])
    BY <1>1, AnswerIsConsistent DEF StartCheck, StoryInv, Told
  <2>4. Told'
    BY <1>0, <2>1, <2>2, <2>3, ToldStays
  <2>5. Supervision'
    BY <2>1 DEF StoryInv, Supervision
  <2> QED
    BY <1>0, <2>4, <2>5 DEF StoryInv
<1>2. ASSUME NEW a \in Agents, StartReject(a) PROVE StoryInv'
  <2>1. \A p \in sent' : p \in sent \/ Rejected(p)
    BY <1>2 DEF StartReject, Rejected, Report
  <2>2. \A b \in Agents : job'[b] = job[b] \/ job'[b].stage # "claimed"
    BY <1>0, <1>2 DEF StartReject, RunnerTypeOK, NoJob
  <2> QED
    BY <1>0, <1>2, <2>1, <2>2, StoryUntouched DEF StartReject, StoryInv, Supervision
<1>3. ASSUME NEW a \in Agents, claimExecution(a) PROVE StoryInv'
  <2> DEFINE r == job[a].run
             t == job[a].token
  <2>1. r \in Runs /\ t \in Tokens /\ t # None
    BY <1>0, <1>3, JobInHand, NoneAssumption DEF claimExecution
  <2>2. UNCHANGED <<launches, result, sent, active, verdict, proc>>
    BY <1>3 DEF claimExecution
  <2>3. \A q \in Runs : claim'[q] = claim[q] \/ (q = r /\ claim[q] = None)
    BY <1>0, <1>3, <2>1 DEF claimExecution, AlreadyStarted, RunnerTypeOK
  <2>4. \A b \in Agents : \/ job'[b] = job[b]
                          \/ job'[b].stage # "claimed"
                          \/ job'[b].run = r /\ job'[b].token = t /\ claim[r] = None /\ claim'[r] = t
    <3>1. CASE job' = [job EXCEPT ![a] = NoJob]
      BY <1>0, <3>1 DEF RunnerTypeOK, NoJob
    <3>2. CASE job' = [job EXCEPT ![a].stage = "claimed"] /\ claim' = [claim EXCEPT ![r] = t] /\ claim[r] = None
      <4>1. job'[a].run = r /\ job'[a].token = t /\ \A b \in Agents : b # a => job'[b] = job[b]
        BY <1>0, <2>1, <3>2 DEF RunnerTypeOK, Jobs, NoJob
      <4>2. claim'[r] = t
        BY <1>0, <2>1, <3>2 DEF RunnerTypeOK
      <4> QED
        BY <3>2, <4>1, <4>2
    <3> QED
      BY <1>3, <3>1, <3>2 DEF claimExecution, AlreadyStarted
  <2> HIDE DEF r, t
  <2>5. \A p \in ReportSet : Consistent(p) => Settled(p)
    <3> SUFFICES ASSUME NEW p \in ReportSet, Consistent(p) PROVE Settled(p)
      OBVIOUS
    <3>1. claim[p.run] = p.token /\ claim[p.run] # None /\ p.run \in Runs
      BY <1>p DEF Consistent
    <3> QED
      BY <2>2, <2>3, <2>4, <3>1 DEF Settled, Consistent
  <2>6. \A b \in Agents, q \in Runs : \A i \in 1..Len(outbox'[b][q]) : Consistent(outbox'[b][q][i])
    BY <1>3, <2>1, AnswerIsConsistent DEF claimExecution, StoryInv, Told, r, t
  <2>7. Told'
    BY <1>0, <2>2, <2>5, <2>6, ToldStays
  <2>8. Supervision'
    <3>1. \A b \in Agents, q \in Runs : active[b][q] # None => claim'[q] = claim[q]
      <4> SUFFICES ASSUME NEW b \in Agents, NEW q \in Runs, active[b][q] # None PROVE claim'[q] = claim[q]
        OBVIOUS
      <4>1. claim[q] # None
        BY <1>s DEF Supervision
      <4> QED
        BY <2>3, <4>1
    <3>2. \A b \in Agents : job'[b].stage = "claimed" => claim'[job'[b].run] = job'[b].token
      <4> SUFFICES ASSUME NEW b \in Agents, job'[b].stage = "claimed" PROVE claim'[job'[b].run] = job'[b].token
        OBVIOUS
      <4>1. CASE job'[b] = job[b]
        <5>1. job[b].run \in Runs /\ claim[job[b].run] = job[b].token /\ claim[job[b].run] # None
          BY <1>0, <4>1, JobInHand, NoneAssumption DEF StoryInv, Supervision
        <5> QED
          BY <2>3, <4>1, <5>1
      <4> QED
        BY <2>4, <4>1
    <3> QED
      BY <2>2, <3>1, <3>2 DEF StoryInv, Supervision
  <2> QED
    BY <1>0, <2>7, <2>8 DEF StoryInv
<1>4. ASSUME NEW a \in Agents, job[a].stage = "claimed", job' = [job EXCEPT ![a] = NoJob],
             NEW e \in RunEvents,
             e = IF launches'[job[a].run] = 0 THEN Event("failed", "launch") ELSE Event("started", "run"),
             outbox' = [outbox EXCEPT ![a][job[a].run] = Append(@, Report(job[a].run, job[a].token, 1, e))],
             UNCHANGED <<claim, sent, verdict>>,
             \A q \in Runs : q # job[a].run => launches'[q] = launches[q] /\ result'[q] = result[q],
             result'[job[a].run] = result[job[a].run] \/ (result'[job[a].run] = <<e>> /\ launches'[job[a].run] = 0),
             \A b \in Agents, q \in Runs : q # job[a].run => active'[b][q] = active[b][q]
      PROVE  Told'
  <2> DEFINE r == job[a].run
             t == job[a].token
             new == Report(r, t, 1, e)
  <2>1. r \in Runs /\ t \in Tokens /\ claim[r] = t
    BY <1>0, <1>4, JobInHand DEF StoryInv, Supervision
  <2>2. /\ \A b \in Agents : job'[b] = job[b] \/ job'[b].stage # "claimed"
        /\ job'[a].stage # "claimed"
    BY <1>t, <1>4 DEF NoJob
  <2>3. \A b \in Agents : job'[b].stage = "claimed" => job'[b].run # r
    <3> SUFFICES ASSUME NEW b \in Agents, job'[b].stage = "claimed" PROVE job'[b].run # r
      OBVIOUS
    <3>1. b # a /\ job'[b] = job[b]
      BY <2>2
    <3>2. job[b].stage = "claimed"
      BY <3>1
    <3> QED
      BY <1>q, <1>4, <3>1, <3>2
  <2>4. new.run = r /\ new.token = t /\ new.seq = 1 /\ new.event = e
    BY DEF Report
  <2>5. claim'[r] = t
    BY <1>4, <2>1
  <2>6. e = IF launches'[r] = 0 THEN Event("failed", "launch") ELSE Event("started", "run")
    BY <1>4
  <2> HIDE DEF new, r, t
  <2>7. \A p \in ReportSet : p.run = r /\ p.token = t /\ p.seq = 1 /\ p.event = e => Consistent(p)'
    BY <2>3, <2>5, <2>6 DEF Consistent
  <2>8. \A p \in ReportSet : Consistent(p) => Settled(p)
    <3> SUFFICES ASSUME NEW p \in ReportSet, Consistent(p) PROVE Settled(p)
      OBVIOUS
    <3>1. p.run # r /\ p.run \in Runs
      BY <1>4, <1>p DEF Consistent, r
    <3> QED
      BY <1>4, <2>2, <3>1 DEF Settled, r
  <2>9. new \in ReportSet
    BY <2>1 DEF new, Report, ReportSet
  <2>10. ASSUME NEW b \in Agents, NEW q \in Runs, NEW i \in 1..Len(outbox'[b][q])
         PROVE  Consistent(outbox'[b][q][i]) \/ Consistent(outbox[b][q][i])'
    <3>1. outbox[a][r] \in Seq(ReportSet)
      BY <1>o, <2>1
    <3>2. outbox'[b][q] = IF b = a /\ q = r THEN Append(outbox[a][r], new) ELSE outbox[b][q]
      BY <1>o, <1>4, <2>1 DEF new, r, t
    <3>3. CASE ~(b = a /\ q = r)
      <4>1. outbox'[b][q] = outbox[b][q]
        BY <3>2, <3>3
      <4> QED
        BY <1>s, <2>10, <4>1 DEF Told
    <3>4. CASE b = a /\ q = r
      <4>1. outbox'[b][q] = Append(outbox[a][r], new)
        BY <3>2, <3>4
      <4>2. \/ i \in 1..Len(outbox[a][r]) /\ outbox'[b][q][i] = outbox[a][r][i]
            \/ outbox'[b][q][i] = new
        BY <2>9, <2>10, <3>1, <4>1, AppendCases
      <4>3. CASE i \in 1..Len(outbox[a][r]) /\ outbox'[b][q][i] = outbox[a][r][i]
        BY <1>s, <2>1, <4>3 DEF Told
      <4>4. CASE outbox'[b][q][i] = new
        <5>1. PICK p \in ReportSet : p = new
          BY <2>9
        <5>2. Consistent(p)'
          BY <2>4, <2>7, <5>1
        <5> QED
          BY <4>4, <5>1, <5>2 DEF Consistent
      <4> QED
        BY <4>2, <4>3, <4>4
    <3> QED
      BY <3>3, <3>4
  <2>11. ASSUME NEW q \in Runs
         PROVE  \/ result'[q] = result[q]
                \/ \A i \in 1..Len(result'[q]) : claim'[q] \in Tokens /\ Consistent(Recorded(q, i))'
    <3>1. CASE q = r /\ result'[r] = <<e>>
      <4> SUFFICES ASSUME NEW i \in 1..Len(result'[q])
                   PROVE  claim'[q] \in Tokens /\ Consistent(Recorded(q, i))'
        OBVIOUS
      <4>1. i = 1 /\ result'[q][i] = e
        BY <3>1
      <4>2. PICK p \in ReportSet : p = new
        BY <2>9
      <4>3. Recorded(q, i)' = p
        BY <2>5, <3>1, <4>1, <4>2 DEF Recorded, new
      <4>4. Consistent(p)'
        BY <2>4, <2>7, <4>2
      <4> QED
        BY <2>1, <2>5, <3>1, <4>3, <4>4 DEF Consistent
    <3> QED
      BY <1>4, <3>1 DEF r
  <2> QED
    BY <1>0, <1>4, <2>8, <2>10, <2>11, ToldStays
<1>5. ASSUME NEW a \in Agents, Launch(a) PROVE StoryInv'
  <2> DEFINE r == job[a].run
             t == job[a].token
  <2>1. r \in Runs /\ t \in Tokens /\ claim[r] = t /\ launches[r] = 0 /\ t # None
    <3>1. job[a].stage = "claimed"
      BY <1>5 DEF Launch
    <3>2. r \in Runs /\ t \in Tokens
      BY <1>0, <3>1, JobInHand
    <3>3. launches[r] = 0
      BY <1>0, <3>1 DEF LaunchInv
    <3>4. claim[r] = t
      BY <1>s, <3>1 DEF Supervision
    <3> QED
      BY <3>2, <3>3, <3>4, NoneAssumption
  <2>c. /\ launches' = [launches EXCEPT ![r] = @ + 1] /\ active' = [active EXCEPT ![a][r] = t]
        /\ proc' = [proc EXCEPT ![r] = "live"] /\ job' = [job EXCEPT ![a] = NoJob]
    BY <1>5 DEF Launch
  <2> HIDE DEF r, t
  <2>2. \A q \in Runs : launches'[q] = IF q = r THEN 1 ELSE launches[q]
    BY <1>t, <2>1, <2>c
  <2>3. \A b \in Agents, q \in Runs : active'[b][q] = IF b = a /\ q = r THEN t ELSE active[b][q]
    BY <1>a, <2>1, <2>c
  <2>4. \A b \in Agents : active[b][r] = None
    BY <2>1 DEF StoryInv, Supervision
  <2>5. \A q \in Runs : proc'[q] = IF q = r THEN "live" ELSE proc[q]
    BY <1>t, <2>1, <2>c
  <2>6. \A b \in Agents : job'[b] = job[b] \/ job'[b].stage # "claimed"
    BY <1>t, <2>c DEF NoJob
  <2>7. UNCHANGED <<claim, verdict, result, sent>>
    BY <1>5 DEF Launch
  <2>8. Told'
    <3> DEFINE e == Event("started", "run")
    <3>1. e \in RunEvents
      BY EventTyped DEF EventTypes
    <3>2. /\ outbox' = [outbox EXCEPT ![a][r] = Append(@, Report(r, t, 1, e))]
          /\ job[a].stage = "claimed" /\ job' = [job EXCEPT ![a] = NoJob]
      BY <1>5 DEF Launch, r, t
    <3>3. e = IF launches'[r] = 0 THEN Event("failed", "launch") ELSE e
      BY <2>1, <2>2
    <3>4. /\ \A q \in Runs : q # r => launches'[q] = launches[q] /\ result'[q] = result[q]
          /\ \A b \in Agents, q \in Runs : q # r => active'[b][q] = active[b][q]
          /\ result'[r] = result[r]
      BY <2>1, <2>2, <2>3, <2>7
    <3> HIDE DEF e
    <3> QED
      BY <1>4, <2>7, <3>1, <3>2, <3>3, <3>4 DEF e, r, t
  <2>9. Supervision'
    <3>1. verdict[r].type # "succeeded"
      BY <2>1 DEF StoryInv, Supervision
    <3> QED
      <4>1. \A b \in Agents : job'[b].stage = "claimed" => claim'[job'[b].run] = job'[b].token
        BY <1>s, <2>6, <2>7 DEF Supervision
      <4>2. \A b \in Agents, q \in Runs : active'[b][q] # None => active'[b][q] = claim'[q] /\ launches'[q] # 0
        BY <1>s, <2>1, <2>2, <2>3, <2>7 DEF Supervision
      <4>3. \A b, c \in Agents, q \in Runs : active'[b][q] # None /\ active'[c][q] # None => b = c
        BY <1>s, <2>3, <2>4 DEF Supervision
      <4>4. \A q \in Runs : /\ proc'[q] # "none" => launches'[q] # 0
                            /\ verdict'[q].type = "succeeded" => proc'[q] = "exited"
        BY <1>s, <2>2, <2>5, <2>7, <3>1 DEF Supervision
      <4> QED
        BY <4>1, <4>2, <4>3, <4>4 DEF Supervision
  <2> QED
    BY <1>0, <2>8, <2>9 DEF StoryInv
<1>6. ASSUME NEW a \in Agents, LaunchFails(a) PROVE StoryInv'
  <2> DEFINE r == job[a].run
             e == Event("failed", "launch")
  <2>1. r \in Runs /\ launches[r] = 0
    BY <1>0, <1>6, JobInHand DEF LaunchFails, LaunchInv
  <2>2. e \in RunEvents
    BY EventTyped DEF EventTypes
  <2>3. /\ UNCHANGED <<claim, verdict, active, launches, proc, sent>>
        /\ job' = [job EXCEPT ![a] = NoJob]
        /\ result' = [result EXCEPT ![r] = <<e>>] \/ UNCHANGED result
    BY <1>6 DEF LaunchFails, saveExecution
  <2>4. /\ \A q \in Runs : q # r => result'[q] = result[q]
        /\ result'[r] = result[r] \/ result'[r] = <<e>>
    BY <1>0, <2>1, <2>3 DEF RunnerTypeOK
  <2>5. outbox' = [outbox EXCEPT ![a][r] = Append(@, Report(r, job[a].token, 1, e))] /\ job[a].stage = "claimed"
    BY <1>6 DEF LaunchFails
  <2>6. Told'
    <3> HIDE DEF e
    <3>1. e = IF launches'[r] = 0 THEN Event("failed", "launch") ELSE Event("started", "run")
      BY <2>1, <2>3 DEF e
    <3> QED
      BY <1>4, <2>1, <2>2, <2>3, <2>4, <2>5, <3>1
  <2>7. \A b \in Agents : job'[b] = job[b] \/ job'[b].stage # "claimed"
    BY <1>0, <2>3 DEF RunnerTypeOK, NoJob
  <2>8. Supervision'
    BY <2>3, <2>7 DEF StoryInv, Supervision
  <2> QED
    BY <1>0, <2>6, <2>8 DEF StoryInv
<1>7. ASSUME NEW a \in Agents, NEW r \in Runs, Complete(a, r) PROVE StoryInv'
  <2> DEFINE t == active[a][r]
             started == Event("started", "run")
             new == Report(r, t, 2, verdict[r])
  <2>1. t \in Tokens /\ t = claim[r] /\ launches[r] # 0 /\ t # None
    <3>1. t # None
      BY <1>7 DEF Complete
    <3>2. t \in Tokens
      BY <1>a, <3>1
    <3>3. t = claim[r] /\ launches[r] # 0
      BY <1>s, <3>1 DEF Supervision
    <3> QED
      BY <3>1, <3>2, <3>3
  <2>2. /\ UNCHANGED <<job, claim, verdict, launches, proc, sent>>
        /\ active' = [active EXCEPT ![a][r] = None]
        /\ outbox' = [outbox EXCEPT ![a][r] = Append(@, new)]
        /\ result' = [result EXCEPT ![r] = <<started, verdict[r]>>] \/ UNCHANGED result
    BY <1>7 DEF Complete, saveExecution
  <2>3. \A b \in Agents, q \in Runs : active'[b][q] = IF b = a /\ q = r THEN None ELSE active[b][q]
    BY <1>a, <2>2
  <2>4. \A b \in Agents : active'[b][r] = None
    BY <2>1, <2>3 DEF StoryInv, Supervision
  <2>5. \A b \in Agents : job[b].stage = "claimed" => job[b].run # r
    BY <2>1 DEF StoryInv, LaunchInv
  <2>6. verdict[r] \in RunEvents /\ started \in RunEvents
    BY <1>0, EventTyped DEF RunnerTypeOK, EventTypes
  <2>n. new.run = r /\ new.token = t /\ new.seq = 2 /\ new.event = verdict[r]
    BY DEF Report
  <2>7. new \in ReportSet
    <3>1. 2 \in 1..2 /\ t \in Tokens /\ verdict[r] \in RunEvents
      BY <2>1, <2>6
    <3> HIDE DEF t
    <3> QED
      BY <3>1 DEF Report, ReportSet
  <2> HIDE DEF new, t, started
  <2>8. \A p \in ReportSet : p.run = r /\ p.token = t /\ p.seq = 2 /\ p.event = verdict[r] => Consistent(p)'
    BY <2>1, <2>2, <2>4, <2>5 DEF Consistent
  <2>9. \A p \in ReportSet : p.run = r /\ p.token = t /\ p.seq = 1 /\ p.event = started => Consistent(p)'
    BY <2>1, <2>2, <2>4, <2>5 DEF Consistent, started
  <2>10. \A p \in ReportSet : Consistent(p) => Settled(p)
    BY <1>p, <2>2, <2>3 DEF Settled
  <2>11. ASSUME NEW b \in Agents, NEW q \in Runs, NEW i \in 1..Len(outbox'[b][q])
         PROVE  Consistent(outbox'[b][q][i]) \/ Consistent(outbox[b][q][i])'
    <3>1. outbox[a][r] \in Seq(ReportSet)
      BY <1>o
    <3>2. outbox'[b][q] = IF b = a /\ q = r THEN Append(outbox[a][r], new) ELSE outbox[b][q]
      BY <1>o, <2>2
    <3>3. CASE ~(b = a /\ q = r)
      <4>1. outbox'[b][q] = outbox[b][q]
        BY <3>2, <3>3
      <4> QED
        BY <1>s, <2>11, <4>1 DEF Told
    <3>4. CASE b = a /\ q = r
      <4>1. outbox'[b][q] = Append(outbox[a][r], new)
        BY <3>2, <3>4
      <4>2. \/ i \in 1..Len(outbox[a][r]) /\ outbox'[b][q][i] = outbox[a][r][i]
            \/ outbox'[b][q][i] = new
        BY <2>7, <2>11, <3>1, <4>1, AppendCases
      <4>3. CASE i \in 1..Len(outbox[a][r]) /\ outbox'[b][q][i] = outbox[a][r][i]
        BY <1>s, <4>3 DEF Told
      <4>4. CASE outbox'[b][q][i] = new
        <5>1. PICK p \in ReportSet : p = new
          BY <2>7
        <5>2. Consistent(p)'
          BY <2>n, <2>8, <5>1
        <5> QED
          BY <4>4, <5>1, <5>2 DEF Consistent
      <4> QED
        BY <4>2, <4>3, <4>4
    <3> QED
      BY <3>3, <3>4
  <2>12. ASSUME NEW q \in Runs, result'[q] # result[q], NEW i \in 1..Len(result'[q])
         PROVE  claim'[q] \in Tokens /\ Consistent(Recorded(q, i))'
    <3>1. q = r /\ result'[q] = <<started, verdict[r]>>
      BY <1>0, <2>2, <2>12 DEF RunnerTypeOK
    <3>2. i \in {1, 2} /\ result'[q][i] = IF i = 1 THEN started ELSE verdict[r]
      BY <2>12, <3>1
    <3>a. PICK e \in RunEvents : e = result'[q][i]
      BY <2>6, <3>2
    <3>b. i \in 1..2
      BY <3>2
    <3>3. PICK p \in ReportSet : p = Report(r, t, i, e)
      BY <2>1, <3>b DEF Report, ReportSet
    <3>4. p.run = r /\ p.token = t /\ p.seq = i /\ p.event = IF i = 1 THEN started ELSE verdict[r]
      BY <3>2, <3>a, <3>3 DEF Report
    <3>5. Recorded(q, i)' = p
      BY <2>1, <2>2, <3>1, <3>a, <3>3 DEF Recorded
    <3>6. Consistent(p)'
      BY <2>8, <2>9, <3>2, <3>4
    <3> QED
      BY <2>1, <2>2, <3>1, <3>5, <3>6 DEF Consistent
  <2>13. Told'
    BY <1>0, <2>2, <2>10, <2>11, <2>12, ToldStays
  <2>14. Supervision'
    BY <2>2, <2>3 DEF StoryInv, Supervision
  <2> QED
    BY <1>0, <2>13, <2>14 DEF StoryInv
<1>8. ASSUME NEW a \in Agents, AgentStops(a) PROVE StoryInv'
  <2>1. /\ UNCHANGED <<claim, result, proc, launches, sent>>
        /\ \A b \in Agents : job'[b] = job[b] \/ job'[b].stage # "claimed"
        /\ \A b \in Agents, q \in Runs : active'[b][q] = IF b = a THEN None ELSE active[b][q]
        /\ \A q \in Runs : verdict'[q] = IF active[a][q] # None THEN NoVerdict ELSE verdict[q]
    BY <1>0, <1>8 DEF AgentStops, RunnerTypeOK, NoJob
  <2>2. \A b \in Agents, q \in Runs : outbox'[b][q] = IF b = a THEN <<>> ELSE outbox[b][q]
    BY <1>0, <1>8 DEF AgentStops, RunnerTypeOK
  <2>3. \A p \in ReportSet : Consistent(p) => Settled(p)
    BY <1>p, <2>1 DEF Settled, Consistent
  <2>4. ASSUME NEW b \in Agents, NEW q \in Runs, NEW i \in 1..Len(outbox'[b][q])
        PROVE  Consistent(outbox'[b][q][i])
    BY <2>2, <2>4 DEF StoryInv, Told
  <2>5. Told'
    BY <1>0, <2>1, <2>3, <2>4, ToldStays
  <2>6. Supervision'
    <3>1. \A b \in Agents : job'[b].stage = "claimed" => claim'[job'[b].run] = job'[b].token
      BY <1>s, <2>1 DEF Supervision
    <3>2. /\ \A b \in Agents, q \in Runs : active'[b][q] # None => active'[b][q] = claim'[q] /\ launches'[q] # 0
          /\ \A b, c \in Agents, q \in Runs : active'[b][q] # None /\ active'[c][q] # None => b = c
      BY <1>s, <2>1 DEF Supervision
    <3>3. \A q \in Runs : verdict'[q].type = "succeeded" => proc'[q] = "exited"
      BY <1>s, <2>1 DEF Supervision, NoVerdict
    <3>4. \A q \in Runs : proc'[q] # "none" => launches'[q] # 0
      BY <1>s, <2>1 DEF Supervision
    <3> QED
      BY <3>1, <3>2, <3>3, <3>4 DEF Supervision
  <2> QED
    BY <1>0, <2>5, <2>6 DEF StoryInv
<1>9. ASSUME NEW a \in Agents, NEW r \in Runs, forwardEvents(a, r) PROVE StoryInv'
  <2>1. UNCHANGED <<job, active, claim, result, proc, launches, verdict>>
    BY <1>9 DEF forwardEvents
  <2>2. outbox[a][r] \in Seq(ReportSet) /\ outbox[a][r] # <<>> /\ Len(outbox[a][r]) \in Nat
    BY <1>o, <1>9 DEF forwardEvents
  <2>3. sent' = sent \cup {outbox[a][r][1]} /\ 1 \in 1..Len(outbox[a][r])
    BY <1>9, <2>2 DEF forwardEvents
  <2>4. \A p \in sent' : p \in sent \/ Consistent(p)
    BY <2>3 DEF StoryInv, Told
  <2>5. ASSUME NEW b \in Agents, NEW q \in Runs, NEW i \in 1..Len(outbox'[b][q])
        PROVE  Consistent(outbox'[b][q][i])
    <3>1. outbox'[b][q] = IF b = a /\ q = r THEN Tail(outbox[a][r]) ELSE outbox[b][q]
      BY <1>o, <1>9 DEF forwardEvents
    <3>2. CASE b = a /\ q = r
      <4>1. outbox'[b][q][i] = outbox[a][r][i + 1] /\ i + 1 \in 1..Len(outbox[a][r])
        BY <2>2, <2>5, <3>1, <3>2
      <4> QED
        BY <4>1 DEF StoryInv, Told
    <3>3. CASE ~(b = a /\ q = r)
      BY <2>5, <3>1, <3>3 DEF StoryInv, Told
    <3> QED
      BY <3>2, <3>3
  <2>6. \A p \in ReportSet : Consistent(p) => Settled(p)
    BY <2>1 DEF Settled
  <2>7. Told'
    BY <1>0, <2>1, <2>4, <2>5, <2>6, ToldStays
  <2>8. Supervision'
    BY <2>1 DEF StoryInv, Supervision
  <2> QED
    BY <1>0, <2>7, <2>8 DEF StoryInv
<1>10. ASSUME NEW a \in Agents, NEW r \in Runs, WaitReturns(a, r) PROVE StoryInv'
  <2>1. \A q \in Runs : q # r => verdict'[q] = verdict[q]
    BY <1>0, <1>10 DEF WaitReturns, RunnerTypeOK
  <2>2. verdict'[r].type = "succeeded" => proc[r] = "exited"
    BY <1>0, <1>10 DEF WaitReturns, RunnerTypeOK, Event
  <2>3. UNCHANGED <<claim, launches, outbox, result, sent, job, active, proc>> /\ active[a][r] # None
    BY <1>10 DEF WaitReturns
  <2> QED
    BY <1>0, <2>1, <2>2, <2>3, StoryUntouched DEF StoryInv, Supervision
<1>11. ASSUME NEW a \in Agents, NEW r \in Runs, ControlFails(a, r) PROVE StoryInv'
  <2>1. \A q \in Runs : q # r => verdict'[q] = verdict[q]
    BY <1>0, <1>11 DEF ControlFails, RunnerTypeOK
  <2>2. verdict'[r].type = "failed"
    BY <1>0, <1>11 DEF ControlFails, RunnerTypeOK, Event
  <2>3. UNCHANGED <<claim, launches, outbox, result, sent, job, active, proc>> /\ active[a][r] # None
    BY <1>11 DEF ControlFails
  <2> QED
    BY <1>0, <2>1, <2>2, <2>3, StoryUntouched DEF StoryInv, Supervision
<1>12. ASSUME NEW a \in Agents, NEW r \in Runs, NEW type \in {"timed_out", "cancelled"}, stopProcess(a, r, type)
       PROVE  StoryInv'
  <2>1. \A q \in Runs : q # r => verdict'[q] = verdict[q] /\ proc'[q] = proc[q]
    BY <1>0, <1>12 DEF stopProcess, RunnerTypeOK
  <2>2. verdict'[r].type # "succeeded" /\ (proc'[r] # "none" => proc[r] # "none")
    BY <1>0, <1>12 DEF stopProcess, RunnerTypeOK, Event
  <2>3. UNCHANGED <<claim, launches, outbox, result, sent, job, active>> /\ active[a][r] # None
    BY <1>12 DEF stopProcess
  <2> QED
    BY <1>0, <2>1, <2>2, <2>3, StoryUntouched DEF StoryInv, Supervision
<1>13. ASSUME NEW r \in Runs, ProcessExits(r) \/ UnitStops(r) PROVE StoryInv'
  <2>1. /\ UNCHANGED <<claim, launches, outbox, result, sent, job, active, verdict>>
        /\ \A q \in Runs : proc'[q] = proc[q] \/ proc[q] = "live"
    BY <1>0, <1>13 DEF ProcessExits, UnitStops, RunnerTypeOK
  <2> QED
    BY <1>0, <2>1, StoryUntouched DEF StoryInv, Supervision
<1>14. ASSUME NEW a \in Agents, NEW r \in Runs, NEW t \in Tokens, Cancel(a, r, t) PROVE StoryInv'
  BY <1>8, <1>12, <1>14 DEF Cancel
<1>15. ASSUME NEW a \in Agents, AgentFails(a) \/ AgentStarts(a) PROVE StoryInv'
  <2>1. CASE AgentStarts(a)
    BY <1>0, <2>1, StoryUntouched DEF AgentStarts, StoryInv, Supervision
  <2> QED
    BY <1>8, <1>15, <2>1 DEF AgentFails
<1>16. CASE UNCHANGED runnerVars
  BY <1>0, <1>16, StoryUntouched DEF runnerVars, StoryInv, Supervision
<1> QED
  BY <1>1, <1>2, <1>3, <1>5, <1>6, <1>7, <1>9, <1>10, <1>11, <1>12, <1>13, <1>14, <1>15, <1>16 DEF RunnerNext

\* At the start nothing is told.
LEMMA StoryInit == RunnerInit => StoryInv
<1> SUFFICES ASSUME RunnerInit PROVE StoryInv
  OBVIOUS
<1>1. NoVerdict \in RunEvents
  BY EventTyped DEF NoVerdict, EventTypes, Event
<1>2. LaunchInv
  <2>1. RunnerTypeOK
    BY <1>1, BoundsAssumption DEF RunnerInit, RunnerTypeOK
  <2> QED
    BY <2>1 DEF RunnerInit, LaunchInv, AtMostOneLaunch, NoJob
<1>3. Told
  BY DEF RunnerInit, Told
<1>4. Supervision
  BY DEF RunnerInit, Supervision, NoJob, NoVerdict
<1> QED
  BY <1>2, <1>3, <1>4 DEF StoryInv

\* All events of an execution, live or replayed after any number of restarts, have one content per sequence number
\* and appear only under the token that claimed the run (replay, saveExecution).
THEOREM OneStoryHolds == RunnerSpec => []OneStory
<1>1. StoryInv => OneStory
  <2> SUFFICES ASSUME StoryInv, NEW p \in sent, p.event.detail # "rejected",
                      NEW q \in sent, q.event.detail # "rejected", q.run = p.run, q.seq = p.seq
               PROVE  claim[p.run] = p.token /\ q = p
    BY DEF OneStory
  <2>1. p \in ReportSet /\ q \in ReportSet
    BY DEF StoryInv, LaunchInv, RunnerTypeOK
  <2>2. ~Rejected(p) /\ ~Rejected(q)
    BY DEF Rejected, Event
  <2>3. Consistent(p) /\ Consistent(q)
    BY <2>2 DEF StoryInv, Told
  <2>4. p.seq \in {1, 2}
    BY <2>1 DEF ReportSet
  <2>5. p.token = q.token /\ p.event = q.event
    BY <2>3, <2>4 DEF Consistent
  <2>6. claim[p.run] = p.token
    BY <2>3 DEF Consistent
  <2>7. q = p
    BY <2>1, <2>5 DEF ReportSet
  <2> QED
    BY <2>6, <2>7
<1> QED
  BY <1>1, StoryInit, StoryStep, PTL DEF RunnerSpec

\* A success is reported only for a script that ended with exit code zero, not for one the agent stopped, lost or
\* never launched (supervise, systemd Wait).
THEOREM SuccessIsRealHolds == RunnerSpec => []SuccessIsReal
<1>1. StoryInv => SuccessIsReal
  <2> SUFFICES ASSUME StoryInv, NEW p \in sent, p.event.type = "succeeded" PROVE proc[p.run] = "exited"
    BY DEF SuccessIsReal
  <2>1. p \in ReportSet
    BY DEF StoryInv, LaunchInv, RunnerTypeOK
  <2>2. p.run \in Runs /\ p.seq \in {1, 2}
    BY <2>1 DEF ReportSet
  <2>3. Consistent(p)
    BY DEF StoryInv, Told, Rejected, Event
  <2>4. p.event = verdict[p.run]
    BY <2>2, <2>3 DEF Consistent, Event
  <2> QED
    BY <2>2, <2>4 DEF StoryInv, Supervision
<1> QED
  BY <1>1, StoryInit, StoryStep, PTL DEF RunnerSpec

=============================================================================
