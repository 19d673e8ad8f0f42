----------------------------- MODULE MCRunEdges -----------------------------
(* Where runs come from and what they leave behind: the schedules of task  *)
(* definitions, and the output of a run.  They share no state, and a       *)
(* behaviour is of one of them.                                            *)
EXTENDS Schedules, LogStream, TLC

VARIABLE part

\* Expressions: every minute; and in every second minute of the second day of a month
\* or of the third day of a week (hours of two minutes, days of one hour).
One(n) == [base |-> "one", start |-> n, end |-> n, step |-> 0]
Sub(a, b, s) == [base |-> "range", start |-> a, end |-> b, step |-> s]
Every(s) == [All EXCEPT !.step = s]

Expression(minute, day, weekday) ==
    [minute |-> minute, hour |-> <<All>>, day |-> day, month |-> <<All>>, weekday |-> weekday]

MCExpressions ==
    {Expression(<<All>>, <<All>>, <<All>>),
     Expression(<<Every(2)>>, <<Sub(2, 2, 0)>>, <<One(3)>>)}

\* Output: two API processes and one trouble, one process and two troubles, none and
\* more output than fits, or one chunk that may hold a secret.
MCLogBudgets ==
    {[chunks |-> 2, troubles |-> 1, contents |-> {"plain"}, processes |-> 2],
     [chunks |-> 2, troubles |-> 2, contents |-> {"plain"}, processes |-> 1],
     [chunks |-> 3, troubles |-> 0, contents |-> {"plain"}, processes |-> 1],
     [chunks |-> 1, troubles |-> 2, contents |-> {"plain", "first"}, processes |-> 2]}

allVars == <<part, scheduleVars, logVars>>

EdgesInit ==
    /\ part \in {"schedules", "log"} /\ SchedulesInit /\ LogInit
    /\ part # "log" => budget.chunks = 3

EdgesNext ==
    \/ part = "schedules" /\ SchedulesNext /\ UNCHANGED <<part, logVars>>
    \/ part = "log" /\ LogNext /\ UNCHANGED <<part, scheduleVars>>

\* The fairness of SchedulesSpec and of LogSpec.
EdgesFairness ==
    /\ \A p \in Scanners :
         WF_scheduleVars(part = "schedules" /\ ScheduleDue(p)) /\ WF_scheduleVars(part = "schedules" /\ Trigger(p))
    /\ WF_logVars(part = "log" /\ Spooling) /\ WF_logVars(part = "log" /\ Client)
    /\ WF_logVars(part = "log" /\ ProgramEnds) /\ WF_logVars(part = "log" /\ RunFinishes)
    /\ WF_logVars(part = "log" /\ QuietPasses)
    /\ \A h \in Handlers : WF_logVars(part = "log" /\ Accepting(h))
    /\ \A w \in Workers : WF_logVars(part = "log" /\ Archiving(w))

EdgesSpec == EdgesInit /\ [][EdgesNext]_allVars /\ EdgesFairness
=============================================================================
