----------------------------- MODULE Schedules -----------------------------
(***************************************************************************)
(* Task definitions and their cron schedules (internal/task: service.go,   *)
(* schedule.go, parameter_validation.go).  Every API process reads the due *)
(* schedules and then triggers them one by one, each in a transaction of   *)
(* its own that locks the definition and the schedule; people edit both in *)
(* between.  Time is counted in minutes of a small calendar.               *)
(***************************************************************************)
EXTENDS Integers, Sequences, SequencesExt, FiniteSetsExt

CONSTANTS
    Scanners,       \* processes that run ScheduleDue
    ScheduleIDs,    \* schedules of the definition, in the order of their ids
    Expressions,    \* cron expressions people use
    MinutesPerHour, HoursPerDay, DaysPerMonth, MonthsPerYear, DaysPerWeek,
    Horizon,        \* how far ahead nextCronTime looks
    MaxClock,       \* bound: minutes
    MaxEdits        \* bound: requests of people and aborted scans

ASSUME SchedulesAssumption ==
    /\ {MinutesPerHour, HoursPerDay, DaysPerMonth, MonthsPerYear, DaysPerWeek} \subseteq Nat \ {0}
    /\ ScheduleIDs \subseteq Nat /\ Horizon \in Nat /\ MaxClock \in Nat /\ MaxEdits \in Nat

VARIABLES
    clock,
    definition,     \* present, enabled, pinned version, whether the required parameter is given
    scriptVersions, \* of the script, oldest first: whether each requires the parameter
    schedules,      \* by id: present, expression, enabled, next_run_at, updated_at
    scheduledRuns,  \* scheduled runs by fire time: version, still queued
    manual,         \* whether a manual run exists
    scanners,       \* by process: the due schedules read and not yet triggered
    edits,          \* requests made
    since           \* by id: when the schedule was last edited (history)

scheduleVars == <<clock, definition, scriptVersions, schedules, scheduledRuns, manual, scanners, edits, since>>

-----------------------------------------------------------------------------
(* Cron.  A field is a sequence of parts: all of the range, a sub-range or *)
(* one value, each with a step (0 when none is written).                   *)

All == [base |-> "all", start |-> 0, end |-> 0, step |-> 0]

parseCronField(parts, minimum, maximum, normalizeSunday) ==
    LET step(p) == IF p.step = 0 THEN 1 ELSE p.step
        start(p) == IF p.base = "all" THEN minimum ELSE p.start
        end(p) == IF p.base = "all" THEN maximum ELSE IF p.base = "one" THEN p.start ELSE p.end
        valid(p) == /\ p.base = "one" => step(p) = 1
                    /\ minimum <= start(p) /\ start(p) <= end(p) /\ end(p) <= maximum
        items(p) == {i \in start(p)..end(p) : (i - start(p)) % step(p) = 0}
    IN  [ok |-> parts # <<>> /\ \A p \in Range(parts) : valid(p),
         selected |-> {IF normalizeSunday /\ i = maximum THEN 0 ELSE i : i \in UNION {items(p) : p \in Range(parts)}},
         wildcard |-> parts = <<All>>]

parseCron(e) ==
    [minute |-> parseCronField(e.minute, 0, MinutesPerHour - 1, FALSE),
     hour |-> parseCronField(e.hour, 0, HoursPerDay - 1, FALSE),
     day |-> parseCronField(e.day, 1, DaysPerMonth, FALSE),
     month |-> parseCronField(e.month, 1, MonthsPerYear, FALSE),
     weekday |-> parseCronField(e.weekday, 0, DaysPerWeek, TRUE)]

ValidateCron(e) == LET spec == parseCron(e) IN \A field \in DOMAIN spec : spec[field].ok

DayNumber(t) == t \div (MinutesPerHour * HoursPerDay)

CalendarMatches(spec, t) ==
    LET day == (1 + (DayNumber(t) % DaysPerMonth)) \in spec.day.selected
        weekday == DayNumber(t) % DaysPerWeek \in spec.weekday.selected
    IN  IF spec.day.wildcard /\ spec.weekday.wildcard THEN TRUE
        ELSE IF spec.day.wildcard THEN weekday
        ELSE IF spec.weekday.wildcard THEN day
        ELSE day \/ weekday

Matches(e, t) ==
    LET spec == parseCron(e)
    IN  /\ t % MinutesPerHour \in spec.minute.selected
        /\ (t \div MinutesPerHour) % HoursPerDay \in spec.hour.selected
        /\ (1 + ((DayNumber(t) \div DaysPerMonth) % MonthsPerYear)) \in spec.month.selected
        /\ CalendarMatches(spec, t)

\* The minutes that matter here at which an expression matches.
MatchTimes == [e \in Expressions |-> {t \in 1..(MaxClock + Horizon) : Matches(e, t)}]

\* No time: the search gives up at its horizon.
Never == 0

\* The first matching minute after the given one.
nextCronTime(e, after) ==
    LET hits == MatchTimes[e] \cap ((after + 1)..(after + Horizon)) IN IF hits = {} THEN Never ELSE Min(hits)

-----------------------------------------------------------------------------
NoSchedule == [present |-> FALSE, expression |-> CHOOSE e \in Expressions : TRUE, enabled |-> FALSE,
               next |-> Never, updated |-> 0]

\* The version policy: pinned to a version, or the latest.
Latest == 0

SchedulesInit ==
    /\ clock = 1
    /\ definition = [present |-> TRUE, enabled |-> TRUE, pinned |-> Latest, given |-> FALSE]
    /\ scriptVersions = <<FALSE>>
    /\ schedules = [s \in ScheduleIDs |-> NoSchedule]
    /\ scheduledRuns = <<>> /\ manual = FALSE
    /\ scanners = [p \in Scanners |-> <<>>]
    /\ edits = 0 /\ since = [s \in ScheduleIDs |-> 0]

Edit == edits < MaxEdits /\ edits' = edits + 1

\* CreateSchedule and UpdateSchedule store the next time after now.
SaveSchedule(s, e, enabled) ==
    /\ Edit /\ ValidateCron(e) /\ nextCronTime(e, clock) # Never
    /\ schedules' = [schedules EXCEPT ![s] = [present |-> TRUE, expression |-> e, enabled |-> enabled,
                                              next |-> nextCronTime(e, clock), updated |-> @.updated + 1]]
    /\ since' = [since EXCEPT ![s] = clock]
    /\ UNCHANGED <<clock, definition, scriptVersions, scheduledRuns, manual, scanners>>

CreateSchedule(s, e, enabled) == ~schedules[s].present /\ definition.present /\ SaveSchedule(s, e, enabled)

UpdateSchedule(s, e, enabled) == schedules[s].present /\ SaveSchedule(s, e, enabled)

DeleteSchedule(s) ==
    /\ Edit /\ schedules[s].present
    /\ schedules' = [schedules EXCEPT ![s] = [NoSchedule EXCEPT !.updated = schedules[s].updated + 1]]
    /\ UNCHANGED <<clock, definition, scriptVersions, scheduledRuns, manual, scanners, since>>

-----------------------------------------------------------------------------
(* Definitions.                                                            *)

validateReferences(pinned) == pinned = Latest \/ pinned \in DOMAIN scriptVersions

CreateDefinition(pinned, enabled, given) ==
    /\ Edit /\ ~definition.present /\ validateReferences(pinned)
    /\ definition' = [present |-> TRUE, enabled |-> enabled, pinned |-> pinned, given |-> given]
    /\ UNCHANGED <<clock, scriptVersions, schedules, scheduledRuns, manual, scanners, since>>

UpdateDefinition(pinned, enabled, given) ==
    /\ Edit /\ definition.present /\ validateReferences(pinned)
    /\ definition' = [present |-> TRUE, enabled |-> enabled, pinned |-> pinned, given |-> given]
    /\ UNCHANGED <<clock, scriptVersions, schedules, scheduledRuns, manual, scanners, since>>

\* Disabling may cancel the runs that wait.
SetEnabled(enabled, cancelQueued) ==
    /\ Edit /\ definition.present
    /\ definition' = [definition EXCEPT !.enabled = enabled]
    /\ scheduledRuns' = [t \in DOMAIN scheduledRuns |-> [scheduledRuns[t] EXCEPT !.queued = @ /\ ~(cancelQueued /\ ~enabled)]]
    /\ UNCHANGED <<clock, scriptVersions, schedules, manual, scanners, since>>

\* The database refuses to delete a definition that has runs; its schedules go with it.
Delete ==
    /\ Edit /\ definition.present /\ DOMAIN scheduledRuns = {} /\ ~manual
    /\ definition' = [definition EXCEPT !.present = FALSE]
    /\ schedules' = [s \in ScheduleIDs |-> IF schedules[s].present THEN [NoSchedule EXCEPT !.updated = schedules[s].updated + 1]
                                           ELSE schedules[s]]
    /\ UNCHANGED <<clock, scriptVersions, scheduledRuns, manual, scanners, since>>

\* A new version of the script is published.
PublishVersion(required) ==
    /\ Edit /\ scriptVersions' = Append(scriptVersions, required)
    /\ UNCHANGED <<clock, definition, schedules, scheduledRuns, manual, scanners, since>>

VersionFor == IF definition.pinned = Latest THEN Len(scriptVersions) ELSE definition.pinned

validateParameters(version, given) == scriptVersions[version] => given

\* A person triggers the definition and may give the parameter.
TriggerManually(given) ==
    /\ Edit /\ definition.present /\ definition.enabled /\ validateParameters(VersionFor, definition.given \/ given)
    /\ manual' = TRUE
    /\ UNCHANGED <<clock, definition, scriptVersions, schedules, scheduledRuns, scanners, since>>

-----------------------------------------------------------------------------
(* The scan of an API process.                                             *)

Due(s) ==
    /\ schedules[s].present /\ schedules[s].enabled /\ definition.present /\ definition.enabled
    /\ schedules[s].next # Never /\ schedules[s].next <= clock

\* ScheduleDue reads the due schedules, oldest first.
ScheduleDue(p) ==
    LET before(s, u) == \/ schedules[s].next < schedules[u].next
                        \/ schedules[s].next = schedules[u].next /\ s < u
        order == SetToSortSeq({s \in ScheduleIDs : Due(s)}, before)
    IN  /\ scanners[p] = <<>> /\ order # <<>>
        /\ scanners' = [scanners EXCEPT ![p] = [i \in DOMAIN order |-> [id |-> order[i], row |-> schedules[order[i]]]]]
        /\ UNCHANGED <<clock, definition, scriptVersions, schedules, scheduledRuns, manual, edits, since>>

\* Mutant: the lock does not look at when the schedule was updated.
lockDueSchedule_Stale(item) == schedules[item.id].present

\* Mutant: a schedule is triggered only in its own minute.
lockDueSchedule_OnTime(item) == schedules[item.id] = item.row /\ item.row.next = clock

\* Whether the schedule is still the one that was read.
lockDueSchedule(item) == schedules[item.id] = item.row

\* The schedule goes on to the first time after the one it was due at.
advanceDueSchedule(item) == nextCronTime(item.row.expression, item.row.next)

\* trigger of the first schedule read, or nothing when it changed, cannot go on or
\* its run would lack the parameter.
Trigger(p) ==
    LET item == Head(scanners[p])
        fire == item.row.next
        ready == /\ definition.present /\ definition.enabled /\ lockDueSchedule(item)
                 /\ nextCronTime(item.row.expression, fire) # Never
                 /\ validateParameters(VersionFor, definition.given)
    IN  /\ scanners[p] # <<>>
        /\ scanners' = [scanners EXCEPT ![p] = Tail(@)]
        /\ IF ready
           THEN /\ schedules' = [schedules EXCEPT ![item.id].next = advanceDueSchedule(item), ![item.id].updated = @ + 1]
                /\ scheduledRuns' = [t \in DOMAIN scheduledRuns \cup {fire} |->
                      IF t \in DOMAIN scheduledRuns THEN scheduledRuns[t] ELSE [version |-> VersionFor, queued |-> TRUE]]
           ELSE UNCHANGED <<schedules, scheduledRuns>>
        /\ UNCHANGED <<clock, definition, scriptVersions, manual, edits, since>>

\* The scan runs out of time or its process stops.
ScanAborts(p) ==
    /\ Edit /\ scanners[p] # <<>>
    /\ scanners' = [scanners EXCEPT ![p] = <<>>]
    /\ UNCHANGED <<clock, definition, scriptVersions, schedules, scheduledRuns, manual, since>>

Tick ==
    /\ clock < MaxClock /\ clock' = clock + 1
    /\ UNCHANGED <<definition, scriptVersions, schedules, scheduledRuns, manual, scanners, edits, since>>

-----------------------------------------------------------------------------
SchedulesNext ==
    \/ \E s \in ScheduleIDs, e \in Expressions, enabled \in BOOLEAN :
          CreateSchedule(s, e, enabled) \/ UpdateSchedule(s, e, enabled)
    \/ \E s \in ScheduleIDs : DeleteSchedule(s)
    \/ \E pinned \in 0..Len(scriptVersions), enabled, given \in BOOLEAN :
          CreateDefinition(pinned, enabled, given) \/ UpdateDefinition(pinned, enabled, given)
    \/ \E enabled, cancelQueued \in BOOLEAN : SetEnabled(enabled, cancelQueued)
    \/ \E required \in BOOLEAN : PublishVersion(required)
    \/ \E given \in BOOLEAN : TriggerManually(given)
    \/ \E p \in Scanners : ScheduleDue(p) \/ Trigger(p) \/ ScanAborts(p)
    \/ Delete \/ Tick

\* The loops of the API processes run on.
SchedulesFairness == \A p \in Scanners : WF_scheduleVars(ScheduleDue(p)) /\ WF_scheduleVars(Trigger(p))

SchedulesSpec == SchedulesInit /\ [][SchedulesNext]_scheduleVars /\ SchedulesFairness

-----------------------------------------------------------------------------
(* Properties.                                                             *)

\* The schedules and the runs made for them are well formed.
SchedulesTypeOK ==
    /\ clock \in 1..MaxClock /\ edits \in 0..MaxEdits /\ manual \in BOOLEAN
    /\ definition \in [present : BOOLEAN, enabled : BOOLEAN, pinned : {Latest} \cup DOMAIN scriptVersions, given : BOOLEAN]
    /\ schedules \in [ScheduleIDs -> [present : BOOLEAN, expression : Expressions, enabled : BOOLEAN,
                                      next : 0..(MaxClock + Horizon), updated : Nat]]
    /\ DOMAIN scheduledRuns \subseteq 1..clock
    /\ scheduledRuns \in [DOMAIN scheduledRuns -> [version : DOMAIN scriptVersions, queued : BOOLEAN]]

\* No time is lost: every time a schedule matches, from its last edit to the time it
\* waits for now, has a run, however scans overlapped, were aborted or found the
\* definition disabled for a while.
NoFireIsLost ==
    \A s \in ScheduleIDs :
      schedules[s].present =>
        MatchTimes[schedules[s].expression] \cap ((since[s] + 1)..(schedules[s].next - 1)) \subseteq DOMAIN scheduledRuns

\* A run is created only for a time that an enabled schedule of an enabled definition
\* waits for at that moment, never for one that was edited, disabled or deleted after
\* the scan read it, and with the version the policy names then.
RunIsCurrent ==
    [][\A t \in DOMAIN scheduledRuns' \ DOMAIN scheduledRuns :
         /\ \E s \in ScheduleIDs : Due(s) /\ schedules[s].next = t
         /\ scheduledRuns'[t].version = VersionFor]_scheduleVars

\* Between edits a schedule only moves on, to a time it matches, and never past one:
\* overlapping scans cannot set it back or make it skip.
ScheduleMovesOn ==
    [][\A s \in ScheduleIDs :
         schedules[s].present /\ since'[s] = since[s] /\ edits' = edits /\ schedules'[s] # schedules[s] =>
           /\ schedules'[s].next > schedules[s].next
           /\ MatchTimes[schedules[s].expression] \cap ((schedules[s].next + 1)..schedules'[s].next)
                = {schedules'[s].next}]_scheduleVars

\* A schedule that is due is triggered, unless its definition, its version's
\* parameters or an edit prevent it.
DueIsTriggered ==
    \A s \in ScheduleIDs : []<>(Due(s) => ~validateParameters(VersionFor, definition.given))

\* Fires are exact: none is lost, none is of an outdated schedule or version, and a
\* schedule neither goes back nor skips, however scans overlap.
FiresAreExact == [](SchedulesTypeOK /\ NoFireIsLost) /\ RunIsCurrent /\ ScheduleMovesOn
=============================================================================
