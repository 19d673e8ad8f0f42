SPECIFICATION EdgesSpec
CONSTANTS
    Scanners = {p1, p2}
    ScheduleIDs = {1, 2}
    Expressions <- MCExpressions
    MinutesPerHour = 2
    HoursPerDay = 1
    DaysPerMonth = 2
    MonthsPerYear = 1
    DaysPerWeek = 3
    Horizon = 12
    MaxClock = 3
    MaxEdits = 3
    SystemStream = 3
    ProgramStreams = {2}
    MaxBytes = 2
    Threshold = 1
    LogBudgets <- MCLogBudgets
CHECK_DEADLOCK FALSE
PROPERTIES
    FiresAreExact
    DueIsTriggered
    LogIsKept
    LogsArrive
