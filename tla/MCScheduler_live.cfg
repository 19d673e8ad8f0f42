CONSTANTS
    r1 = r1
    r2 = r2
    r3 = r3
    Runs = {r1, r2}
    Servers = {s1}
    Tokens = {t1, t2}
    Details = {"first"}
    None = None
    Definitions = {d1}
    Idempotent = {d1}
    MaxConcurrency = 2
    MaxRetries = 1
    MaxEvents = 1
    Need <- MCNeed
    Capacity = 2
    Schedulers = {p1}
    SchedulerFaults = {"flush", "ambiguous", "overdue"}
    MaxAborts = 1
SPECIFICATION FairSpec
PROPERTIES
    ReservationsFollowLeases
    IntentIsConsumed
