SPECIFICATION Spec
CONSTANTS
    r1 = r1
    r2 = r2
    s1 = s1
    t1 = t1
    t2 = t2
    d1 = d1
    None = None
    Runs = {r1}
    Servers = {s1}
    Agents = {s1}
    Tokens = {t1}
    Details = {"run", "launch", "rejected", "control", "dispatch"}
    Definitions = {d1}
    Idempotent = {d1}
    MaxConcurrency = 1
    MaxRetries = 1
    MaxEvents = 2
    Faults = {"record", "probe", "linger"}
    MaxRestarts = 2
    MaxBacklog = 1
    MaxQueue = 2
CHECK_DEADLOCK FALSE
INVARIANTS
    ReportsAreTrue
    NoEventIsRefused
