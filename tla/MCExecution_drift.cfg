SPECIFICATION Spec
CONSTANTS
    r1 = r1
    r2 = r2
    s1 = s1
    t1 = t1
    t2 = t2
    d1 = d1
    None = None
    Runs = {r1, r2}
    Servers = {s1}
    Agents = {s1}
    Tokens = {t1, t2}
    Details = {"run", "launch", "rejected", "control", "dispatch"}
    Definitions = {d1}
    Idempotent = {d1}
    MaxConcurrency = 1
    MaxRetries = 1
    MaxEvents = 2
    Faults = {"drift"}
    MaxRestarts = 0
    MaxBacklog = 1
    MaxQueue = 2
SYMMETRY Symmetry
CHECK_DEADLOCK FALSE
INVARIANTS
    OneLiveAttempt
