SPECIFICATION RunSpec
CONSTANTS
    r1 = r1
    r2 = r2
    r3 = r3
    s1 = s1
    t1 = t1
    t2 = t2
    d1 = d1
    x1 = x1
    None = None
    Runs = {r1, r2, r3}
    Servers = {s1}
    Tokens = {t1, t2}
    Details = {x1}
    Definitions = {d1}
    Idempotent = {d1}
    MaxConcurrency = 1
    MaxRetries = 2
    MaxEvents = 2
SYMMETRY Symmetry
CHECK_DEADLOCK FALSE
INVARIANTS
    LineageLinear
PROPERTIES
    RetryOnlyFromLastSettledAttempt
    AssignKeepsLimit
    ContractHolds
