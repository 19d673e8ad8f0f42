SPECIFICATION LiveRunnerSpec
CONSTANTS
    r1 = r1
    r2 = r2
    t1 = t1
    t2 = t2
    a1 = a1
    a2 = a2
    None = None
    Runs = {r1}
    Servers = {}
    Tokens = {t1, t2}
    Details = {"run", "launch", "rejected", "control"}
    Agents = {a1, a2}
    Faults = {"record", "reject", "control"}
    MaxRestarts = 2
    MaxBacklog = 1
CHECK_DEADLOCK FALSE
INVARIANTS
    AtMostOneLaunch
    OneStory
PROPERTIES
    SupervisedIsReported
