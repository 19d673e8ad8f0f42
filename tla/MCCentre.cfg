SPECIFICATION CentreSpec
CONSTANTS
    c1 = c1
    c2 = c2
    c3 = c3
    NumTargets = 2
    BatchSize = 1
    UpgradeFaults = {"stale", "drop", "restart", "gone", "overdue", "manual", "tasks", "hasty"}
    MaxDisturbances = 2
    MaxMessages = 1
    Names = {"x", "y", "z"}
    AllowedNames = {"x", "y"}
    FileVersions <- MCFileVersions
    MaxFileBytes = 2
    MaxTotalBytes = 3
    MaxArtifactFiles = 2
    MaxTroubles = 3
    Candidates <- MCCandidates
    NewTree <- MCNewTree
    ReleaseBudgets <- MCReleaseBudgets
CHECK_DEADLOCK FALSE
INVARIANTS
    UpgradeIsSound
    QuotaKept
    
    SchemaIsReady
PROPERTIES
    IndexIsTrue
