SPECIFICATION ServersSpec
CONSTANTS
    Hosts = {h1}
    Enrolments = {e1}
    Credentials = {c1, c2}
    Connections = {k1, k2}
    Admins = {a1}
    MaxSequence = 2
    RegistryBudgets <- MCRegistryBudgets
    Editors = {1, 2}
    Contents = {x1}
    MaxVersions = 2
    SyncFailureLimit = 2
    Budgets <- MCBudgets
    AlertBudgets <- MCAlertBudgets
CHECK_DEADLOCK FALSE
INVARIANTS
    DisabledIsCutOff
PROPERTIES
    RegistryIsSound
    OfflineIsNoticed
    LibraryIsSound
    CopiesConverge
    AlertsAreJustified
    AlertsConverge
