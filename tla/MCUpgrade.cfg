SPECIFICATION BothSpec
CONSTANTS
    NumTargets = 2
    BatchSize = 1
    UpgradeFaults = {"drop", "restart", "tasks"}
    MaxDisturbances = 1
    MaxMessages = 2
    NumFiles = 2
    UpdateFaults = {"copy", "systemctl", "crash", "reboot"}
    MaxUpdateFaults = 1
CHECK_DEADLOCK FALSE

    
    
PROPERTIES
    
    InstallIsSettled
