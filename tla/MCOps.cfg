SPECIFICATION OpsSpec
CONSTANTS
    Runs = {"b1", "b2"}
    Checks = {"v1"}
    BackupBudgets <- MCBackupBudgets
    Messages = {"m1", "m2"}
    Senders = {"s1", "s2"}
    Updates = {"u1", "u2"}
    MaxDeliveryAttempts = 2
    NotifyBudgets <- MCNotifyBudgets
CHECK_DEADLOCK FALSE
INVARIANTS
    NoticesAreTrue
PROPERTIES
    
    
    NoticeSettles
