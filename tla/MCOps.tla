-------------------------------- MODULE MCOps --------------------------------
(* The work of the operations process: backups with their verification,    *)
(* and the notices of alerts.  They share no state, and a behaviour is of  *)
(* one of them.                                                            *)
EXTENDS Backups, Notifications, TLC

VARIABLE part

\* Backups: a cut, a fault and an old snapshot; a cut and writes; writes and damage.
Budget(cuts, faults, writes, damage, days) ==
    [x \in Resources |-> CASE x = "cuts" -> cuts [] x = "faults" -> faults [] x = "writes" -> writes
                           [] x = "damage" -> damage [] OTHER -> days]

MCBackupBudgets == {Budget(1, 1, 0, 0, 1), Budget(1, 0, 2, 0, 0), Budget(0, 0, 2, 1, 0)}

\* Notices: two changes of the configuration, one and two mishaps, or four mishaps.
MCNotifyBudgets ==
    {[updates |-> {"u1", "u2"}, mishaps |-> 0], [updates |-> {"u1"}, mishaps |-> 2], [updates |-> {}, mishaps |-> 4]}

allVars == <<part, backupVars, notifyVars>>

OpsInit ==
    /\ part \in {"backup", "notice"} /\ BackupInit /\ NotifyInit
    /\ part # "backup" => allow = Budget(0, 0, 2, 1, 0)
    /\ part # "notice" => ~config.enabled /\ spare.updates = {}

OpsNext ==
    \/ part = "backup" /\ BackupNext /\ UNCHANGED <<part, notifyVars>>
    \/ part = "notice" /\ NotifyNext /\ UNCHANGED <<part, backupVars>>

\* The fairness of BackupSpec and of NotifySpec.
OpsFairness ==
    /\ WF_backupVars(part = "backup" /\ Work)
    /\ \A r \in Runs : SF_backupVars(part = "backup" /\ ClaimBackup(r))
    /\ \A c \in Checks : SF_backupVars(part = "backup" /\ ClaimVerification(c))
    /\ \A s \in Senders : WF_notifyVars(part = "notice" /\ Deliver(s))
    /\ \A m \in Messages : WF_notifyVars(part = "notice" /\ FallsDue(m))

OpsSpec == OpsInit /\ [][OpsNext]_allVars /\ OpsFairness
=============================================================================
