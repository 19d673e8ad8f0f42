------------------------------- MODULE Backups -------------------------------
(***************************************************************************)
(* Backups and their verification (internal/backup).  One operations       *)
(* process claims a backup under a lease of thirty minutes, exports the    *)
(* database and the objects while the platform goes on writing, takes a    *)
(* local snapshot and copies it to COS; it restores a copy into a          *)
(* temporary database to verify it.  A claim's context ends before its     *)
(* lease, so a lease that ended has no worker any more.  The process may   *)
(* be restarted between any two steps, and every step may fail.            *)
(***************************************************************************)
EXTENDS Integers, FiniteSets

CONSTANTS
    Runs,           \* rows of backup_runs, by schedule slot or idempotency key
    Checks,         \* rows of restore_verifications
    BackupBudgets   \* bounds of one history: restarts and deadlines, failing steps, writes of the platform, damage to
                    \* stored packs and days that pass

Resources == {"cuts", "faults", "writes", "damage", "days"}

ASSUME BackupAssumption ==
    /\ BackupBudgets \subseteq [Resources -> Nat]
    /\ Runs \cap Checks = {} /\ "none" \notin Runs \cup Checks

VARIABLES
    platform,   \* schema version, object stored, object referenced by a row
    runs,       \* backup_runs: status, recorded local and COS snapshot
    checks,     \* restore_verifications: status, backup, attempts
    staging,    \* by run: the exported tree
    local, cos, \* restic repositories: snapshots with their run
    aged,       \* runs whose local snapshots are over seven days old
    worker,     \* stage and the row it works on
    restored,   \* verifications with files in their restore directory
    databases,  \* temporary databases, named anew by every attempt: [check, attempt]
    alarms,     \* codes raised and not resolved
    allow,      \* what remains of the budget
    killed      \* history: attempts at a verification that ended without cleanup

backupVars == <<platform, runs, checks, staging, local, cos, aged, worker, restored, databases, alarms, allow, killed>>

Active == {"exporting", "uploading"}
NoTree == [schema |-> 0, dump |-> 0, refers |-> FALSE, object |-> FALSE]
Idle == [stage |-> "idle", row |-> "none"]

\* The platform holds no object yet; nothing is backed up.
BackupInit ==
    /\ platform = [schema |-> 1, object |-> FALSE, refers |-> FALSE]
    /\ runs = [r \in Runs |-> [status |-> "none", local |-> FALSE, cos |-> FALSE]]
    /\ checks = [c \in Checks |-> [status |-> "none", run |-> "none", attempts |-> 0]]
    /\ staging = [r \in Runs |-> NoTree] /\ local = {} /\ cos = {} /\ aged = {} /\ worker = Idle
    /\ restored = {} /\ databases = {} /\ alarms = {} /\ allow \in BackupBudgets /\ killed = {}

Allow(resource) == allow[resource] > 0 /\ allow' = [allow EXCEPT ![resource] = @ - 1]
Steps(stage) == worker' = [worker EXCEPT !.stage = stage]
Free == worker' = Idle

-----------------------------------------------------------------------------
(* The platform meanwhile: a row refers to an object that was stored first *)
(* (RunArtifacts, LogStream, ScriptLibrary); migrations only go up.        *)

Writes ==
    /\ Allow("writes")
    /\ \/ ~platform.object /\ platform' = [platform EXCEPT !.object = TRUE]
       \/ platform.object /\ ~platform.refers /\ platform' = [platform EXCEPT !.refers = TRUE]
       \/ platform' = [platform EXCEPT !.schema = @ + 1]
    /\ UNCHANGED <<runs, checks, staging, local, cos, aged, worker, restored, databases, alarms, killed>>

\* Seven days pass for a run, if it is not the newest in the local repository.
DaysPass ==
    /\ Allow("days")
    /\ \E r \in Runs \ aged :
           /\ runs[r].local /\ \E s \in local : s.run # r
           /\ aged' = aged \cup {r}
    /\ UNCHANGED <<platform, runs, checks, staging, local, cos, worker, restored, databases, alarms, killed>>

\* A pack of a copy is damaged.
Damage ==
    /\ Allow("damage")
    /\ \E s \in cos : ~s.damaged /\ cos' = (cos \ {s}) \cup {[s EXCEPT !.damaged = TRUE]}
    /\ UNCHANGED <<platform, runs, checks, staging, local, aged, worker, restored, databases, alarms, killed>>

-----------------------------------------------------------------------------
(* Requests *)

RequestBackup(r) ==
    /\ runs[r].status = "none" /\ runs' = [runs EXCEPT ![r].status = "queued"]
    /\ UNCHANGED <<platform, checks, staging, local, cos, aged, worker, restored, databases, alarms, allow, killed>>

\* By hand for any backup; the monthly one for a backup that succeeded.
RequestVerification(c) ==
    /\ checks[c].status = "none"
    /\ \E r \in Runs : runs[r].status # "none" /\ checks' = [checks EXCEPT ![c] = [@ EXCEPT !.status = "queued", !.run = r]]
    /\ UNCHANGED <<platform, runs, staging, local, cos, aged, worker, restored, databases, alarms, allow, killed>>

-----------------------------------------------------------------------------
(* RunBackup *)

ActiveRuns == {r \in Runs : runs[r].status \in Active}

Claimable_NoTakeover(r) == runs[r].status \in {"queued", "degraded"} /\ ActiveRuns = {}

\* A run whose lease ended is taken over; it keeps the others out meanwhile (first in the order, unique index).
\* When its time has come (slot, retry, end of the lease) is left open: it may be claimed at any later moment.
Claimable(r) == runs[r].status \in Active \/ (runs[r].status \in {"queued", "degraded"} /\ ActiveRuns = {})

ClaimedStage_Copied(r) == IF runs[r].local THEN "copied" ELSE "space"
ClaimedStage(r) == IF runs[r].local THEN "copy" ELSE "space"

ClaimBackup(r) ==
    /\ worker = Idle /\ Claimable(r)
    /\ runs' = [runs EXCEPT ![r].status = IF runs[r].local THEN "uploading" ELSE "exporting"]
    /\ worker' = [stage |-> ClaimedStage(r), row |-> r]
    /\ UNCHANGED <<platform, checks, staging, local, cos, aged, restored, databases, alarms, allow, killed>>

\* latestSuccessfulBytes, availableBytes and HasEnoughSpace; then Export reads the schema version.
SpaceChecked ==
    /\ worker.stage = "space" /\ Steps("dump")
    /\ staging' = [staging EXCEPT ![worker.row].schema = platform.schema]
    /\ UNCHANGED <<platform, runs, checks, local, cos, aged, restored, databases, alarms, allow, killed>>

\* pg_dump: one state of the database.
Dump ==
    /\ worker.stage = "dump" /\ Steps("version")
    /\ staging' = [staging EXCEPT ![worker.row].dump = platform.schema, ![worker.row].refers = platform.refers]
    /\ UNCHANGED <<platform, runs, checks, local, cos, aged, restored, databases, alarms, allow, killed>>

Fails(r) ==
    /\ runs' = [runs EXCEPT ![r].status = "failed"]
    /\ alarms' = alarms \cup {"backup_failed"} /\ Free

VersionStable == staging[worker.row].schema = platform.schema

\* readMigrationVersion again
CheckVersion ==
    /\ worker.stage = "version"
    /\ IF VersionStable
       THEN Steps("mirror") /\ UNCHANGED <<runs, alarms>>
       ELSE Fails(worker.row)
    /\ UNCHANGED <<platform, checks, staging, local, cos, aged, restored, databases, allow, killed>>

\* mc mirror with --remove, and the manifest.
Mirror ==
    /\ worker.stage = "mirror" /\ Steps("snapshot")
    /\ staging' = [staging EXCEPT ![worker.row].object = platform.object]
    /\ UNCHANGED <<platform, runs, checks, local, cos, aged, restored, databases, alarms, allow, killed>>

SnapshotsOf(repository, r) == {s \in repository : s.run = r}

\* restic backup: every call makes one more snapshot with the tag of the run.
ResticBackup ==
    /\ worker.stage = "snapshot" /\ Steps("query")
    /\ LET r == worker.row
       IN  local' = local \cup {[run |-> r, number |-> Cardinality(SnapshotsOf(local, r)), tree |-> staging[r],
                                 damaged |-> FALSE]}
    /\ UNCHANGED <<platform, runs, checks, staging, cos, aged, restored, databases, alarms, allow, killed>>

\* The rest of SnapshotLocal: exactly one snapshot has the tag; MarkLocalSnapshot; the staging tree goes.
MarkLocalSnapshot ==
    /\ worker.stage = "query"
    /\ IF Cardinality(SnapshotsOf(local, worker.row)) = 1
       THEN /\ runs' = [runs EXCEPT ![worker.row].status = "uploading", ![worker.row].local = TRUE]
            /\ staging' = [staging EXCEPT ![worker.row] = NoTree]
            /\ Steps("copy") /\ UNCHANGED alarms
       ELSE Fails(worker.row) /\ UNCHANGED staging
    /\ UNCHANGED <<platform, checks, local, cos, aged, restored, databases, allow, killed>>

\* A step before the local snapshot is recorded fails; too little space raises an alert of its own.
ExportFails ==
    /\ worker.stage \in {"space", "dump", "version", "mirror", "snapshot", "query"} /\ Allow("faults")
    /\ runs' = [runs EXCEPT ![worker.row].status = "failed"]
    /\ \E codes \in {{}, {"backup_space_insufficient"}} :
           (codes # {} => worker.stage = "space") /\ alarms' = alarms \cup {"backup_failed"} \cup codes
    /\ Free
    /\ UNCHANGED <<platform, checks, staging, local, cos, aged, restored, databases, killed>>

\* restic copy leaves out what COS has.
CopyToCOS ==
    /\ worker.stage = "copy" /\ SnapshotsOf(local, worker.row) # {} /\ Steps("copied")
    /\ cos' = IF SnapshotsOf(cos, worker.row) = {} THEN cos \cup SnapshotsOf(local, worker.row) ELSE cos
    /\ UNCHANGED <<platform, runs, checks, staging, local, aged, restored, databases, alarms, allow, killed>>

\* COS cannot be reached, or the local snapshot was removed meanwhile.
CopyFails ==
    /\ worker.stage = "copy"
    /\ \/ SnapshotsOf(local, worker.row) = {} /\ UNCHANGED allow
       \/ SnapshotsOf(local, worker.row) # {} /\ Allow("faults")
    /\ runs' = [runs EXCEPT ![worker.row].status = "degraded"]
    /\ alarms' = alarms \cup {"backup_cos_degraded"} /\ Free
    /\ UNCHANGED <<platform, checks, staging, local, cos, aged, restored, databases, killed>>

MarkBackupSucceeded ==
    /\ worker.stage = "copied" /\ Steps("retention")
    /\ runs' = [runs EXCEPT ![worker.row].status = "succeeded", ![worker.row].cos = TRUE]
    /\ alarms' = alarms \ {"backup_failed", "backup_cos_degraded", "backup_space_insufficient"}
    /\ UNCHANGED <<platform, checks, staging, local, cos, aged, restored, databases, allow, killed>>

Expired(s) == s.run \in aged

\* Retention.Apply: what is over seven days old may leave the local repository; which of it, restic decides.
Retain ==
    /\ worker.stage = "retention" /\ Free
    /\ \E gone \in SUBSET {s \in local : Expired(s)} : local' = local \ gone
    /\ alarms' = alarms \ {"backup_retention_failed"}
    /\ UNCHANGED <<platform, runs, checks, staging, cos, aged, restored, databases, allow, killed>>

RetainFails ==
    /\ worker.stage = "retention" /\ Free /\ Allow("faults")
    /\ alarms' = alarms \cup {"backup_retention_failed"}
    /\ UNCHANGED <<platform, runs, checks, staging, local, cos, aged, restored, databases, killed>>

-----------------------------------------------------------------------------
(* RunVerification *)

ClaimVerification(c) ==
    /\ worker = Idle /\ checks[c].status \in {"queued", "restoring"}
    /\ checks[c].status = "restoring" \/ \A d \in Checks : checks[d].status # "restoring"
    /\ checks' = [checks EXCEPT ![c].status = "restoring", ![c].attempts = @ + 1]
    /\ worker' = [stage |-> "restore", row |-> c]
    /\ UNCHANGED <<platform, runs, staging, local, cos, aged, restored, databases, alarms, allow, killed>>

Checked == checks[worker.row].run
Attempt == [check |-> worker.row, attempt |-> checks[worker.row].attempts]
Restorable(r) == runs[r].status = "succeeded" /\ runs[r].cos /\ Cardinality(SnapshotsOf(cos, r)) = 1

\* RestoreFromCOS; files of an earlier attempt are in the way (flattenRestoredRun).
RestoreFromCOS ==
    /\ worker.stage = "restore"
    /\ IF Restorable(Checked) /\ worker.row \notin restored
       THEN Steps("manifest") /\ restored' = restored \cup {worker.row}
       ELSE Steps("failed") /\ UNCHANGED restored
    /\ UNCHANGED <<platform, runs, checks, staging, local, cos, aged, databases, alarms, allow, killed>>

Intact(r) == \A s \in SnapshotsOf(cos, r) : ~s.damaged
ManifestHolds(r) == Intact(r)

\* The digest of the manifest and of every file; then a database of a new name.
VerifyManifest ==
    /\ worker.stage = "manifest"
    /\ IF ManifestHolds(Checked)
       THEN Steps("references") /\ databases' = databases \cup {Attempt}
       ELSE Steps("failed") /\ UNCHANGED databases
    /\ UNCHANGED <<platform, runs, checks, staging, local, cos, aged, restored, alarms, allow, killed>>

\* pg_restore, and every object the restored rows refer to is in the manifest.
VerifyReferences ==
    /\ worker.stage = "references"
    /\ Steps(IF \A s \in SnapshotsOf(cos, Checked) : s.tree.refers => s.tree.object THEN "verified" ELSE "failed")
    /\ UNCHANGED <<platform, runs, checks, staging, local, cos, aged, restored, databases, alarms, allow, killed>>

VerifyFails ==
    /\ worker.stage \in {"restore", "manifest", "references"} /\ Allow("faults")
    /\ Steps("failed")
    /\ UNCHANGED <<platform, runs, checks, staging, local, cos, aged, restored, databases, alarms, killed>>

\* cleanup drops the database of this attempt and removes the directories of the verification.
Cleanup ==
    /\ restored' = restored \ {worker.row}
    /\ databases' = databases \ {Attempt}

\* cleanup, CompleteVerification and its alerts.
CompleteVerification ==
    /\ worker.stage \in {"verified", "failed"} /\ Cleanup /\ Free
    /\ checks' = [checks EXCEPT ![worker.row].status = IF worker.stage = "verified" THEN "succeeded" ELSE "failed"]
    /\ alarms' = IF worker.stage = "failed" THEN alarms \cup {"backup_verification_failed"}
                 ELSE (alarms \ {"backup_verification_failed"}) \cup {"backup_verification_succeeded"}
    /\ UNCHANGED <<platform, runs, staging, local, cos, aged, allow, killed>>

-----------------------------------------------------------------------------

\* A deadline, a signal or a failing statement ends the pass with its row as it is; a verification still cleans up.
ContextEnds ==
    /\ worker # Idle /\ Allow("cuts") /\ Free
    /\ IF worker.row \in Checks THEN Cleanup ELSE UNCHANGED <<restored, databases>>
    /\ UNCHANGED <<platform, runs, checks, staging, local, cos, aged, alarms, killed>>

\* The process is killed in a verification.
Killed ==
    /\ worker.row \in Checks /\ Allow("cuts") /\ Free
    /\ killed' = killed \cup {Attempt}
    /\ UNCHANGED <<platform, runs, checks, staging, local, cos, aged, restored, databases, alarms>>

Work ==
    \/ SpaceChecked \/ Dump \/ CheckVersion \/ Mirror \/ ResticBackup \/ MarkLocalSnapshot
    \/ CopyToCOS \/ CopyFails \/ MarkBackupSucceeded \/ Retain
    \/ RestoreFromCOS \/ VerifyManifest \/ VerifyReferences \/ CompleteVerification

BackupNext ==
    \/ Writes \/ DaysPass \/ Damage
    \/ \E r \in Runs : RequestBackup(r) \/ ClaimBackup(r)
    \/ \E c \in Checks : RequestVerification(c) \/ ClaimVerification(c)
    \/ Work \/ ExportFails \/ RetainFails \/ VerifyFails \/ ContextEnds \/ Killed

(* The operational loop runs every fifteen seconds and time passes.  Rows  *)
(* are claimed in the order in which they became due, and a pass looks for *)
(* a backup and then for a verification, so none is passed over for ever.  *)
BackupSpec ==
    /\ BackupInit /\ [][BackupNext]_backupVars
    /\ WF_backupVars(Work)
    /\ \A r \in Runs : SF_backupVars(ClaimBackup(r))
    /\ \A c \in Checks : SF_backupVars(ClaimVerification(c))

-----------------------------------------------------------------------------
(* Properties *)

(* Types, and at most one backup and one verification at a time.           *)
BackupTypeOK ==
    /\ \A r \in Runs : runs[r].status \in {"none", "queued", "exporting", "uploading", "degraded", "succeeded", "failed"}
    /\ \A c \in Checks : checks[c].status \in {"none", "queued", "restoring", "succeeded", "failed"}
    /\ Cardinality(ActiveRuns) <= 1 /\ Cardinality({c \in Checks : checks[c].status = "restoring"}) <= 1
    /\ worker.row \in Runs \cup Checks \cup {"none"}

(* A snapshot is a state the platform can start from: every object its     *)
(* database refers to is in it, and the schema version it states is that   *)
(* of the dump, although both change during the export (Export dumps       *)
(* before it mirrors and reads the version twice).                         *)
ExportIsConsistent ==
    \A s \in local \cup cos : (s.tree.refers => s.tree.object) /\ s.tree.schema = s.tree.dump

(* A backup that counts as succeeded has its copy in COS, made of the      *)
(* snapshot recorded for it, through restarts and repeated copies.         *)
SucceededIsStored ==
    \A r \in Runs : runs[r].status = "succeeded" => runs[r].local /\ Cardinality(SnapshotsOf(cos, r)) = 1

(* Once its local snapshot is recorded a run is never exported again       *)
(* (design 4.3: a degraded backup goes on from the snapshot it has).       *)
ExportedOnce ==
    [][\A r \in Runs : runs[r].local => staging'[r] = staging[r] /\ SnapshotsOf(local', r) \subseteq SnapshotsOf(local, r)
      ]_backupVars

(* A verification that succeeds restored a copy that is intact when its    *)
(* files are read.                                                         *)
VerifiedIsIntact ==
    [][worker'.stage = "references" /\ worker.stage # "references" => Intact(Checked)]_backupVars

(* A verification that ended leaves no files, and of the databases its     *)
(* attempts made only those of an attempt that was killed.                 *)
NothingLeftBehind ==
    /\ \A c \in restored : checks[c].status = "restoring"
    /\ \A d \in databases \ killed : worker.row = d.check /\ d = Attempt

(* Every backup and every verification that is requested ends, whatever is *)
(* cut or fails, unless retention took the local snapshot of a degraded    *)
(* backup away.                                                            *)
WorkSettles ==
    /\ \A r \in Runs :
         []<>(runs[r].status \in {"none", "succeeded", "failed"} \/ (runs[r].local /\ SnapshotsOf(local, r) = {}))
    /\ \A c \in Checks : []<>(checks[c].status \in {"none", "succeeded", "failed"})

(* A backup is worth what its record says: consistent, stored, exported    *)
(* once; and a verification is of an intact copy and cleans up.            *)
BackupsAreSound ==
    [](BackupTypeOK /\ ExportIsConsistent /\ SucceededIsStored /\ NothingLeftBehind) /\ ExportedOnce /\ VerifiedIsIntact
=============================================================================
