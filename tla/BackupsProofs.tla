--------------------------- MODULE BackupsProofs ---------------------------
(***************************************************************************)
(* Backups are sound for every number of runs, verifications, restarts and *)
(* failures.  The invariant ties the worker's stage to the row it claimed, *)
(* orders what an export has read so far (version, dump, objects) against  *)
(* a platform that only grows, and counts the snapshots of a run.          *)
(***************************************************************************)
EXTENDS Backups, FiniteSetTheorems, TLAPS

ExportStages == {"space", "dump", "version", "mirror", "snapshot", "query"}
CopyStages == {"copy", "copied"}
CheckStages == {"restore", "manifest", "references", "verified", "failed"}
Stages == {"idle", "retention"} \cup ExportStages \cup CopyStages \cup CheckStages

RunRows == [status : {"none", "queued", "exporting", "uploading", "degraded", "succeeded", "failed"},
            local : BOOLEAN, cos : BOOLEAN]
CheckRows == [status : {"none", "queued", "restoring", "succeeded", "failed"}, run : Runs \cup {"none"}, attempts : Nat]
Trees == [schema : Nat, dump : Nat, refers : BOOLEAN, object : BOOLEAN]
Snapshots == [run : Runs, number : Nat, tree : Trees, damaged : BOOLEAN]

\* The worker's stage and the row it claimed.
WorkerInv ==
    /\ worker \in [stage : Stages, row : Runs \cup Checks \cup {"none"}]
    /\ worker.stage = "idle" => worker.row = "none"
    /\ worker.stage \in ExportStages => worker.row \in Runs /\ runs[worker.row].status = "exporting"
    /\ worker.stage \in CopyStages => worker.row \in Runs /\ runs[worker.row].status = "uploading"
    /\ worker.stage = "retention" => worker.row \in Runs
    /\ worker.stage \in CheckStages => worker.row \in Checks /\ checks[worker.row].status = "restoring"

\* The rows: one backup and one verification at a time, and a local snapshot is recorded once it is there.
RowInv ==
    /\ runs \in [Runs -> RunRows] /\ checks \in [Checks -> CheckRows]
    /\ \A r \in Runs : runs[r].local <=> runs[r].status \in {"uploading", "degraded", "succeeded"}
    /\ \A r, q \in Runs : runs[r].status \in Active /\ runs[q].status \in Active => r = q
    /\ \A c, d \in Checks : checks[c].status = "restoring" /\ checks[d].status = "restoring" => c = d

CoreInv == WorkerInv /\ RowInv

\* What an export has read, against the platform that goes on.
TreeInv ==
    /\ platform \in [schema : Nat, object : BOOLEAN, refers : BOOLEAN] /\ staging \in [Runs -> Trees]
    /\ platform.refers => platform.object
    /\ LET tree == staging[worker.row]
       IN  /\ worker.stage = "dump" => tree.schema <= platform.schema
           /\ worker.stage = "version" =>
                tree.schema <= tree.dump /\ tree.dump <= platform.schema /\ (tree.refers => platform.object)
           /\ worker.stage = "mirror" => tree.schema = tree.dump /\ (tree.refers => platform.object)
           /\ worker.stage \in {"snapshot", "query"} => tree.schema = tree.dump /\ (tree.refers => tree.object)

\* Snapshots: of a run whose local snapshot is recorded there is one at most, in each repository.
SnapshotInv ==
    /\ local \subseteq Snapshots /\ cos \subseteq Snapshots /\ IsFiniteSet(local)
    /\ \A s, t \in local : s.run = t.run /\ runs[s.run].local => s = t
    /\ \A s, t \in cos : s.run = t.run => s = t
    /\ \A r \in Runs :
         runs[r].status = "succeeded" \/ (worker.stage = "copied" /\ worker.row = r) => \E s \in cos : s.run = r
    /\ ExportIsConsistent

LeftInv ==
    /\ restored \subseteq Checks /\ databases \subseteq [check : Checks, attempt : Nat]
    /\ NothingLeftBehind

BackupInv == CoreInv /\ TreeInv /\ SnapshotInv /\ LeftInv

-----------------------------------------------------------------------------
(* Claims and statuses.                                                    *)

\* The worker goes on in its kind of work, or is free again; the rows stay.
LEMMA WorkerMoves ==
    ASSUME CoreInv, UNCHANGED <<runs, checks>>,
           \/ worker' = worker \/ worker' = Idle
           \/ \E stage \in ExportStages : worker.stage \in ExportStages /\ Steps(stage)
           \/ \E stage \in CopyStages : worker.stage \in CopyStages /\ Steps(stage)
           \/ \E stage \in CheckStages : worker.stage \in CheckStages /\ Steps(stage)
    PROVE  CoreInv'
<1>1. RowInv'
  BY DEF CoreInv, RowInv
<1>2. WorkerInv'
  <2>0. WorkerInv
    BY DEF CoreInv
  <2>1. CASE worker' = worker
    BY <2>0, <2>1 DEF WorkerInv
  <2>2. CASE worker' = Idle
    BY <2>2 DEF WorkerInv, Idle, Stages, ExportStages, CopyStages, CheckStages
  <2>3. ASSUME NEW stage \in ExportStages, worker.stage \in ExportStages, Steps(stage) PROVE WorkerInv'
    BY <2>0, <2>3 DEF WorkerInv, Steps, Stages, ExportStages, CopyStages, CheckStages
  <2>4. ASSUME NEW stage \in CopyStages, worker.stage \in CopyStages, Steps(stage) PROVE WorkerInv'
    BY <2>0, <2>4 DEF WorkerInv, Steps, Stages, ExportStages, CopyStages, CheckStages
  <2>5. ASSUME NEW stage \in CheckStages, worker.stage \in CheckStages, Steps(stage) PROVE WorkerInv'
    BY <2>0, <2>5 DEF WorkerInv, Steps, Stages, ExportStages, CopyStages, CheckStages
  <2> QED
    BY <2>1, <2>2, <2>3, <2>4, <2>5
<1> QED
  BY <1>1, <1>2 DEF CoreInv

\* The worker's run gets another status and the worker is free, or goes on with it.
LEMMA RunMoves ==
    ASSUME CoreInv, NEW r \in Runs, NEW row \in RunRows, runs' = [runs EXCEPT ![r] = row], UNCHANGED checks,
           row.local <=> row.status \in {"uploading", "degraded", "succeeded"},
           row.status \in Active => runs[r].status \in Active \/ \A q \in Runs : runs[q].status \notin Active
    PROVE  RowInv'
<1>1. \A q \in Runs : runs'[q] = IF q = r THEN row ELSE runs[q]
  BY DEF CoreInv, RowInv
<1> QED
  BY <1>1 DEF CoreInv, RowInv

\* Every step keeps the worker with the row it claimed, and the rows claimed one at a time.
LEMMA CoreStep ==
    ASSUME CoreInv, [BackupNext]_backupVars
    PROVE  CoreInv'
<1>0. WorkerInv /\ RowInv
  BY DEF CoreInv
<1>1. CASE Writes \/ DaysPass \/ Damage \/ UNCHANGED backupVars
  BY <1>1, WorkerMoves DEF Writes, DaysPass, Damage, backupVars
<1>2. ASSUME NEW r \in Runs, RequestBackup(r) PROVE CoreInv'
  <2> DEFINE row == [runs[r] EXCEPT !.status = "queued"]
  <2>1. runs' = [runs EXCEPT ![r] = row] /\ UNCHANGED <<checks, worker>> /\ runs[r].status = "none"
    BY <1>2 DEF RequestBackup
  <2>2. row \in RunRows /\ row.status = "queued" /\ row.local = runs[r].local /\ ~runs[r].local
    BY <1>0, <2>1 DEF RowInv, RunRows
  <2> HIDE DEF row
  <2>3. RowInv'
    BY <2>1, <2>2, RunMoves DEF Active
  <2>4. WorkerInv'
    BY <1>0, <2>1 DEF WorkerInv, RowInv
  <2> QED
    BY <2>3, <2>4 DEF CoreInv
<1>3. ASSUME NEW c \in Checks, RequestVerification(c) PROVE CoreInv'
  <2>1. PICK q \in Runs : checks' = [checks EXCEPT ![c] = [@ EXCEPT !.status = "queued", !.run = q]]
    BY <1>3 DEF RequestVerification
  <2>2. UNCHANGED <<runs, worker>> /\ checks[c].status = "none"
    BY <1>3 DEF RequestVerification
  <2>3. /\ checks' \in [Checks -> CheckRows] /\ checks'[c].status = "queued"
        /\ \A d \in Checks : d # c => checks'[d] = checks[d]
    BY <1>0, <2>1 DEF RowInv, CheckRows
  <2>4. RowInv'
    BY <1>0, <2>2, <2>3 DEF RowInv
  <2>5. WorkerInv'
    BY <1>0, <2>2, <2>3 DEF WorkerInv
  <2> QED
    BY <2>4, <2>5 DEF CoreInv
<1>4. ASSUME NEW r \in Runs, ClaimBackup(r) PROVE CoreInv'
  <2>1. PICK status \in {"uploading", "exporting"}, stage \in {"copy", "space"} :
          /\ runs' = [runs EXCEPT ![r].status = status] /\ worker' = [stage |-> stage, row |-> r]
          /\ (status = "uploading" <=> runs[r].local) /\ (stage = "copy" <=> runs[r].local)
    <3>1. CASE runs[r].local
      BY <1>4, <3>1 DEF ClaimBackup, ClaimedStage
    <3>2. CASE ~runs[r].local
      BY <1>4, <3>2 DEF ClaimBackup, ClaimedStage
    <3> QED
      BY <3>1, <3>2
  <2>2. UNCHANGED checks /\ (runs[r].status \in Active \/ \A q \in Runs : runs[q].status \notin Active)
    BY <1>4 DEF ClaimBackup, Claimable, ActiveRuns
  <2> DEFINE row == [runs[r] EXCEPT !.status = status]
  <2>3. /\ runs' = [runs EXCEPT ![r] = row]
        /\ row \in RunRows /\ row.status = status /\ (row.local <=> runs[r].local)
    BY <1>0, <2>1 DEF RowInv, RunRows
  <2> HIDE DEF row
  <2>4. RowInv'
    BY <2>1, <2>2, <2>3, RunMoves
  <2>5. WorkerInv'
    <3>1. runs'[r].status = status
      BY <1>0, <2>3 DEF RowInv
    <3> QED
      BY <2>1, <3>1 DEF WorkerInv, Stages, ExportStages, CopyStages, CheckStages
  <2> QED
    BY <2>4, <2>5 DEF CoreInv
<1>5. ASSUME NEW c \in Checks, ClaimVerification(c) PROVE CoreInv'
  <2>1. /\ checks' = [checks EXCEPT ![c].status = "restoring", ![c].attempts = @ + 1]
        /\ worker' = [stage |-> "restore", row |-> c] /\ UNCHANGED runs
        /\ checks[c].status = "restoring" \/ \A d \in Checks : checks[d].status # "restoring"
    BY <1>5 DEF ClaimVerification
  <2>2. /\ checks' \in [Checks -> CheckRows] /\ checks'[c].status = "restoring"
        /\ \A d \in Checks : d # c => checks'[d] = checks[d]
    BY <1>0, <2>1 DEF RowInv, CheckRows
  <2>3. RowInv'
    BY <1>0, <2>1, <2>2 DEF RowInv
  <2>4. WorkerInv'
    BY <2>1, <2>2 DEF WorkerInv, Stages, ExportStages, CopyStages, CheckStages
  <2> QED
    BY <2>3, <2>4 DEF CoreInv
<1>6. CASE SpaceChecked \/ Dump \/ Mirror \/ ResticBackup
  BY <1>6, WorkerMoves DEF SpaceChecked, Dump, Mirror, ResticBackup, ExportStages
<1>7. CASE CopyToCOS
  BY <1>7, WorkerMoves DEF CopyToCOS, CopyStages
<1>8. CASE Retain \/ RetainFails \/ ContextEnds \/ Killed
  BY <1>8, WorkerMoves DEF Retain, RetainFails, ContextEnds, Killed, Free
<1>9. CASE RestoreFromCOS \/ VerifyManifest \/ VerifyReferences \/ VerifyFails
  BY <1>9, WorkerMoves DEF RestoreFromCOS, VerifyManifest, VerifyReferences, VerifyFails, CheckStages
<1>10. ASSUME NEW status \in {"failed", "degraded"}, worker.row \in Runs,
              runs' = [runs EXCEPT ![worker.row].status = status], worker' = Idle, UNCHANGED checks,
              runs[worker.row].local <=> status = "degraded"
       PROVE  CoreInv'
  <2> DEFINE r == worker.row
             row == [runs[r] EXCEPT !.status = status]
  <2>1. /\ runs' = [runs EXCEPT ![r] = row]
        /\ row \in RunRows /\ row.status = status /\ (row.local <=> runs[r].local)
    BY <1>0, <1>10 DEF RowInv, RunRows
  <2> HIDE DEF row
  <2>2. RowInv'
    BY <1>10, <2>1, RunMoves DEF Active
  <2>3. WorkerInv'
    BY <1>10 DEF WorkerInv, Idle, Stages, ExportStages, CopyStages, CheckStages
  <2> QED
    BY <2>2, <2>3 DEF CoreInv
<1>11. worker.stage \in ExportStages => worker.row \in Runs /\ ~runs[worker.row].local
  BY <1>0 DEF WorkerInv, RowInv
<1>12. worker.stage \in CopyStages => worker.row \in Runs /\ runs[worker.row].local
  BY <1>0 DEF WorkerInv, RowInv
<1>13. CASE CheckVersion
  <2>1. CASE VersionStable
    BY <1>13, <2>1, WorkerMoves DEF CheckVersion, ExportStages
  <2>2. CASE ~VersionStable
    BY <1>10, <1>11, <1>13, <2>2 DEF CheckVersion, Fails, Free, ExportStages
  <2> QED
    BY <2>1, <2>2
<1>14. CASE ExportFails
  BY <1>10, <1>11, <1>14 DEF ExportFails, Free, ExportStages
<1>15. CASE CopyFails
  BY <1>10, <1>12, <1>15 DEF CopyFails, Free, CopyStages
<1>16. CASE MarkLocalSnapshot
  <2>1. CASE Cardinality(SnapshotsOf(local, worker.row)) = 1
    <3> DEFINE r == worker.row
               row == [runs[r] EXCEPT !.status = "uploading", !.local = TRUE]
    <3>1. /\ runs' = [runs EXCEPT ![r] = row] /\ Steps("copy") /\ UNCHANGED checks /\ worker.stage = "query"
      BY <1>16, <2>1 DEF MarkLocalSnapshot
    <3>2. r \in Runs /\ runs[r].status = "exporting"
      BY <1>0, <3>1 DEF WorkerInv, ExportStages
    <3>3. row \in RunRows /\ row.status = "uploading" /\ row.local
      <4>1. runs[r] \in RunRows
        BY <1>0, <3>2 DEF RowInv
      <4>2. PICK yes \in BOOLEAN : yes = TRUE
        OBVIOUS
      <4>3. row = [runs[r] EXCEPT !.status = "uploading", !.local = yes]
        BY <4>2, Zenon
      <4>4. row \in RunRows /\ row.status = "uploading" /\ row.local = yes
        BY <4>1, <4>3 DEF RunRows
      <4> QED
        BY <4>2, <4>4, Zenon
    <3> HIDE DEF row
    <3>4. RowInv'
      BY <3>1, <3>2, <3>3, RunMoves DEF Active
    <3>5. WorkerInv'
      <4>1. worker'.stage = "copy" /\ worker'.row = r /\ runs'[r].status = "uploading"
            /\ worker' \in [stage : Stages, row : Runs \cup Checks \cup {"none"}]
        BY <1>0, <3>1, <3>2, <3>3 DEF WorkerInv, RowInv, Steps, Stages, CopyStages
      <4> QED
        BY <3>2, <4>1 DEF WorkerInv, ExportStages, CopyStages, CheckStages
    <3> QED
      BY <3>4, <3>5 DEF CoreInv
  <2>2. CASE Cardinality(SnapshotsOf(local, worker.row)) # 1
    BY <1>10, <1>11, <1>16, <2>2 DEF MarkLocalSnapshot, Fails, Free, ExportStages
  <2> QED
    BY <2>1, <2>2
<1>17. CASE MarkBackupSucceeded
  <2> DEFINE r == worker.row
             row == [runs[r] EXCEPT !.status = "succeeded", !.cos = TRUE]
  <2>1. /\ runs' = [runs EXCEPT ![r] = row] /\ Steps("retention") /\ UNCHANGED checks /\ worker.stage = "copied"
    BY <1>17 DEF MarkBackupSucceeded
  <2>2. r \in Runs /\ runs[r].local
    BY <1>12, <2>1 DEF CopyStages
  <2>3. row \in RunRows /\ row.status = "succeeded" /\ row.local
    BY <1>0, <2>2 DEF RowInv, RunRows
  <2> HIDE DEF row
  <2>4. RowInv'
    BY <2>1, <2>2, <2>3, RunMoves DEF Active
  <2>5. WorkerInv'
    <3>1. worker'.stage = "retention" /\ worker'.row = r
          /\ worker' \in [stage : Stages, row : Runs \cup Checks \cup {"none"}]
      BY <1>0, <2>1, <2>2 DEF WorkerInv, Steps, Stages
    <3> QED
      BY <2>2, <3>1 DEF WorkerInv, ExportStages, CopyStages, CheckStages
  <2> QED
    BY <2>4, <2>5 DEF CoreInv
<1>18. CASE CompleteVerification
  <2>1. PICK status \in {"succeeded", "failed"} : checks' = [checks EXCEPT ![worker.row].status = status]
    BY <1>18 DEF CompleteVerification
  <2>2. UNCHANGED runs /\ worker' = Idle /\ worker.row \in Checks
    BY <1>0, <1>18 DEF CompleteVerification, Free, WorkerInv, CheckStages
  <2>3. /\ checks' \in [Checks -> CheckRows] /\ checks'[worker.row].status = status
        /\ \A d \in Checks : d # worker.row => checks'[d] = checks[d]
    BY <1>0, <2>1, <2>2 DEF RowInv, CheckRows
  <2>4. RowInv'
    BY <1>0, <2>2, <2>3 DEF RowInv
  <2>5. WorkerInv'
    BY <2>2 DEF WorkerInv, Idle, Stages, ExportStages, CopyStages, CheckStages
  <2> QED
    BY <2>4, <2>5 DEF CoreInv
<1> QED
  BY <1>1, <1>2, <1>3, <1>4, <1>5, <1>6, <1>7, <1>8, <1>9, <1>13, <1>14, <1>15, <1>16, <1>17, <1>18
     DEF BackupNext, Work

-----------------------------------------------------------------------------
(* What a snapshot holds.                                                  *)

\* An export reads the version, dumps, reads the version again and mirrors the objects last; the platform only
\* grows meanwhile.
LEMMA TreeStep ==
    ASSUME CoreInv, TreeInv, [BackupNext]_backupVars
    PROVE  TreeInv'
<1>0. WorkerInv /\ TreeInv
  BY DEF CoreInv
<1>i. ASSUME UNCHANGED platform, staging' \in [Runs -> Trees], worker'.stage \notin ExportStages \ {"space"}
      PROVE  TreeInv'
  BY <1>0, <1>i DEF TreeInv, ExportStages
<1>1. CASE Writes
  <2>1. /\ platform' \in [schema : Nat, object : BOOLEAN, refers : BOOLEAN]
        /\ platform.schema <= platform'.schema /\ (platform.object => platform'.object)
        /\ platform'.refers => platform'.object
    <3>0. platform \in [schema : Nat, object : BOOLEAN, refers : BOOLEAN] /\ (platform.refers => platform.object)
      BY <1>0 DEF TreeInv
    <3>y. PICK yes \in BOOLEAN : yes = TRUE
      OBVIOUS
    <3>1. CASE platform' = [platform EXCEPT !.object = TRUE]
      <4>1. platform' = [platform EXCEPT !.object = yes]
        BY <3>y, <3>1, Zenon
      <4>2. platform' \in [schema : Nat, object : BOOLEAN, refers : BOOLEAN] /\ platform'.object = yes
            /\ platform'.schema = platform.schema /\ platform.schema \in Nat
        BY <3>0, <4>1
      <4>3. platform'.object
        BY <3>y, <4>2, Zenon
      <4> QED
        BY <4>2, <4>3
    <3>2. CASE platform.object /\ platform' = [platform EXCEPT !.refers = TRUE]
      <4>1. platform' = [platform EXCEPT !.refers = yes]
        BY <3>y, <3>2, Zenon
      <4>2. platform' \in [schema : Nat, object : BOOLEAN, refers : BOOLEAN] /\ platform'.object = platform.object
            /\ platform'.schema = platform.schema /\ platform.schema \in Nat
        BY <3>0, <4>1
      <4> QED
        BY <3>2, <4>2
    <3>3. CASE platform' = [platform EXCEPT !.schema = @ + 1]
      BY <3>0, <3>3
    <3> QED
      BY <1>1, <3>1, <3>2, <3>3 DEF Writes
  <2>2. UNCHANGED <<staging, worker>> /\ platform.schema \in Nat /\ platform'.schema \in Nat
    BY <1>0, <1>1, <2>1 DEF Writes, TreeInv
  <2>3. worker.stage = "version" => staging[worker.row].dump \in Nat /\ staging[worker.row].schema \in Nat
    BY <1>0 DEF TreeInv, WorkerInv, ExportStages, Trees
  <2>4. worker.stage = "dump" => staging[worker.row].schema \in Nat
    BY <1>0 DEF TreeInv, WorkerInv, ExportStages, Trees
  <2> QED
    BY <1>0, <2>1, <2>2, <2>3, <2>4 DEF TreeInv
<1>2. CASE SpaceChecked
  <2>1. /\ worker.stage = "space" /\ worker.row \in Runs /\ worker'.stage = "dump" /\ worker'.row = worker.row
        /\ staging' = [staging EXCEPT ![worker.row].schema = platform.schema] /\ UNCHANGED platform
    BY <1>0, <1>2 DEF SpaceChecked, Steps, WorkerInv, ExportStages
  <2>2. /\ staging' \in [Runs -> Trees] /\ staging'[worker.row].schema = platform.schema
        /\ platform.schema \in Nat /\ platform.schema <= platform.schema
    BY <1>0, <2>1 DEF TreeInv, Trees
  <2> QED
    BY <1>0, <2>1, <2>2 DEF TreeInv
<1>3. CASE Dump
  <2>1. /\ worker.stage = "dump" /\ worker.row \in Runs /\ worker'.stage = "version" /\ worker'.row = worker.row
        /\ staging' = [staging EXCEPT ![worker.row].dump = platform.schema,
                                      ![worker.row].refers = platform.refers] /\ UNCHANGED platform
    BY <1>0, <1>3 DEF Dump, Steps, WorkerInv, ExportStages
  <2>2. /\ staging' \in [Runs -> Trees] /\ staging'[worker.row].dump = platform.schema
        /\ staging'[worker.row].schema = staging[worker.row].schema
        /\ staging'[worker.row].refers = platform.refers
        /\ platform.schema \in Nat /\ platform.schema <= platform.schema
    BY <1>0, <2>1 DEF TreeInv, Trees
  <2> QED
    BY <1>0, <2>1, <2>2 DEF TreeInv
<1>4. CASE CheckVersion
  <2>1. CASE VersionStable
    <3>1. /\ worker.stage = "version" /\ worker.row \in Runs /\ worker'.stage = "mirror" /\ worker'.row = worker.row
          /\ UNCHANGED <<staging, platform>> /\ staging[worker.row].schema = platform.schema
      BY <1>0, <1>4, <2>1 DEF CheckVersion, Steps, WorkerInv, ExportStages, VersionStable
    <3>2. staging[worker.row] \in Trees /\ platform.schema \in Nat
      BY <1>0, <3>1 DEF TreeInv
    <3>3. staging[worker.row].schema = staging[worker.row].dump
      BY <1>0, <3>1, <3>2 DEF TreeInv, Trees
    <3> QED
      BY <1>0, <3>1, <3>3 DEF TreeInv
  <2>2. CASE ~VersionStable
    BY <1>0, <1>i, <1>4, <2>2 DEF CheckVersion, Fails, Free, Idle, ExportStages, TreeInv
  <2> QED
    BY <2>1, <2>2
<1>5. CASE Mirror
  <2>1. /\ worker.stage = "mirror" /\ worker.row \in Runs /\ worker'.stage = "snapshot" /\ worker'.row = worker.row
        /\ staging' = [staging EXCEPT ![worker.row].object = platform.object] /\ UNCHANGED platform
    BY <1>0, <1>5 DEF Mirror, Steps, WorkerInv, ExportStages
  <2>2. /\ staging' \in [Runs -> Trees] /\ staging'[worker.row].object = platform.object
        /\ staging'[worker.row].schema = staging[worker.row].schema
        /\ staging'[worker.row].dump = staging[worker.row].dump
        /\ staging'[worker.row].refers = staging[worker.row].refers
    BY <1>0, <2>1 DEF TreeInv, Trees
  <2> QED
    BY <1>0, <2>1, <2>2 DEF TreeInv
<1>6. CASE ResticBackup
  <2>1. /\ worker.stage = "snapshot" /\ worker'.stage = "query" /\ worker'.row = worker.row
        /\ UNCHANGED <<staging, platform>>
    BY <1>0, <1>6 DEF ResticBackup, Steps, WorkerInv
  <2> QED
    BY <1>0, <2>1 DEF TreeInv
<1>7. CASE MarkLocalSnapshot
  <2>1. UNCHANGED platform /\ worker'.stage \in {"copy", "idle"}
    BY <1>0, <1>7 DEF MarkLocalSnapshot, Steps, Fails, Free, Idle, WorkerInv
  <2>2. staging' = staging \/ staging' = [staging EXCEPT ![worker.row] = NoTree]
    BY <1>7 DEF MarkLocalSnapshot
  <2>3. staging' \in [Runs -> Trees]
    <3>0. staging \in [Runs -> Trees]
      BY <1>0 DEF TreeInv
    <3>1. NoTree \in Trees
      BY DEF NoTree, Trees
    <3>2. CASE staging' = [staging EXCEPT ![worker.row] = NoTree]
      BY <3>0, <3>1, <3>2
    <3> QED
      BY <2>2, <3>0, <3>2
  <2> QED
    BY <1>i, <2>1, <2>3 DEF ExportStages
<1>8. ASSUME UNCHANGED <<staging, platform>>, worker' = worker \/ worker'.stage \notin ExportStages \ {"space"}
      PROVE  TreeInv'
  <2>1. CASE worker' = worker
    BY <1>0, <1>8, <2>1 DEF TreeInv
  <2>2. CASE worker' # worker
    BY <1>0, <1>i, <1>8, <2>2 DEF TreeInv
  <2> QED
    BY <2>1, <2>2
<1>9. CASE DaysPass \/ Damage \/ UNCHANGED backupVars
  BY <1>8, <1>9 DEF DaysPass, Damage, backupVars
<1>10. ASSUME NEW r \in Runs, RequestBackup(r) \/ ClaimBackup(r) PROVE TreeInv'
  BY <1>8, <1>10 DEF RequestBackup, ClaimBackup, ClaimedStage, ExportStages
<1>11. ASSUME NEW c \in Checks, RequestVerification(c) \/ ClaimVerification(c) PROVE TreeInv'
  <2>1. CASE RequestVerification(c)
    BY <1>8, <2>1 DEF RequestVerification
  <2>2. CASE ClaimVerification(c)
    <3>1. UNCHANGED <<staging, platform>> /\ worker'.stage = "restore"
      BY <2>2 DEF ClaimVerification
    <3> QED
      BY <1>8, <3>1 DEF ExportStages
  <2> QED
    BY <1>11, <2>1, <2>2
<1>12. CASE CopyToCOS \/ CopyFails \/ MarkBackupSucceeded \/ Retain \/ RetainFails
  BY <1>0, <1>8, <1>12 DEF CopyToCOS, CopyFails, MarkBackupSucceeded, Retain, RetainFails, Steps, Free, Idle,
                           WorkerInv, ExportStages
<1>13. CASE RestoreFromCOS \/ VerifyManifest \/ VerifyReferences \/ VerifyFails
  BY <1>0, <1>8, <1>13 DEF RestoreFromCOS, VerifyManifest, VerifyReferences, VerifyFails, Steps, WorkerInv,
                           ExportStages
<1>14. CASE CompleteVerification \/ ContextEnds \/ Killed \/ ExportFails
  BY <1>8, <1>14 DEF CompleteVerification, ContextEnds, Killed, ExportFails, Free, Idle, ExportStages
<1> QED
  BY <1>1, <1>2, <1>3, <1>4, <1>5, <1>6, <1>7, <1>9, <1>10, <1>11, <1>12, <1>13, <1>14 DEF BackupNext, Work

-----------------------------------------------------------------------------
(* Snapshots.                                                              *)

\* A new snapshot is typed and consistent; a copy has the content of what is copied.
LEMMA SnapshotStep ==
    ASSUME CoreInv, TreeInv, SnapshotInv, [BackupNext]_backupVars
    PROVE  SnapshotInv'
<1>0. WorkerInv /\ RowInv /\ SnapshotInv
  BY DEF CoreInv
<1>r. RowInv'
  BY CoreStep DEF CoreInv
\* The repositories lose at most local snapshots, and no run gets ahead of them.
<1>i. ASSUME local' \subseteq local, cos' = cos,
             \A r \in Runs : runs'[r].local => runs[r].local,
             \A r \in Runs : \/ runs'[r].status # "succeeded" \/ runs[r].status = "succeeded",
             worker'.stage # "copied" \/ worker' = worker
      PROVE  SnapshotInv'
  <2>1. IsFiniteSet(local')
    BY <1>0, <1>i, FS_Subset DEF SnapshotInv
  <2>2. \A s \in local : s.run \in Runs
    BY <1>0 DEF SnapshotInv, Snapshots
  <2> QED
    BY <1>0, <1>i, <2>1, <2>2 DEF SnapshotInv, ExportIsConsistent
<1>1. ASSUME UNCHANGED runs, worker'.stage # "copied" \/ worker' = worker, local' \subseteq local, cos' = cos
      PROVE  SnapshotInv'
  BY <1>i, <1>1
<1>2. ASSUME NEW r \in Runs, NEW row, runs' = [runs EXCEPT ![r] = row], row.local => runs[r].local,
             row.status # "succeeded", worker'.stage # "copied" \/ worker' = worker, local' = local, cos' = cos
      PROVE  SnapshotInv'
  <2>1. \A q \in Runs : runs'[q] = IF q = r THEN row ELSE runs[q]
    BY <1>0, <1>2 DEF RowInv
  <2> QED
    BY <1>i, <1>2, <2>1
<1>3. CASE Writes \/ DaysPass \/ UNCHANGED backupVars
  BY <1>1, <1>3 DEF Writes, DaysPass, backupVars
<1>4. CASE Damage
  <2>1. PICK s \in cos : cos' = (cos \ {s}) \cup {[s EXCEPT !.damaged = TRUE]}
    BY <1>4 DEF Damage
  <2> DEFINE t == [s EXCEPT !.damaged = TRUE]
  <2>2. t \in Snapshots /\ t.run = s.run /\ t.tree = s.tree
    BY <1>0 DEF SnapshotInv, Snapshots
  <2> HIDE DEF t
  <2>3. cos' = (cos \ {s}) \cup {t} /\ UNCHANGED <<runs, worker, local>>
    BY <1>4, <2>1 DEF Damage, t
  <2>4. cos' \subseteq Snapshots /\ \A x, y \in cos' : x.run = y.run => x = y
    BY <1>0, <2>2, <2>3 DEF SnapshotInv
  <2>5. \A x \in cos : \E y \in cos' : y.run = x.run
    BY <2>2, <2>3
  <2>6. ExportIsConsistent'
    BY <1>0, <2>2, <2>3 DEF SnapshotInv, ExportIsConsistent
  <2>7. \A r \in Runs : runs[r].status = "succeeded" \/ (worker.stage = "copied" /\ worker.row = r) =>
                          \E y \in cos' : y.run = r
    <3> SUFFICES ASSUME NEW r \in Runs, runs[r].status = "succeeded" \/ (worker.stage = "copied" /\ worker.row = r)
                 PROVE  \E y \in cos' : y.run = r
      OBVIOUS
    <3>1. PICK x \in cos : x.run = r
      BY <1>0 DEF SnapshotInv
    <3> QED
      BY <2>5, <3>1
  <2> QED
    BY <1>0, <2>3, <2>4, <2>6, <2>7 DEF SnapshotInv
<1>5. ASSUME NEW r \in Runs, RequestBackup(r) PROVE SnapshotInv'
  <2>1. /\ runs' = [runs EXCEPT ![r] = [runs[r] EXCEPT !.status = "queued"]]
        /\ UNCHANGED <<local, cos, worker>>
    BY <1>5 DEF RequestBackup
  <2>2. /\ [runs[r] EXCEPT !.status = "queued"].local => runs[r].local
        /\ [runs[r] EXCEPT !.status = "queued"].status # "succeeded"
    BY <1>0 DEF RowInv, RunRows
  <2> QED
    BY <1>2, <2>1, <2>2
<1>6. ASSUME NEW c \in Checks, RequestVerification(c) \/ ClaimVerification(c) PROVE SnapshotInv'
  <2>1. CASE RequestVerification(c)
    BY <1>1, <2>1 DEF RequestVerification
  <2>2. CASE ClaimVerification(c)
    <3>1. UNCHANGED <<runs, local, cos>> /\ worker'.stage = "restore"
      BY <2>2 DEF ClaimVerification
    <3> QED
      BY <1>1, <3>1
  <2> QED
    BY <1>6, <2>1, <2>2
<1>7. ASSUME NEW r \in Runs, ClaimBackup(r) PROVE SnapshotInv'
  <2>1. PICK status \in {"uploading", "exporting"}, stage \in {"copy", "space"} :
          runs' = [runs EXCEPT ![r].status = status] /\ worker' = [stage |-> stage, row |-> r]
    BY <1>7 DEF ClaimBackup, ClaimedStage
  <2>2. /\ runs' = [runs EXCEPT ![r] = [runs[r] EXCEPT !.status = status]]
        /\ [runs[r] EXCEPT !.status = status].local => runs[r].local
        /\ [runs[r] EXCEPT !.status = status].status # "succeeded"
    BY <1>0, <2>1 DEF RowInv, RunRows
  <2>3. UNCHANGED <<local, cos>> /\ worker'.stage # "copied"
    BY <1>7, <2>1 DEF ClaimBackup
  <2> QED
    BY <1>2, <2>2, <2>3
<1>8. CASE SpaceChecked \/ Dump \/ Mirror
  BY <1>0, <1>1, <1>8 DEF SpaceChecked, Dump, Mirror, Steps, WorkerInv
<1>9. CASE Retain \/ RetainFails \/ ContextEnds \/ Killed \/ CompleteVerification
  BY <1>1, <1>9 DEF Retain, RetainFails, ContextEnds, Killed, CompleteVerification, Free, Idle
<1>10. CASE RestoreFromCOS \/ VerifyManifest \/ VerifyReferences \/ VerifyFails
  BY <1>0, <1>1, <1>10 DEF RestoreFromCOS, VerifyManifest, VerifyReferences, VerifyFails, Steps, WorkerInv
<1>11. ASSUME NEW status \in {"failed", "degraded"}, worker.row \in Runs, UNCHANGED <<local, cos>>,
              runs' = [runs EXCEPT ![worker.row].status = status], worker' = Idle
       PROVE  SnapshotInv'
  <2>1. /\ runs' = [runs EXCEPT ![worker.row] = [runs[worker.row] EXCEPT !.status = status]]
        /\ [runs[worker.row] EXCEPT !.status = status].local => runs[worker.row].local
        /\ [runs[worker.row] EXCEPT !.status = status].status # "succeeded"
    BY <1>0, <1>11 DEF RowInv, RunRows
  <2> QED
    BY <1>2, <1>11, <2>1 DEF Idle
<1>12. CASE ExportFails \/ CopyFails
  BY <1>0, <1>11, <1>12 DEF ExportFails, CopyFails, Free, WorkerInv, ExportStages, CopyStages
<1>13. CASE CheckVersion
  <2>1. CASE VersionStable
    BY <1>0, <1>1, <1>13, <2>1 DEF CheckVersion, Steps, WorkerInv
  <2>2. CASE ~VersionStable
    BY <1>0, <1>11, <1>13, <2>2 DEF CheckVersion, Fails, Free, WorkerInv, ExportStages
  <2> QED
    BY <2>1, <2>2
<1>14. CASE ResticBackup
  <2> DEFINE r == worker.row
             new == [run |-> r, number |-> Cardinality(SnapshotsOf(local, r)), tree |-> staging[r], damaged |-> FALSE]
  <2>1. /\ worker.stage = "snapshot" /\ Steps("query") /\ UNCHANGED <<runs, cos>>
        /\ local' = local \cup {new}
    BY <1>14 DEF ResticBackup
  <2>2. r \in Runs /\ ~runs[r].local
    BY <1>0, <2>1 DEF WorkerInv, RowInv, ExportStages
  <2>3. Cardinality(SnapshotsOf(local, r)) \in Nat
    BY <1>0, FS_Subset, FS_CardinalityType DEF SnapshotInv, SnapshotsOf
  <2>4. staging[r] \in Trees /\ staging[r].schema = staging[r].dump /\ (staging[r].refers => staging[r].object)
    BY <2>1, <2>2 DEF TreeInv
  <2>5. new \in Snapshots /\ new.run = r /\ new.tree = staging[r]
    BY <2>2, <2>3, <2>4 DEF Snapshots
  <2> HIDE DEF new
  <2>6. worker'.stage = "query"
    BY <1>0, <2>1 DEF Steps, WorkerInv
  <2>7. local' \subseteq Snapshots /\ IsFiniteSet(local')
    BY <1>0, <2>1, <2>5, FS_AddElement DEF SnapshotInv
  <2>8. \A s, t \in local' : s.run = t.run /\ runs[s.run].local => s = t
    BY <1>0, <2>1, <2>2, <2>5 DEF SnapshotInv
  <2>9. ExportIsConsistent'
    BY <1>0, <2>1, <2>4, <2>5 DEF SnapshotInv, ExportIsConsistent
  <2> QED
    BY <1>0, <2>1, <2>6, <2>7, <2>8, <2>9 DEF SnapshotInv
<1>15. CASE MarkLocalSnapshot
  <2> DEFINE r == worker.row
  <2>0. worker.stage = "query" /\ r \in Runs
    BY <1>0, <1>15 DEF MarkLocalSnapshot, WorkerInv, ExportStages
  <2>1. CASE Cardinality(SnapshotsOf(local, r)) = 1
    <3>1. /\ runs' = [runs EXCEPT ![r].status = "uploading", ![r].local = TRUE]
          /\ Steps("copy") /\ UNCHANGED <<local, cos>>
      BY <1>15, <2>1 DEF MarkLocalSnapshot
    <3>2. IsFiniteSet(SnapshotsOf(local, r))
      BY <1>0, FS_Subset DEF SnapshotInv, SnapshotsOf
    <3>3. PICK x : SnapshotsOf(local, r) = {x}
      BY <2>1, <3>2, FS_Singleton
    <3>4. \A s, t \in local : s.run = r /\ t.run = r => s = t
      BY <3>3 DEF SnapshotsOf
    <3>5. /\ worker'.stage = "copy" /\ runs'[r].status = "uploading"
          /\ \A q \in Runs : q # r => runs'[q] = runs[q]
      BY <1>0, <2>0, <3>1 DEF WorkerInv, RowInv, RunRows, Steps
    <3>6. \A s \in local : s.run \in Runs
      BY <1>0 DEF SnapshotInv, Snapshots
    <3>7. \A s, t \in local : s.run = t.run /\ runs'[s.run].local => s = t
      BY <1>0, <3>4, <3>5, <3>6 DEF SnapshotInv
    <3> QED
      BY <1>0, <3>1, <3>5, <3>7 DEF SnapshotInv, ExportIsConsistent
  <2>2. CASE Cardinality(SnapshotsOf(local, r)) # 1
    BY <1>11, <1>15, <2>0, <2>2 DEF MarkLocalSnapshot, Fails, Free
  <2> QED
    BY <2>1, <2>2
<1>16. CASE CopyToCOS
  <2> DEFINE r == worker.row
  <2>1. /\ worker.stage = "copy" /\ SnapshotsOf(local, r) # {} /\ Steps("copied") /\ UNCHANGED <<runs, local>>
        /\ cos' = IF SnapshotsOf(cos, r) = {} THEN cos \cup SnapshotsOf(local, r) ELSE cos
    BY <1>16 DEF CopyToCOS
  <2>2. r \in Runs /\ runs[r].local
    BY <1>0, <2>1 DEF WorkerInv, RowInv, CopyStages
  <2>3. worker'.stage = "copied" /\ worker'.row = r
    BY <1>0, <2>1 DEF Steps, WorkerInv
  <2>4. \A s, t \in SnapshotsOf(local, r) : s = t
    BY <1>0, <2>2 DEF SnapshotInv, SnapshotsOf
  <2>5. /\ cos' \subseteq Snapshots /\ cos \subseteq cos' /\ cos' \subseteq cos \cup local
        /\ \A s, t \in cos' : s.run = t.run => s = t
        /\ \E s \in cos' : s.run = r
    <3>1. CASE SnapshotsOf(cos, r) = {}
      <4>1. cos' = cos \cup SnapshotsOf(local, r) /\ \A s \in cos : s.run # r
        BY <2>1, <3>1 DEF SnapshotsOf
      <4>2. SnapshotsOf(local, r) \subseteq local /\ \A s \in SnapshotsOf(local, r) : s.run = r
        BY DEF SnapshotsOf
      <4> QED
        BY <1>0, <2>1, <2>4, <4>1, <4>2 DEF SnapshotInv
    <3>2. CASE SnapshotsOf(cos, r) # {}
      BY <1>0, <2>1, <3>2 DEF SnapshotInv, SnapshotsOf
    <3> QED
      BY <3>1, <3>2
  <2>6. ExportIsConsistent'
    BY <1>0, <2>1, <2>5 DEF SnapshotInv, ExportIsConsistent
  <2> QED
    BY <1>0, <2>1, <2>3, <2>5, <2>6 DEF SnapshotInv
<1>17. CASE MarkBackupSucceeded
  <2> DEFINE r == worker.row
  <2>1. /\ worker.stage = "copied" /\ Steps("retention") /\ UNCHANGED <<local, cos>>
        /\ runs' = [runs EXCEPT ![r].status = "succeeded", ![r].cos = TRUE]
    BY <1>17 DEF MarkBackupSucceeded
  <2>2. r \in Runs /\ runs[r].local /\ \E s \in cos : s.run = r
    BY <1>0, <2>1 DEF WorkerInv, RowInv, CopyStages, SnapshotInv
  <2>3. /\ worker'.stage = "retention" /\ \A q \in Runs : q # r => runs'[q] = runs[q]
        /\ runs'[r].local = runs[r].local
    BY <1>0, <2>1, <2>2 DEF WorkerInv, RowInv, RunRows, Steps
  <2>4. \A s \in local : s.run \in Runs
    BY <1>0 DEF SnapshotInv, Snapshots
  <2> QED
    BY <1>0, <2>1, <2>2, <2>3, <2>4 DEF SnapshotInv, ExportIsConsistent
<1> QED
  BY <1>3, <1>4, <1>5, <1>6, <1>7, <1>8, <1>9, <1>10, <1>12, <1>13, <1>14, <1>15, <1>16, <1>17 DEF BackupNext, Work

-----------------------------------------------------------------------------
(* Verifications.                                                          *)

\* What an attempt at a verification made is there only while the attempt lasts, unless it was killed.
LEMMA LeftStep ==
    ASSUME CoreInv, LeftInv, [BackupNext]_backupVars
    PROVE  LeftInv'
<1>0. WorkerInv /\ RowInv /\ LeftInv
  BY DEF CoreInv
<1>1. worker.row \notin Checks => databases \subseteq killed
  BY <1>0 DEF LeftInv, NothingLeftBehind
<1>2. worker.stage \in CheckStages => worker.row \in Checks /\ checks[worker.row].status = "restoring"
  BY <1>0 DEF WorkerInv
<1>3. worker.stage \notin CheckStages => worker.row \notin Checks
  BY <1>0, BackupAssumption DEF WorkerInv, Stages
\* A step of a backup, or of the platform.
<1>i. ASSUME UNCHANGED <<restored, databases, killed, checks>>, worker.row = worker'.row \/ worker.row \notin Checks
      PROVE  LeftInv'
  BY <1>0, <1>1, <1>i DEF LeftInv, NothingLeftBehind, Attempt
<1>4. CASE Writes \/ DaysPass \/ Damage \/ UNCHANGED backupVars
  BY <1>i, <1>4 DEF Writes, DaysPass, Damage, backupVars
<1>5. ASSUME NEW r \in Runs, RequestBackup(r) \/ ClaimBackup(r) PROVE LeftInv'
  <2>1. worker = Idle => worker.row \notin Checks
    BY BackupAssumption DEF Idle
  <2> QED
    BY <1>i, <1>5, <2>1 DEF RequestBackup, ClaimBackup
<1>6. ASSUME NEW c \in Checks, RequestVerification(c) PROVE LeftInv'
  <2>1. PICK q \in Runs : checks' = [checks EXCEPT ![c] = [@ EXCEPT !.status = "queued", !.run = q]]
    BY <1>6 DEF RequestVerification
  <2>2. UNCHANGED <<restored, databases, killed, worker>> /\ checks[c].status = "none"
    BY <1>6 DEF RequestVerification
  <2>3. /\ checks'[c].attempts = checks[c].attempts
        /\ \A d \in Checks : d # c => checks'[d] = checks[d]
    BY <1>0, <2>1 DEF RowInv, CheckRows
  <2>4. c \notin restored
    BY <1>0, <2>2 DEF LeftInv, NothingLeftBehind
  <2>5. \A d \in databases \ killed : worker.row = d.check /\ d = Attempt'
    BY <1>0, <2>2, <2>3 DEF LeftInv, NothingLeftBehind, Attempt
  <2> QED
    BY <1>0, <2>2, <2>3, <2>4, <2>5 DEF LeftInv, NothingLeftBehind
<1>7. ASSUME NEW c \in Checks, ClaimVerification(c) PROVE LeftInv'
  <2>1. /\ checks' = [checks EXCEPT ![c].status = "restoring", ![c].attempts = @ + 1]
        /\ worker = Idle /\ UNCHANGED <<restored, databases, killed>>
    BY <1>7 DEF ClaimVerification
  <2>2. databases \subseteq killed
    BY <1>1, <2>1, BackupAssumption DEF Idle
  <2>3. checks'[c].status = "restoring" /\ \A d \in Checks : d # c => checks'[d] = checks[d]
    BY <1>0, <2>1 DEF RowInv, CheckRows
  <2> QED
    BY <1>0, <2>1, <2>2, <2>3 DEF LeftInv, NothingLeftBehind
<1>8. CASE SpaceChecked \/ Dump \/ CheckVersion \/ Mirror \/ ResticBackup \/ MarkLocalSnapshot \/ ExportFails
           \/ CopyToCOS \/ CopyFails \/ MarkBackupSucceeded \/ Retain \/ RetainFails
  <2>1. worker.stage \notin CheckStages
    BY <1>8 DEF SpaceChecked, Dump, CheckVersion, Mirror, ResticBackup, MarkLocalSnapshot, ExportFails, CopyToCOS,
                CopyFails, MarkBackupSucceeded, Retain, RetainFails, CheckStages
  <2> QED
    BY <1>i, <1>3, <1>8, <2>1
       DEF SpaceChecked, Dump, CheckVersion, Mirror, ResticBackup, MarkLocalSnapshot, ExportFails, CopyToCOS,
           CopyFails, MarkBackupSucceeded, Retain, RetainFails
<1>9. CASE RestoreFromCOS
  <2>1. /\ worker.stage = "restore" /\ worker'.row = worker.row /\ UNCHANGED <<databases, killed, checks>>
        /\ restored' = restored \/ restored' = restored \cup {worker.row}
    BY <1>0, <1>9 DEF RestoreFromCOS, Steps, WorkerInv
  <2> QED
    BY <1>0, <1>2, <2>1 DEF LeftInv, NothingLeftBehind, Attempt, CheckStages
<1>10. CASE VerifyManifest
  <2>1. /\ worker.stage = "manifest" /\ worker'.row = worker.row /\ UNCHANGED <<restored, killed, checks>>
        /\ databases' = databases \/ databases' = databases \cup {Attempt}
    BY <1>0, <1>10 DEF VerifyManifest, Steps, WorkerInv
  <2>2. Attempt' = Attempt /\ Attempt \in [check : Checks, attempt : Nat] /\ Attempt.check = worker.row
    BY <1>0, <1>2, <2>1 DEF Attempt, CheckStages, RowInv, CheckRows
  <2> QED
    BY <1>0, <2>1, <2>2 DEF LeftInv, NothingLeftBehind
<1>11. CASE VerifyReferences \/ VerifyFails
  BY <1>0, <1>i, <1>11 DEF VerifyReferences, VerifyFails, Steps, WorkerInv
<1>12. ASSUME Cleanup, worker.row \in Checks, worker' = Idle, UNCHANGED killed,
              \A c \in Checks : c # worker.row => checks'[c] = checks[c]
       PROVE  LeftInv'
  <2>1. databases' \subseteq killed
    BY <1>0, <1>12 DEF LeftInv, NothingLeftBehind, Cleanup
  <2> QED
    BY <1>0, <1>12, <2>1 DEF LeftInv, NothingLeftBehind, Cleanup
<1>13. CASE CompleteVerification
  <2>1. \A c \in Checks : c # worker.row => checks'[c] = checks[c]
    BY <1>0, <1>13 DEF CompleteVerification, RowInv
  <2> QED
    BY <1>2, <1>12, <1>13, <2>1 DEF CompleteVerification, Free, CheckStages
<1>14. CASE ContextEnds
  <2>1. CASE worker.row \in Checks
    BY <1>12, <1>14, <2>1 DEF ContextEnds, Free
  <2>2. CASE worker.row \notin Checks
    BY <1>i, <1>14, <2>2 DEF ContextEnds
  <2> QED
    BY <2>1, <2>2
<1>15. CASE Killed
  <2>1. killed' = killed \cup {Attempt} /\ UNCHANGED <<restored, databases, checks>>
    BY <1>15 DEF Killed
  <2>2. databases \subseteq killed'
    BY <1>0, <2>1 DEF LeftInv, NothingLeftBehind
  <2> QED
    BY <1>0, <2>1, <2>2 DEF LeftInv, NothingLeftBehind
<1> QED
  BY <1>4, <1>5, <1>6, <1>7, <1>8, <1>9, <1>10, <1>11, <1>13, <1>14, <1>15 DEF BackupNext, Work

-----------------------------------------------------------------------------

\* Nothing is backed up at first.
LEMMA BackupInitInv == BackupInit => BackupInv
<1> SUFFICES ASSUME BackupInit PROVE BackupInv
  OBVIOUS
<1>1. CoreInv
  BY DEF BackupInit, CoreInv, WorkerInv, RowInv, RunRows, CheckRows, Idle, Stages, ExportStages, CopyStages,
         CheckStages, Active
<1>2. TreeInv
  BY DEF BackupInit, TreeInv, Trees, NoTree, Idle
<1>3. SnapshotInv
  BY FS_EmptySet DEF BackupInit, SnapshotInv, ExportIsConsistent, Idle
<1>4. LeftInv
  BY DEF BackupInit, LeftInv, NothingLeftBehind
<1> QED
  BY <1>1, <1>2, <1>3, <1>4 DEF BackupInv

\* A set without two different members has at most one.
LEMMA AtMostOne ==
    ASSUME NEW S, \A x, y \in S : x = y
    PROVE  Cardinality(S) <= 1 /\ (S # {} => Cardinality(S) = 1)
<1>1. CASE S = {}
  BY <1>1, FS_EmptySet
<1>2. CASE S # {}
  <2>1. PICK x : x \in S
    BY <1>2
  <2>2. S = {x}
    BY <2>1
  <2> QED
    BY <2>2, FS_Singleton
<1> QED
  BY <1>1, <1>2

\* A run whose local snapshot is recorded is not exported again (ClaimBackup goes on with the copy).
LEMMA ExportedOnceStep ==
    ASSUME CoreInv, [BackupNext]_backupVars, NEW r \in Runs, runs[r].local, staging \in [Runs -> Trees]
    PROVE  staging'[r] = staging[r] /\ SnapshotsOf(local', r) \subseteq SnapshotsOf(local, r)
<1>1. worker.stage \in ExportStages => worker.row \in Runs /\ worker.row # r
  BY DEF CoreInv, WorkerInv, RowInv
<1>2. CASE SpaceChecked \/ Dump \/ Mirror \/ ResticBackup \/ MarkLocalSnapshot
  <2>1. worker.stage \in ExportStages
    BY <1>2 DEF SpaceChecked, Dump, Mirror, ResticBackup, MarkLocalSnapshot, ExportStages
  <2>2. staging'[r] = staging[r]
    BY <1>1, <1>2, <2>1 DEF SpaceChecked, Dump, Mirror, ResticBackup, MarkLocalSnapshot
  <2>3. local' = local \/ \E new : new.run = worker.row /\ local' = local \cup {new}
    BY <1>2 DEF SpaceChecked, Dump, Mirror, ResticBackup, MarkLocalSnapshot
  <2> QED
    BY <1>1, <2>1, <2>2, <2>3 DEF SnapshotsOf
<1>3. CASE ~(SpaceChecked \/ Dump \/ Mirror \/ ResticBackup \/ MarkLocalSnapshot)
  <2>1. staging' = staging /\ local' \subseteq local
    BY <1>3 DEF BackupNext, backupVars, Work, Writes, DaysPass, Damage, RequestBackup, ClaimBackup,
       RequestVerification, ClaimVerification, CheckVersion, CopyToCOS, CopyFails, MarkBackupSucceeded, Retain,
       RestoreFromCOS, VerifyManifest, VerifyReferences, CompleteVerification, ExportFails, RetainFails, VerifyFails,
       ContextEnds, Killed
  <2> QED
    BY <2>1 DEF SnapshotsOf
<1> QED
  BY <1>2, <1>3

\* The step to "references" is taken after the manifest was found to hold (VerifyManifest).
LEMMA IntactStep ==
    ASSUME CoreInv, [BackupNext]_backupVars, worker'.stage = "references", worker.stage # "references"
    PROVE  Intact(Checked)
<1>1. \/ VerifyManifest \/ worker' = worker \/ worker' = Idle
      \/ (\E stage : stage # "references" /\ Steps(stage))
      \/ \E stage, row : stage # "references" /\ worker' = [stage |-> stage, row |-> row]
  BY DEF BackupNext, backupVars, Work, Writes, DaysPass, Damage, RequestBackup, ClaimBackup, ClaimedStage,
       RequestVerification, ClaimVerification, SpaceChecked, Dump, CheckVersion, Fails, Mirror, ResticBackup,
       MarkLocalSnapshot, CopyToCOS, CopyFails, MarkBackupSucceeded, Retain,
       RestoreFromCOS, VerifyReferences, CompleteVerification, ExportFails, RetainFails, VerifyFails,
       ContextEnds, Killed, Free
<1>2. worker \in [stage : Stages, row : Runs \cup Checks \cup {"none"}]
  BY DEF CoreInv, WorkerInv
<1>3. VerifyManifest
  BY <1>1, <1>2 DEF Steps, Idle
<1> QED
  BY <1>2, <1>3 DEF VerifyManifest, ManifestHolds, Steps

\* Backups are worth what their records say, through restarts, deadlines, failing steps, damage and a platform that
\* goes on writing (RunBackup, Export, SnapshotLocal, CopyToCOS, RunVerification).
THEOREM BackupsStaySound == BackupSpec => BackupsAreSound
<1>1. BackupInv => BackupTypeOK /\ ExportIsConsistent /\ SucceededIsStored /\ NothingLeftBehind
  <2> SUFFICES ASSUME BackupInv PROVE BackupTypeOK /\ SucceededIsStored
    BY DEF BackupInv, SnapshotInv, LeftInv
  <2>0. WorkerInv /\ RowInv /\ SnapshotInv
    BY DEF BackupInv, CoreInv
  <2>1. Cardinality(ActiveRuns) <= 1 /\ Cardinality({c \in Checks : checks[c].status = "restoring"}) <= 1
    <3>1. \A r, q \in ActiveRuns : r = q
      BY <2>0 DEF RowInv, ActiveRuns
    <3>2. \A c, d \in {c \in Checks : checks[c].status = "restoring"} : c = d
      BY <2>0 DEF RowInv
    <3> QED
      BY <3>1, <3>2, AtMostOne
  <2>2. BackupTypeOK
    BY <2>0, <2>1 DEF BackupTypeOK, WorkerInv, RowInv, RunRows, CheckRows
  <2>3. ASSUME NEW r \in Runs, runs[r].status = "succeeded"
        PROVE  runs[r].local /\ Cardinality(SnapshotsOf(cos, r)) = 1
    <3>1. SnapshotsOf(cos, r) # {} /\ \A s, t \in SnapshotsOf(cos, r) : s = t
      BY <2>0, <2>3 DEF SnapshotInv, SnapshotsOf
    <3> QED
      BY <2>0, <2>3, <3>1, AtMostOne DEF RowInv
  <2> QED
    BY <2>2, <2>3 DEF SucceededIsStored
<1>2. BackupInv /\ [BackupNext]_backupVars => BackupInv'
  BY CoreStep, TreeStep, SnapshotStep, LeftStep DEF BackupInv
<1>3. BackupInv /\ [BackupNext]_backupVars =>
        [\A r \in Runs :
           runs[r].local => staging'[r] = staging[r] /\ SnapshotsOf(local', r) \subseteq SnapshotsOf(local, r)
        ]_backupVars
  BY ExportedOnceStep DEF BackupInv, TreeInv
<1>4. BackupInv /\ [BackupNext]_backupVars =>
        [worker'.stage = "references" /\ worker.stage # "references" => Intact(Checked)]_backupVars
  BY IntactStep DEF BackupInv
<1>5. BackupSpec => BackupInit /\ [][BackupNext]_backupVars
  BY PTL DEF BackupSpec
<1> QED
  BY <1>1, <1>2, <1>3, <1>4, <1>5, BackupInitInv, PTL DEF BackupsAreSound, ExportedOnce, VerifiedIsIntact
=============================================================================
