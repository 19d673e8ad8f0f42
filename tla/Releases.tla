------------------------------- MODULE Releases -------------------------------
(***************************************************************************)
(* The release program on the production host (internal/release,           *)
(* cmd/yunling-release): bootstrap of the baseline, migration rollout,     *)
(* deploy and manual rollback.  One invocation runs at a time (flock); it  *)
(* may be killed, or a write, a docker command or a check may fail, at any *)
(* step.  Files are replaced atomically, except successful.json, which is  *)
(* created and then written.                                               *)
(***************************************************************************)
EXTENDS Integers

CONSTANTS
    Candidates,     \* candidate run numbers
    NewTree,        \* candidates with the new migration tree; the others and the baseline have the old one
    ReleaseBudgets  \* [kills, mishaps]: invocations killed, and writes, commands or checks that fail

StoredReleases == Candidates \cup {"bootstrap"}

ASSUME ReleaseAssumption ==
    /\ NewTree \subseteq Candidates /\ {"bootstrap", "none", "unread", "mixed"} \cap Candidates = {}
    /\ ReleaseBudgets \subseteq [kills : Nat, mishaps : Nat]

VARIABLES
    history,        \* releases/<target>/release-manifest.json exists
    success,        \* by target: successful.json, "none", "torn" or "whole"
    pending,        \* state-transaction.json
    current,        \* current.json
    previous,       \* previous.json
    override,       \* release the compose override names
    running,        \* release the containers run
    schema,         \* version of the database
    receipts,       \* audit rows release.migration.apply: [from, target]
    baselines,      \* migration-baselines/<target>.json: [from, target]
    invocation,     \* the running invocation
    kills, mishaps,
    healthy,        \* history: releases whose containers passed the health check
    decision,       \* history: the previous and current release decided last
    steady          \* history: the last invocation that touched the containers ended in success, or rolled back
                    \* a release whose state transaction had not been written

releaseVars == <<history, success, pending, current, previous, override, running, schema, receipts, baselines,
                 invocation, kills, mishaps, healthy, decision, steady>>

Nothing == "none"
Unread == "unread"
Nobody == [kind |-> Nothing, target |-> Nothing, step |-> Nothing, found |-> Unread, decided |-> FALSE]
NoTransaction == [current |-> Nothing, previous |-> Nothing]
Old == 15
New == 19
Tree(t) == IF t \in NewTree THEN New ELSE Old

\* The platform runs the images that the bootstrap captures.
ReleaseInit ==
    /\ history = {} /\ success = [t \in StoredReleases |-> Nothing]
    /\ pending = NoTransaction /\ current = Nothing /\ previous = Nothing
    /\ override = Nothing /\ running = "bootstrap" /\ schema = Old /\ receipts = {} /\ baselines = {}
    /\ invocation = Nobody /\ \E budget \in ReleaseBudgets : kills = budget.kills /\ mishaps = budget.mishaps
    /\ healthy = {"bootstrap"} /\ decision = <<Nothing, Nothing>> /\ steady = FALSE

At(step) == invocation.step = step
Goto(step) == invocation' = [invocation EXCEPT !.step = step]
Target == invocation.target
Mishap == mishaps > 0 /\ mishaps' = mishaps - 1
Ends == invocation' = Nobody
Recorded == IF pending = NoTransaction THEN current ELSE pending.current

files == <<history, success, pending, current, previous>>
host == <<override, running>>
database == <<schema, receipts, baselines>>
ghosts == <<healthy, decision, steady>>

-----------------------------------------------------------------------------
(* Every invocation starts with LoadCurrent, which completes a state       *)
(* transaction that was left behind.                                       *)

Begin(kind, t) ==
    /\ invocation = Nobody
    /\ kind = "bootstrap" => t = "bootstrap"
    /\ kind = "deploy" => t \in Candidates
    /\ kind = "migrate" => t \in NewTree
    /\ invocation' = [kind |-> kind, target |-> t, step |-> "recover", found |-> Unread, decided |-> FALSE]
    /\ UNCHANGED <<files, host, database, kills, mishaps, ghosts>>

\* recoverState, file by file
RecoverPrevious ==
    /\ At("recover") /\ pending # NoTransaction
    /\ previous' = pending.previous /\ Goto("recover_current")
    /\ UNCHANGED <<history, success, pending, current, host, database, kills, mishaps, ghosts>>

RecoverCurrent ==
    /\ At("recover_current")
    /\ current' = pending.current /\ Goto("recover_done")
    /\ UNCHANGED <<history, success, pending, previous, host, database, kills, mishaps, ghosts>>

\* Where the program goes on: after LoadCurrent, or after commitState.
AfterRecovery == IF invocation.found = Unread THEN "load"
                 ELSE IF invocation.kind = "bootstrap" THEN "override" ELSE "audit"

RecoverDone ==
    /\ \/ At("recover_done")
       \/ At("recover") /\ pending = NoTransaction
    /\ pending' = NoTransaction /\ Goto(AfterRecovery)
    /\ UNCHANGED <<history, success, current, previous, host, database, kills, mishaps, ghosts>>

-----------------------------------------------------------------------------
(* Whether the request is carried out *)

MigrationBaselineAllows(t) == [from |-> current, target |-> t] \in baselines

Deployable_Unchecked(t) == current # Nothing
Deployable(t) == current # Nothing /\ (Tree(t) = Tree(current) \/ MigrationBaselineAllows(t))
RollbackAllowed(t) == current # Nothing /\ success[t] = "whole"
Receipt(t) == [from |-> current, target |-> t]

ReceiptMatches(t) == schema = New <=> Receipt(t) \in receipts

Migratable(t) == current # Nothing /\ Tree(current) # Tree(t) /\ ReceiptMatches(t)

\* What the invocation goes on with, when the request is carried out.
Accepted(step) ==
    \/ step = "prepare" /\ invocation.kind = "deploy" /\ Deployable(Target)
    \/ step = "prepare" /\ invocation.kind = "rollback" /\ RollbackAllowed(Target)
    \/ step = "migrate" /\ invocation.kind = "migrate" /\ Migratable(Target)
    \/ step = "history" /\ invocation.kind = "bootstrap" /\ current = Nothing /\ override = Nothing
    \/ step = "override" /\ invocation.kind = "bootstrap" /\ current = "bootstrap" /\ override = Nothing

Loaded ==
    /\ At("load")
    /\ \/ \E step \in {"prepare", "migrate", "history", "override"} :
             Accepted(step) /\ invocation' = [invocation EXCEPT !.step = step, !.found = current]
       \/ (\A step \in {"prepare", "migrate", "history", "override"} : ~Accepted(step)) /\ Ends
    /\ UNCHANGED <<files, host, database, kills, mishaps, ghosts>>

-----------------------------------------------------------------------------
(* MigrationRollout: schema and receipt in one transaction, checks, and    *)
(* the baseline of this candidate.                                         *)

\* An invocation that resumes finds the new version and skips the SQL.
Migrated ==
    IF schema = Old THEN schema' = New /\ receipts' = receipts \cup {[from |-> invocation.found, target |-> Target]}
    ELSE UNCHANGED <<schema, receipts>>

MigrationTransaction ==
    /\ At("migrate") /\ Goto("verify") /\ Migrated
    /\ UNCHANGED <<files, host, baselines, kills, mishaps, ghosts>>

BaselineSaved == baselines' = baselines \cup {[from |-> invocation.found, target |-> Target]}

\* verifyMigrationState and SaveMigrationBaseline
SaveMigrationBaseline ==
    /\ At("verify") /\ Ends /\ BaselineSaved
    /\ UNCHANGED <<files, host, schema, receipts, kills, mishaps, ghosts>>

\* psql fails, before or after the commit; users and sessions changed meanwhile; the baseline was not written, or
\* was but its directory not synced.
MigrationFails ==
    /\ Mishap /\ Ends
    /\ \/ At("migrate") /\ (Migrated \/ UNCHANGED <<schema, receipts>>) /\ UNCHANGED baselines
       \/ At("verify") /\ (BaselineSaved \/ UNCHANGED baselines) /\ UNCHANGED <<schema, receipts>>
    /\ UNCHANGED <<files, host, kills, ghosts>>

-----------------------------------------------------------------------------
(* Execute up to the health check                                          *)

\* saveHistory
NotSaved(t) == t \notin history

\* Preflight, pullAndVerify, SaveValidated
Prepare ==
    /\ At("prepare")
    /\ IF invocation.kind = "rollback" THEN Goto("write") /\ UNCHANGED history
       ELSE IF NotSaved(Target) THEN history' = history \cup {Target} /\ Goto("write")
       ELSE Ends /\ UNCHANGED history
    /\ UNCHANGED <<success, pending, current, previous, host, database, kills, mishaps, ghosts>>

\* Before the containers change a failure ends the invocation and undoes nothing; the step that failed may have
\* had its effect all the same.
LoadFails ==
    /\ invocation # Nobody /\ invocation.found = Unread /\ Mishap /\ Ends
    /\ UNCHANGED <<files, host, database, kills, ghosts>>

\* Images and agent release of the running platform cannot be captured.
CaptureFails ==
    /\ At("history") /\ Mishap /\ Ends
    /\ UNCHANGED <<files, host, database, kills, ghosts>>

PrepareFails ==
    /\ At("prepare") /\ Mishap /\ Ends
    /\ history' \in {history} \cup (IF invocation.kind = "deploy" THEN {history \cup {Target}} ELSE {})
    /\ UNCHANGED <<success, pending, current, previous, host, database, kills, ghosts>>

OverrideFails ==
    /\ At("write") \/ At("override")
    /\ Mishap /\ Ends
    /\ override' \in {override, Target} /\ steady' = (steady /\ override' = override)
    /\ UNCHANGED <<files, running, database, kills, healthy, decision>>

WriteOverride ==
    /\ At("write") /\ override' = Target /\ Goto("compose") /\ steady' = FALSE
    /\ UNCHANGED <<files, running, database, kills, mishaps, healthy, decision>>

ComposeUpdate ==
    /\ At("compose") /\ running' = Target /\ Goto("health")
    /\ UNCHANGED <<files, override, database, kills, mishaps, ghosts>>

\* Some of the four containers were replaced.
ComposeFails ==
    /\ At("compose") /\ Mishap /\ running' \in {Target, "mixed"} /\ Goto("restore")
    /\ UNCHANGED <<files, override, database, kills, ghosts>>

HealthPasses ==
    /\ At("health") /\ Goto("success") /\ healthy' = healthy \cup {Target}
    /\ UNCHANGED <<files, host, database, kills, mishaps, decision, steady>>

HealthFails ==
    /\ At("health") /\ Mishap /\ Goto("restore")
    /\ UNCHANGED <<files, host, database, kills, ghosts>>

-----------------------------------------------------------------------------
(* CommitSuccess and CreateBootstrap: successful.json, then the state      *)
(* transaction.                                                            *)

SaveBootstrap ==
    /\ At("history")
    /\ IF NotSaved(Target) THEN history' = history \cup {Target} /\ Goto("success")
       ELSE Ends /\ UNCHANGED history
    /\ UNCHANGED <<success, pending, current, previous, host, database, kills, mishaps, ghosts>>

Fallback == IF invocation.kind = "bootstrap" THEN "abandon" ELSE "restore"

\* A torn file never gets here: its release can be neither deployed nor rolled back to.
WriteSuccess ==
    IF success[Target] = Nothing THEN success' = [success EXCEPT ![Target] = "torn"] /\ Goto("success_body")
    ELSE Goto("commit") /\ UNCHANGED success

CreateSuccess ==
    /\ At("success") /\ WriteSuccess
    /\ UNCHANGED <<history, pending, current, previous, host, database, kills, mishaps, ghosts>>

FillSuccess ==
    /\ At("success_body") /\ success' = [success EXCEPT ![Target] = "whole"] /\ Goto("commit")
    /\ UNCHANGED <<history, pending, current, previous, host, database, kills, mishaps, ghosts>>

Transaction == [current |-> Target, previous |-> current]

\* commitState
CommitState ==
    /\ At("commit") /\ pending' = Transaction
    /\ invocation' = [invocation EXCEPT !.step = "recover", !.decided = TRUE]
    /\ decision' = <<current, Target>>
    /\ UNCHANGED <<history, success, current, previous, host, database, kills, mishaps, healthy, steady>>

\* A write of CommitSuccess fails, before or after the file took its new content.
SuccessFails ==
    /\ At("success") \/ At("success_body")
    /\ Mishap /\ Goto(Fallback)
    /\ IF At("success_body") THEN success' \in {success, [success EXCEPT ![Target] = "whole"]} ELSE UNCHANGED success
    /\ UNCHANGED <<history, pending, current, previous, host, database, kills, ghosts>>

TransactionFails ==
    /\ At("commit") /\ Mishap /\ pending' \in {NoTransaction, Transaction}
    /\ invocation' = [invocation EXCEPT !.step = Fallback, !.decided = pending' # NoTransaction]
    /\ decision' = IF pending' = NoTransaction THEN decision ELSE <<current, Target>>
    /\ UNCHANGED <<history, success, current, previous, host, database, kills, healthy, steady>>

ReplayFails ==
    /\ invocation.decided /\ (At("recover") \/ At("recover_current") \/ At("recover_done"))
    /\ Mishap /\ Goto(Fallback)
    /\ previous' \in {previous, pending.previous}
    /\ current' \in IF At("recover") THEN {current} ELSE {current, pending.current}
    /\ pending' \in IF At("recover_done") THEN {pending, NoTransaction} ELSE {pending}
    /\ UNCHANGED <<history, success, host, database, kills, ghosts>>

\* The last step of a bootstrap
BootstrapOverride ==
    /\ At("override") /\ override' = Target /\ Ends /\ steady' = TRUE
    /\ UNCHANGED <<files, running, database, kills, mishaps, healthy, decision>>

BootstrapAbandoned ==
    /\ At("abandon") /\ Ends
    /\ UNCHANGED <<files, host, database, kills, mishaps, ghosts>>

\* AppendAudit; without it the result is a failure although the release is current.
Audit ==
    /\ At("audit") /\ steady' = TRUE
    /\ Ends /\ (UNCHANGED mishaps \/ Mishap)
    /\ UNCHANGED <<files, host, database, kills, healthy, decision>>

-----------------------------------------------------------------------------
(* failAfterUpdate: back to the release found at the start *)

Restore_NoOverride ==
    /\ At("restore") /\ Goto("recompose")
    /\ UNCHANGED <<files, host, database, kills, mishaps, ghosts>>

Restore ==
    /\ At("restore") /\ override' = invocation.found /\ Goto("recompose")
    /\ UNCHANGED <<files, running, database, kills, mishaps, ghosts>>

RestoreCompose ==
    /\ At("recompose") /\ running' = invocation.found /\ Goto("rehealth")
    /\ UNCHANGED <<files, override, database, kills, mishaps, ghosts>>

\* A rollback after the state transaction was decided does not agree with the recorded state.
RestoreHealth ==
    /\ At("rehealth") /\ Ends /\ steady' = ~invocation.decided
    /\ UNCHANGED <<files, host, database, kills, mishaps, healthy, decision>>

RestoreFails ==
    /\ At("restore") \/ At("recompose") \/ At("rehealth")
    /\ Mishap /\ Ends
    /\ IF At("recompose") THEN running' \in {running, invocation.found, "mixed"} ELSE UNCHANGED running
    /\ UNCHANGED <<files, override, database, kills, ghosts>>

\* The invocation is killed or the host loses power.
Killed ==
    /\ invocation # Nobody /\ kills > 0 /\ kills' = kills - 1 /\ Ends
    /\ UNCHANGED <<files, host, database, mishaps, ghosts>>

ReleaseNext ==
    \/ \E kind \in {"bootstrap", "deploy", "rollback", "migrate"}, t \in StoredReleases : Begin(kind, t)
    \/ RecoverPrevious \/ RecoverCurrent \/ RecoverDone \/ Loaded
    \/ MigrationTransaction \/ SaveMigrationBaseline \/ MigrationFails
    \/ Prepare \/ LoadFails \/ CaptureFails \/ PrepareFails \/ OverrideFails \/ WriteOverride
    \/ ComposeUpdate \/ ComposeFails \/ HealthPasses \/ HealthFails
    \/ SaveBootstrap \/ CreateSuccess \/ FillSuccess \/ CommitState
    \/ SuccessFails \/ TransactionFails \/ ReplayFails
    \/ BootstrapOverride \/ BootstrapAbandoned \/ Audit
    \/ Restore \/ RestoreCompose \/ RestoreHealth \/ RestoreFails \/ Killed

ReleaseSpec == ReleaseInit /\ [][ReleaseNext]_releaseVars
-----------------------------------------------------------------------------
Releases == StoredReleases \cup {Nothing}

\* The state is well formed.
ReleaseTypeOK ==
    /\ history \subseteq StoredReleases /\ success \in [StoredReleases -> {Nothing, "torn", "whole"}]
    /\ pending \in [current : Releases, previous : Releases]
    /\ current \in Releases /\ previous \in Releases /\ override \in Releases /\ running \in StoredReleases \cup {"mixed"}
    /\ schema \in {Old, New}
    /\ receipts \subseteq [from : StoredReleases, target : NewTree]
    /\ baselines \subseteq [from : StoredReleases, target : NewTree]
    /\ invocation.found \in Releases \cup {Unread} /\ kills \in Nat /\ mishaps \in Nat
    /\ healthy \subseteq StoredReleases /\ decision \in Releases \X Releases /\ steady \in BOOLEAN

\* current.json and previous.json never name a release whose containers did not pass the health check, and
\* every release they name can be chosen for a manual rollback: its successful.json is complete
\* (CommitSuccess, LoadTarget).
RecordedIsProved ==
    \A t \in {current, previous, Recorded} \ {Nothing} : t \in healthy /\ t \in history /\ success[t] = "whole"

\* Wherever an invocation is killed or fails, current.json and previous.json are together those of one decided
\* release, or the transaction file still completes them (commitState, recoverState).
StateIsWhole == pending = NoTransaction => <<previous, current>> = decision

\* After a success, or an automatic rollback before the commit was decided, containers, override and recorded
\* state name the same release; invocations that are refused or fail early keep it so (Execute, failAfterUpdate).
HostMatchesState ==
    invocation = Nobody /\ steady => running = Recorded /\ override = Recorded

\* Containers of a release with the new migrations run only on a database that has them, and only once a
\* migration was recorded for a candidate (resolveTarget, MigrationBaselineAllows, applyPlatformMigration).
SchemaBeforeContainers == running \in NewTree => schema = New /\ baselines # {}

\* A baseline belongs to the one candidate whose receipt was committed with the migration; another candidate
\* cannot claim it later (applyPlatformMigration).
BaselineHasReceipt == baselines \subseteq receipts /\ \A x, y \in receipts : x = y

\* What current.json and its backups say is whole, was proved healthy and is what the host runs.
StateIsTrue == ReleaseTypeOK /\ RecordedIsProved /\ StateIsWhole /\ HostMatchesState

\* The schema is there before the containers that need it, and a raised schema has its receipt.
SchemaIsReady == SchemaBeforeContainers /\ BaselineHasReceipt
=============================================================================
