--------------------------- MODULE ReleasesProofs ---------------------------
(***************************************************************************)
(* What the release program records is true, and the schema is there       *)
(* before the containers that need it, for every set of candidates and any *)
(* number of kills and failing steps.  The invariant says for every step   *)
(* of an invocation what it has brought about and what it has not yet; the *)
(* rest of it holds whatever becomes of the invocation.                    *)
(***************************************************************************)
EXTENDS Releases, TLAPS

Replay == {"recover", "recover_current", "recover_done"}
Executing == {"prepare", "write", "compose", "health"}
Committing == {"success", "success_body", "commit"}
Restoring == {"restore", "recompose", "rehealth"}
Migrating == {"migrate", "verify"}
Bootstrapping == {"history", "override", "abandon"}
Phases == {Nothing, "load", "audit"} \cup Replay \cup Executing \cup Committing \cup Restoring \cup Migrating
          \cup Bootstrapping
Changing == {"deploy", "rollback"}
Kinds == {Nothing, "bootstrap", "migrate"} \cup Changing
Invocations == [kind : Kinds, target : Releases, step : Phases, found : Releases \cup {Unread}, decided : BOOLEAN]

\* The steps that belong to each kind of invocation, and when it has read or decided the recorded state.
InvocationInv ==
    /\ invocation \in Invocations
    /\ invocation.step = Nothing => invocation = Nobody
    /\ invocation.step # Nothing => invocation.kind # Nothing /\ Target \in StoredReleases
    /\ invocation.kind = "bootstrap" => Target = "bootstrap"
    /\ invocation.kind = "migrate" => Target \in NewTree
    /\ invocation.step \in Executing \cup Restoring \cup {"audit"} => invocation.kind \in Changing
    /\ invocation.step \in Committing \/ invocation.decided => invocation.kind \in Changing \cup {"bootstrap"}
    /\ invocation.step \in Migrating => invocation.kind = "migrate"
    /\ invocation.step \in Bootstrapping => invocation.kind = "bootstrap"
    /\ invocation.found = Unread <=>
         invocation.step \in {Nothing, "load"} \/ (invocation.step \in Replay /\ ~invocation.decided)
    /\ invocation.decided => invocation.step \in Replay \cup Restoring \cup {"audit", "override", "abandon"}
    /\ invocation.found = Nothing => invocation.kind = "bootstrap"

\* A transaction is there from its commit until it is replayed, and replayed file by file.
FilesInv ==
    /\ pending \in [current : Releases, previous : Releases] /\ current \in Releases /\ previous \in Releases
    /\ decision \in Releases \X Releases
    /\ StateIsWhole
    /\ pending # NoTransaction =>
         /\ pending.current \in StoredReleases /\ decision = <<pending.previous, pending.current>>
         /\ invocation.step \in {Nothing} \cup Replay \/ invocation.decided
         /\ invocation.step \notin {"audit", "override"}
    /\ At("recover_current") => pending # NoTransaction /\ previous = pending.previous
    /\ At("recover_done") => pending # NoTransaction /\ previous = pending.previous /\ current = pending.current
    /\ invocation.decided /\ invocation.step \in Replay => pending # NoTransaction /\ pending.current = Target
    /\ invocation.found # Unread /\ ~invocation.decided => invocation.found = current
    /\ invocation.step \in {"audit", "override"} => current = Target

\* A success file belongs to a saved release that was healthy, and is complete for every release that is named.
StoreInv ==
    /\ history \subseteq StoredReleases /\ healthy \subseteq StoredReleases /\ "bootstrap" \in healthy
    /\ success \in [StoredReleases -> {Nothing, "torn", "whole"}]
    /\ \A t \in StoredReleases : success[t] # Nothing => t \in history /\ t \in healthy

Named == {current, previous, pending.current, pending.previous, invocation.found} \ {Nothing, Unread}
NamedInv == \A t \in Named : t \in StoredReleases /\ success[t] = "whole"

TargetInv ==
    /\ At("prepare") /\ invocation.kind = "rollback" => success[Target] = "whole"
    /\ invocation.step \in {"write", "compose", "health"} \cup Committing => Target \in history
    /\ invocation.step \in {"write", "compose", "health", "success"} => success[Target] # "torn"
    /\ invocation.step \in Committing => Target \in healthy
    /\ At("commit") => success[Target] = "whole"

\* Override and containers: what each step has done to them, and that they are steady only while none has.
HostTypes ==
    /\ override \in Releases /\ running \in StoredReleases \cup {"mixed"} /\ steady \in BOOLEAN
    /\ override = Nothing => running = "bootstrap"

Replaced ==
    /\ invocation.kind \in Changing
    /\ invocation.step \in Committing \cup {"audit"} \/ (invocation.decided /\ invocation.step \in Replay)

TouchInv ==
    /\ invocation.kind = "bootstrap" /\ invocation.found # Unread => override = Nothing
    /\ invocation.step \in {"compose", "health"} \/ Replaced => override = Target
    /\ invocation.step = "health" \/ Replaced => running = Target
    /\ invocation.step \in Restoring => override # Nothing
    /\ invocation.step \in {"recompose", "rehealth"} => override = invocation.found
    /\ At("rehealth") => running = invocation.found

Touching == {"compose", "health", "audit"} \cup Committing \cup Restoring \cup Bootstrapping

SteadyInv ==
    /\ steady => running = Recorded /\ override = Recorded
    /\ invocation.step \in Touching \/ invocation.decided => ~steady

\* The schema goes up once, with the receipt of one candidate; what may run finds the schema it needs.
ReceiptInv ==
    /\ schema \in {Old, New}
    /\ receipts \subseteq [from : StoredReleases, target : NewTree] /\ baselines \subseteq receipts
    /\ schema = Old => receipts = {}
    /\ \A x, y \in receipts : x = y
    /\ At("migrate") /\ schema = New => [from |-> invocation.found, target |-> Target] \in receipts
    /\ At("verify") => schema = New /\ [from |-> invocation.found, target |-> Target] \in receipts

Ready(t) == t \in NewTree => schema = New /\ baselines # {}

ReadyInv ==
    /\ Ready(running)
    /\ \A t \in StoredReleases : success[t] # Nothing => Ready(t)
    /\ invocation.step \in Executing \cup Committing => Ready(Target)

BudgetInv == kills \in Nat /\ mishaps \in Nat

ReleaseInv == InvocationInv /\ FilesInv /\ StoreInv /\ NamedInv /\ TargetInv /\ HostTypes /\ TouchInv
              /\ SteadyInv /\ ReceiptInv /\ ReadyInv /\ BudgetInv

-----------------------------------------------------------------------------
(* The invocation.                                                         *)

\* "none", "unread" and "mixed" name no release.
LEMMA Distinct ==
    /\ Nothing \notin StoredReleases /\ Unread \notin StoredReleases /\ "mixed" \notin StoredReleases
    /\ Nothing # Unread /\ "bootstrap" \in StoredReleases /\ "bootstrap" \notin NewTree /\ NewTree \subseteq StoredReleases
BY ReleaseAssumption DEF StoredReleases, Nothing, Unread

\* An invocation that goes on at another step keeps the rest of its record.
LEMMA GotoFields ==
    ASSUME InvocationInv, NEW s \in Phases, Goto(s)
    PROVE  /\ invocation' \in Invocations /\ invocation'.step = s /\ invocation'.kind = invocation.kind
           /\ Target' = Target /\ invocation'.found = invocation.found /\ invocation'.decided = invocation.decided
BY DEF InvocationInv, Invocations, Goto, Target

\* An invocation that ends leaves no record.
LEMMA EndsFields ==
    ASSUME Ends
    PROVE  /\ invocation' = Nobody /\ invocation' \in Invocations /\ invocation'.step = Nothing
           /\ invocation'.kind = Nothing /\ Target' = Nothing /\ invocation'.found = Unread /\ ~invocation'.decided
<1>1. PICK no \in BOOLEAN : no = FALSE
  OBVIOUS
<1>2. invocation' = [kind |-> Nothing, target |-> Nothing, step |-> Nothing, found |-> Unread, decided |-> no]
  BY <1>1, Zenon DEF Ends, Nobody
<1>3. /\ invocation'.step = Nothing /\ invocation'.kind = Nothing /\ Target' = Nothing /\ invocation'.found = Unread
      /\ invocation'.decided = no /\ invocation' \in Invocations
  BY <1>2 DEF Target, Invocations, Kinds, Phases, Releases
<1>4. ~invocation'.decided
  BY <1>1, <1>3, Zenon
<1> QED
  BY <1>3, <1>4 DEF Ends

\* The invocation a request begins.
LEMMA BeginFields ==
    ASSUME NEW kind \in {"bootstrap", "deploy", "rollback", "migrate"}, NEW t \in StoredReleases, Begin(kind, t)
    PROVE  /\ invocation' \in Invocations /\ invocation'.step = "recover" /\ invocation'.kind = kind
           /\ Target' = t /\ invocation'.found = Unread /\ ~invocation'.decided
<1>1. PICK no \in BOOLEAN : no = FALSE
  OBVIOUS
<1>2. invocation' = [kind |-> kind, target |-> t, step |-> "recover", found |-> Unread, decided |-> no]
  BY <1>1, Zenon DEF Begin
<1>3. /\ invocation'.step = "recover" /\ invocation'.kind = kind /\ Target' = t /\ invocation'.found = Unread
      /\ invocation'.decided = no /\ invocation' \in Invocations
  BY <1>2 DEF Target, Invocations, Kinds, Changing, Phases, Replay, Releases
<1>4. ~invocation'.decided
  BY <1>1, <1>3, Zenon
<1> QED
  BY <1>3, <1>4

\* The invocation that decided a state transaction.
LEMMA DecideFields ==
    ASSUME InvocationInv, NEW s \in Phases, NEW d \in BOOLEAN,
           invocation' = [invocation EXCEPT !.step = s, !.decided = d]
    PROVE  /\ invocation' \in Invocations /\ invocation'.step = s /\ invocation'.kind = invocation.kind
           /\ Target' = Target /\ invocation'.found = invocation.found /\ invocation'.decided = d
BY DEF InvocationInv, Invocations, Target

\* The invocation that has read the recorded state.
LEMMA LoadedFields ==
    ASSUME InvocationInv, FilesInv, NEW s \in Phases, invocation' = [invocation EXCEPT !.step = s, !.found = current]
    PROVE  /\ invocation' \in Invocations /\ invocation'.step = s /\ invocation'.kind = invocation.kind
           /\ Target' = Target /\ invocation'.found = current /\ invocation'.decided = invocation.decided
BY DEF InvocationInv, FilesInv, Invocations, Target

\* The steps an invocation may go on with.
Legal(s) ==
    /\ s \in Phases \ {Nothing} /\ invocation.step # Nothing
    /\ s \in Executing \cup Restoring \cup {"audit"} => invocation.kind \in Changing
    /\ s \in Committing => invocation.kind \in Changing \cup {"bootstrap"}
    /\ s \in Migrating => invocation.kind = "migrate"
    /\ s \in Bootstrapping => invocation.kind = "bootstrap"
    /\ invocation.found = Unread <=> s = "load" \/ (s \in Replay /\ ~invocation.decided)
    /\ invocation.decided => s \in Replay \cup Restoring \cup {"audit", "override", "abandon"}

\* A legal step keeps the invocation well formed.
LEMMA LegalStays ==
    ASSUME InvocationInv, NEW s, Goto(s), Legal(s)
    PROVE  InvocationInv'
<1>1. s \in Phases /\ s # Nothing /\ invocation.step # Nothing
  BY DEF Legal
<1>2. /\ invocation' \in Invocations /\ invocation'.step = s /\ invocation'.kind = invocation.kind
      /\ Target' = Target /\ invocation'.found = invocation.found /\ invocation'.decided = invocation.decided
  BY <1>1, GotoFields
<1> QED
  BY <1>1, <1>2, Distinct DEF InvocationInv, Legal

\* Every step keeps the invocation well formed.
LEMMA InvocationStep ==
    ASSUME InvocationInv, FilesInv, [ReleaseNext]_releaseVars
    PROVE  InvocationInv'
<1>e. ASSUME Ends PROVE InvocationInv'
  BY <1>e, EndsFields, Distinct DEF InvocationInv, Executing, Restoring, Committing, Migrating, Bootstrapping, Nothing
<1>b. ASSUME NEW kind \in {"bootstrap", "deploy", "rollback", "migrate"}, NEW t \in StoredReleases, Begin(kind, t)
      PROVE  InvocationInv'
  <2>1. /\ kind = "bootstrap" => t = "bootstrap"
        /\ kind = "migrate" => t \in NewTree
    BY <1>b DEF Begin
  <2> QED
    BY <1>b, <2>1, BeginFields, Distinct
       DEF InvocationInv, Replay, Executing, Restoring, Committing, Migrating, Bootstrapping, Nothing, Unread
<1>1. CASE RecoverPrevious
  <2>1. Goto("recover_current") /\ Legal("recover_current")
    BY <1>1 DEF RecoverPrevious, At, InvocationInv, Legal, Nothing,
       Phases, Replay, Executing, Committing, Restoring, Migrating, Bootstrapping, Changing
  <2> QED
    BY <2>1, LegalStays
<1>2. CASE RecoverCurrent
  <2>1. Goto("recover_done") /\ Legal("recover_done")
    BY <1>2 DEF RecoverCurrent, At, InvocationInv, Legal, Nothing,
       Phases, Replay, Executing, Committing, Restoring, Migrating, Bootstrapping, Changing
  <2> QED
    BY <2>1, LegalStays
<1>3. CASE MigrationTransaction
  <2>1. Goto("verify") /\ Legal("verify")
    BY <1>3 DEF MigrationTransaction, At, InvocationInv, Legal, Nothing,
       Phases, Replay, Executing, Committing, Restoring, Migrating, Bootstrapping, Changing
  <2> QED
    BY <2>1, LegalStays
<1>4. CASE WriteOverride
  <2>1. Goto("compose") /\ Legal("compose")
    BY <1>4 DEF WriteOverride, At, InvocationInv, Legal, Nothing,
       Phases, Replay, Executing, Committing, Restoring, Migrating, Bootstrapping, Changing
  <2> QED
    BY <2>1, LegalStays
<1>5. CASE ComposeUpdate
  <2>1. Goto("health") /\ Legal("health")
    BY <1>5 DEF ComposeUpdate, At, InvocationInv, Legal, Nothing,
       Phases, Replay, Executing, Committing, Restoring, Migrating, Bootstrapping, Changing
  <2> QED
    BY <2>1, LegalStays
<1>6. CASE ComposeFails
  <2>1. Goto("restore") /\ Legal("restore")
    BY <1>6 DEF ComposeFails, At, InvocationInv, Legal, Nothing,
       Phases, Replay, Executing, Committing, Restoring, Migrating, Bootstrapping, Changing
  <2> QED
    BY <2>1, LegalStays
<1>7. CASE HealthPasses
  <2>1. Goto("success") /\ Legal("success")
    BY <1>7 DEF HealthPasses, At, InvocationInv, Legal, Nothing,
       Phases, Replay, Executing, Committing, Restoring, Migrating, Bootstrapping, Changing
  <2> QED
    BY <2>1, LegalStays
<1>8. CASE HealthFails
  <2>1. Goto("restore") /\ Legal("restore")
    BY <1>8 DEF HealthFails, At, InvocationInv, Legal, Nothing,
       Phases, Replay, Executing, Committing, Restoring, Migrating, Bootstrapping, Changing
  <2> QED
    BY <2>1, LegalStays
<1>9. CASE FillSuccess
  <2>1. Goto("commit") /\ Legal("commit")
    BY <1>9 DEF FillSuccess, At, InvocationInv, Legal, Nothing,
       Phases, Replay, Executing, Committing, Restoring, Migrating, Bootstrapping, Changing
  <2> QED
    BY <2>1, LegalStays
<1>10. CASE Restore
  <2>1. Goto("recompose") /\ Legal("recompose")
    BY <1>10 DEF Restore, At, InvocationInv, Legal, Nothing,
       Phases, Replay, Executing, Committing, Restoring, Migrating, Bootstrapping, Changing
  <2> QED
    BY <2>1, LegalStays
<1>11. CASE RestoreCompose
  <2>1. Goto("rehealth") /\ Legal("rehealth")
    BY <1>11 DEF RestoreCompose, At, InvocationInv, Legal, Nothing,
       Phases, Replay, Executing, Committing, Restoring, Migrating, Bootstrapping, Changing
  <2> QED
    BY <2>1, LegalStays
<1>12. CASE RecoverDone
  <2>1. Goto(AfterRecovery) /\ invocation.step \in Replay
    BY <1>12 DEF RecoverDone, At, Replay
  <2>2. Legal(AfterRecovery)
    BY <2>1 DEF AfterRecovery, InvocationInv, Legal, Nothing, Phases, Replay, Executing, Committing, Restoring,
       Migrating, Bootstrapping, Changing
  <2> QED
    BY <2>1, <2>2, LegalStays
<1>13. CASE Loaded
  <2>1. ASSUME NEW s \in {"prepare", "migrate", "history", "override"}, Accepted(s),
               invocation' = [invocation EXCEPT !.step = s, !.found = current]
        PROVE  InvocationInv'
    <3>1. /\ invocation' \in Invocations /\ invocation'.step = s /\ invocation'.kind = invocation.kind
          /\ Target' = Target /\ invocation'.found = current /\ invocation'.decided = invocation.decided
      <4>1. s \in Phases
        BY <2>1 DEF Phases, Replay, Executing, Committing, Restoring, Migrating, Bootstrapping, Changing
      <4> QED
        BY <2>1, <4>1, LoadedFields
    <3>2. /\ s = "prepare" => invocation.kind \in Changing /\ current # Nothing
          /\ s = "migrate" => invocation.kind = "migrate" /\ current # Nothing
          /\ s \in {"history", "override"} => invocation.kind = "bootstrap"
      BY <2>1 DEF Accepted, Deployable, RollbackAllowed, Migratable, Changing
    <3>3. invocation.step = "load" /\ ~invocation.decided /\ current # Unread
      BY <1>13, Distinct DEF Loaded, At, InvocationInv, FilesInv, Releases, Replay, Restoring
    <3> QED
      BY <3>1, <3>2, <3>3, Distinct DEF InvocationInv, Nothing, Phases, Replay, Executing, Committing,
         Restoring, Migrating, Bootstrapping, Changing
  <2> QED
    BY <1>13, <1>e, <2>1 DEF Loaded
<1>14. CASE Prepare
  <2>1. CASE Ends
    BY <1>e, <2>1
  <2>2. CASE ~Ends
    <3>1. Goto("write") /\ Legal("write")
      BY <1>14, <2>2 DEF Prepare, At, InvocationInv, Legal, Nothing,
         Phases, Replay, Executing, Committing, Restoring, Migrating, Bootstrapping, Changing
    <3> QED
      BY <3>1, LegalStays
  <2> QED
    BY <2>1, <2>2
<1>15. CASE SaveBootstrap
  <2>1. CASE Ends
    BY <1>e, <2>1
  <2>2. CASE ~Ends
    <3>1. Goto("success") /\ Legal("success")
      BY <1>15, <2>2 DEF SaveBootstrap, At, InvocationInv, Legal, Nothing,
         Phases, Replay, Executing, Committing, Restoring, Migrating, Bootstrapping, Changing
    <3> QED
      BY <3>1, LegalStays
  <2> QED
    BY <2>1, <2>2
<1>16. CASE CreateSuccess
  <2>1. PICK s \in {"success_body", "commit"} : Goto(s)
    BY <1>16 DEF CreateSuccess, WriteSuccess
  <2>2. Legal(s)
    BY <1>16 DEF CreateSuccess, At, InvocationInv, Legal, Nothing, Phases, Replay, Executing, Committing,
       Restoring, Migrating, Bootstrapping, Changing
  <2> QED
    BY <2>1, <2>2, LegalStays
<1>17. CASE SuccessFails \/ ReplayFails
  <2>1. Goto(Fallback) /\ (invocation.step \in Committing \/ (invocation.decided /\ invocation.step \in Replay))
    BY <1>17 DEF SuccessFails, ReplayFails, At, Committing, Replay
  <2>2. Legal(Fallback)
    BY <2>1 DEF Fallback, InvocationInv, Legal, Nothing, Phases, Replay, Executing, Committing, Restoring,
       Migrating, Bootstrapping, Changing
  <2> QED
    BY <2>1, <2>2, LegalStays
<1>18. CASE CommitState \/ TransactionFails
  <2>1. PICK s \in {"recover", Fallback}, d \in BOOLEAN :
          invocation' = [invocation EXCEPT !.step = s, !.decided = d] /\ (s = "recover" => d)
    <3>1. CASE CommitState
      <4>1. invocation' = [invocation EXCEPT !.step = "recover", !.decided = TRUE]
        BY <3>1 DEF CommitState
      <4> QED
        BY <4>1, Zenon
    <3>2. CASE TransactionFails
      <4>1. invocation' = [invocation EXCEPT !.step = Fallback, !.decided = (pending' # NoTransaction)]
        BY <3>2, Zenon DEF TransactionFails
      <4>2. (pending' # NoTransaction) \in BOOLEAN
        BY Zenon
      <4>3. Fallback # "recover"
        BY DEF Fallback
      <4> QED
        BY <4>1, <4>2, <4>3, Zenon
    <3> QED
      BY <1>18, <3>1, <3>2, Zenon
  <2>2. At("commit")
    BY <1>18 DEF CommitState, TransactionFails
  <2>3. invocation.kind \in Changing \cup {"bootstrap"} /\ invocation.found # Unread
    BY <2>2 DEF InvocationInv, At, Committing, Replay, Nothing
  <2>4. s \in {"recover", "abandon", "restore"} /\ (s = "abandon" => invocation.kind = "bootstrap")
        /\ (s = "restore" => invocation.kind \in Changing)
    BY <2>3 DEF Fallback
  <2>5. /\ invocation' \in Invocations /\ invocation'.step = s /\ invocation'.kind = invocation.kind
        /\ Target' = Target /\ invocation'.found = invocation.found /\ invocation'.decided = d
    <3>1. s \in Phases
      BY <2>4 DEF Phases, Replay, Executing, Committing, Restoring, Migrating, Bootstrapping, Changing
    <3> QED
      BY <2>1, <3>1, DecideFields
  <2> QED
    BY <2>1, <2>2, <2>3, <2>4, <2>5 DEF InvocationInv, At, Nothing, Phases, Replay, Executing, Committing,
       Restoring, Migrating, Bootstrapping, Changing
<1>19. CASE \/ SaveMigrationBaseline \/ MigrationFails \/ LoadFails \/ CaptureFails \/ PrepareFails \/ OverrideFails
           \/ BootstrapOverride \/ BootstrapAbandoned \/ Audit \/ RestoreHealth \/ RestoreFails \/ Killed
  BY <1>e, <1>19 DEF SaveMigrationBaseline, MigrationFails, LoadFails, CaptureFails, PrepareFails, OverrideFails,
     BootstrapOverride, BootstrapAbandoned, Audit, RestoreHealth, RestoreFails, Killed
<1>20. CASE UNCHANGED releaseVars
  BY <1>20 DEF releaseVars, InvocationInv, Target
<1> QED
  BY <1>b, <1>1, <1>2, <1>3, <1>4, <1>5, <1>6, <1>7, <1>8, <1>9, <1>10, <1>11, <1>12, <1>13, <1>14, <1>15,
     <1>16, <1>17, <1>18, <1>19, <1>20 DEF ReleaseNext

-----------------------------------------------------------------------------
(* The state files.                                                        *)

\* recoverState, commitState and what fails in them keep the files whole, or the transaction that completes them.
LEMMA FilesStep ==
    ASSUME InvocationInv, FilesInv, [ReleaseNext]_releaseVars
    PROVE  FilesInv'
<1>t. /\ pending \in [current : Releases, previous : Releases] /\ current \in Releases /\ previous \in Releases
      /\ decision \in Releases \X Releases
  BY DEF FilesInv
<1>n. NoTransaction \in [current : Releases, previous : Releases] /\ NoTransaction.current = Nothing
  BY DEF NoTransaction, Releases
<1>l. invocation.step \in Phases /\ (invocation.step \notin {Nothing} \cup Replay /\ ~invocation.decided => pending = NoTransaction)
  BY DEF InvocationInv, Invocations, FilesInv
<1>e. ASSUME Ends, UNCHANGED <<pending, current, previous, decision>> PROVE FilesInv'
  BY <1>e, EndsFields DEF FilesInv, StateIsWhole, At, Nothing
<1>g. ASSUME NEW s \in Phases \ (Replay \cup {"audit", "override", "load"}), Goto(s),
             invocation.step \notin {Nothing} \cup Replay, UNCHANGED <<pending, current, previous, decision>>
      PROVE  FilesInv'
  <2>1. /\ invocation'.step = s /\ Target' = Target /\ invocation'.found = invocation.found
        /\ invocation'.decided = invocation.decided
    BY <1>g, GotoFields
  <2>2. s \notin Replay /\ s \notin {"audit", "override"} /\ s # "recover_current" /\ s # "recover_done"
    BY <1>g DEF Replay
  <2> QED
    BY <1>g, <2>1, <2>2 DEF FilesInv, StateIsWhole, At
<1>b. ASSUME NEW kind \in {"bootstrap", "deploy", "rollback", "migrate"}, NEW t \in StoredReleases, Begin(kind, t)
      PROVE  FilesInv'
  <2>1. UNCHANGED <<pending, current, previous, decision>>
    BY <1>b DEF Begin, files, ghosts
  <2> QED
    BY <1>b, <2>1, BeginFields DEF FilesInv, StateIsWhole, At, Replay
<1>1. CASE RecoverPrevious
  <2>1. /\ invocation.step = "recover" /\ pending # NoTransaction /\ previous' = pending.previous
        /\ UNCHANGED <<pending, current, decision>> /\ Goto("recover_current")
    BY <1>1 DEF RecoverPrevious, At, ghosts
  <2>2. /\ invocation'.step = "recover_current" /\ Target' = Target /\ invocation'.found = invocation.found
        /\ invocation'.decided = invocation.decided
    BY <2>1, GotoFields DEF Phases, Replay
  <2>3. invocation.found = Unread <=> ~invocation.decided
    BY <2>1 DEF InvocationInv, Replay, Nothing
  <2> QED
    BY <1>t, <2>1, <2>2, <2>3 DEF FilesInv, StateIsWhole, At, Replay
<1>2. CASE RecoverCurrent
  <2>1. /\ invocation.step = "recover_current" /\ current' = pending.current
        /\ UNCHANGED <<pending, previous, decision>> /\ Goto("recover_done")
    BY <1>2 DEF RecoverCurrent, At, ghosts
  <2>2. /\ invocation'.step = "recover_done" /\ Target' = Target /\ invocation'.found = invocation.found
        /\ invocation'.decided = invocation.decided
    BY <2>1, GotoFields DEF Phases, Replay
  <2>3. invocation.found = Unread <=> ~invocation.decided
    BY <2>1 DEF InvocationInv, Replay, Nothing
  <2>4. pending # NoTransaction /\ previous = pending.previous
    BY <2>1 DEF FilesInv, At
  <2> QED
    BY <1>t, <2>1, <2>2, <2>3, <2>4 DEF FilesInv, StateIsWhole, At, Replay
<1>3. CASE RecoverDone
  <2>1. /\ pending' = NoTransaction /\ UNCHANGED <<current, previous, decision>> /\ Goto(AfterRecovery)
        /\ invocation.step \in Replay
        /\ At("recover_done") \/ pending = NoTransaction
    BY <1>3 DEF RecoverDone, At, ghosts, Replay
  <2>2. AfterRecovery \in {"load", "override", "audit"} /\ AfterRecovery \in Phases
        /\ (AfterRecovery = "load" <=> invocation.found = Unread)
    BY DEF AfterRecovery, Phases, Bootstrapping
  <2>3. /\ invocation'.step = AfterRecovery /\ Target' = Target /\ invocation'.found = invocation.found
        /\ invocation'.decided = invocation.decided
    BY <2>1, <2>2, GotoFields
  <2>4. invocation.found = Unread <=> ~invocation.decided
    BY <2>1 DEF InvocationInv, Replay, Nothing
  <2>5. <<previous, current>> = decision
    <3>1. CASE pending = NoTransaction
      BY <3>1 DEF FilesInv, StateIsWhole
    <3>2. CASE pending # NoTransaction
      BY <2>1, <3>2 DEF FilesInv
    <3> QED
      BY <3>1, <3>2
  <2>6. invocation.decided => current = Target
    BY <2>1 DEF FilesInv
  <2> QED
    BY <1>t, <1>n, <2>1, <2>2, <2>3, <2>4, <2>5, <2>6 DEF FilesInv, StateIsWhole, At, Replay
<1>4. CASE CommitState \/ TransactionFails
  <2>1. At("commit") /\ ~invocation.decided /\ pending = NoTransaction /\ Target \in StoredReleases
        /\ invocation.found # Unread
    <3>1. invocation.step = "commit"
      BY <1>4 DEF CommitState, TransactionFails, At
    <3>2. ~invocation.decided /\ Target \in StoredReleases /\ invocation.found # Unread
      BY <3>1 DEF InvocationInv, Replay, Restoring, Nothing
    <3> QED
      BY <1>l, <3>1, <3>2 DEF At, Nothing, Replay
  <2>2. UNCHANGED <<current, previous>>
    BY <1>4 DEF CommitState, TransactionFails
  <2>3. PICK s \in {"recover", Fallback}, d \in BOOLEAN :
          /\ invocation' = [invocation EXCEPT !.step = s, !.decided = d]
          /\ d <=> pending' # NoTransaction
          /\ s = "recover" => d
          /\ d => pending' = Transaction /\ decision' = <<current, Target>>
          /\ ~d => decision' = decision
    <3>1. Transaction # NoTransaction
      BY <2>1, Distinct DEF Transaction, NoTransaction
    <3>2. CASE CommitState
      BY <3>1, <3>2 DEF CommitState
    <3>3. CASE TransactionFails
      <4>1. PICK d \in BOOLEAN : d = (pending' # NoTransaction)
        OBVIOUS
      <4>2. invocation' = [invocation EXCEPT !.step = Fallback, !.decided = d]
        BY <3>3, <4>1, Zenon DEF TransactionFails
      <4>3. pending' \in {NoTransaction, Transaction}
            /\ (pending' = NoTransaction => decision' = decision)
            /\ (pending' # NoTransaction => decision' = <<current, Target>>)
        BY <3>3 DEF TransactionFails
      <4>4. Fallback # "recover"
        BY DEF Fallback
      <4>5. d <=> pending' # NoTransaction
        BY <4>1, Zenon
      <4> QED
        BY <4>2, <4>3, <4>4, <4>5
    <3> QED
      BY <1>4, <3>2, <3>3
  <2>4. s \in Phases /\ s \notin {"recover_current", "recover_done", "audit", "override"} /\ (s \in Replay => s = "recover")
    BY <2>3 DEF Fallback, Phases, Replay, Bootstrapping, Restoring
  <2>5. invocation'.step = s /\ Target' = Target /\ invocation'.found = invocation.found /\ invocation'.decided = d
    BY <2>3, <2>4, DecideFields
  <2>6. d => /\ pending' \in [current : Releases, previous : Releases] /\ pending'.current = Target
             /\ pending'.previous = current /\ decision' = <<current, Target>> /\ decision' \in Releases \X Releases
    BY <1>t, <2>1, <2>3 DEF Transaction, Releases
  <2>7. ~d => pending' = pending /\ decision' = decision
    BY <2>1, <2>3
  <2>8. CASE d
    BY <1>t, <2>1, <2>2, <2>3, <2>4, <2>5, <2>6, <2>8 DEF FilesInv, StateIsWhole, At
  <2>9. CASE ~d
    BY <1>t, <2>1, <2>2, <2>3, <2>4, <2>5, <2>7, <2>9 DEF FilesInv, StateIsWhole, At
  <2> QED
    BY <2>8, <2>9
<1>5. CASE ReplayFails
  <2>1. /\ invocation.decided /\ invocation.step \in Replay /\ Goto(Fallback) /\ UNCHANGED decision
        /\ previous' \in {previous, pending.previous}
        /\ current' \in {current, pending.current}
        /\ pending' \in {pending, NoTransaction} /\ (pending' # pending => At("recover_done"))
    BY <1>5 DEF ReplayFails, At, ghosts, Replay
  <2>2. /\ pending # NoTransaction /\ pending.current \in StoredReleases /\ decision = <<pending.previous, pending.current>>
        /\ (At("recover_done") => previous = pending.previous /\ current = pending.current)
    BY <2>1 DEF FilesInv
  <2>3. Fallback \in Phases /\ Fallback \notin Replay \cup {"recover_current", "recover_done", "audit", "override"}
    BY DEF Fallback, Phases, Replay, Bootstrapping, Restoring
  <2>4. /\ invocation'.step = Fallback /\ Target' = Target /\ invocation'.found = invocation.found
        /\ invocation'.decided = invocation.decided
    BY <2>1, <2>3, GotoFields
  <2>5. /\ pending' \in [current : Releases, previous : Releases] /\ current' \in Releases /\ previous' \in Releases
    BY <1>t, <1>n, <2>1
  <2>6. pending' = NoTransaction => <<previous', current'>> = decision
    BY <2>1, <2>2
  <2> QED
    BY <1>t, <2>1, <2>2, <2>3, <2>4, <2>5, <2>6 DEF FilesInv, StateIsWhole, At
<1>6. CASE Loaded
  <2>1. UNCHANGED <<pending, current, previous, decision>> /\ invocation.step = "load"
    BY <1>6 DEF Loaded, At, files, ghosts
  <2>2. ~invocation.decided /\ pending = NoTransaction
    <3>1. ~invocation.decided
      BY <2>1 DEF InvocationInv, Replay, Restoring
    <3> QED
      BY <1>l, <2>1, <3>1 DEF Nothing, Replay
  <2>3. ASSUME NEW s \in {"prepare", "migrate", "history", "override"}, Accepted(s),
               invocation' = [invocation EXCEPT !.step = s, !.found = current]
        PROVE  FilesInv'
    <3>1. s \in Phases /\ s \notin Replay
      BY <2>3 DEF Phases, Replay, Executing, Migrating, Bootstrapping
    <3>2. invocation'.step = s /\ Target' = Target /\ invocation'.found = current /\ invocation'.decided = invocation.decided
      BY <2>3, <3>1, LoadedFields
    <3>3. s = "override" => current = Target
      BY <2>3 DEF Accepted, InvocationInv
    <3> QED
      BY <2>1, <2>2, <2>3, <3>1, <3>2, <3>3 DEF FilesInv, StateIsWhole, At
  <2> QED
    BY <1>6, <1>e, <2>1, <2>3 DEF Loaded
<1>7. CASE \/ MigrationTransaction \/ WriteOverride \/ ComposeUpdate \/ ComposeFails \/ HealthPasses \/ HealthFails
           \/ FillSuccess \/ Restore \/ RestoreCompose \/ CreateSuccess \/ SuccessFails \/ Prepare \/ SaveBootstrap
  <2>1. UNCHANGED <<pending, current, previous, decision>>
    BY <1>7 DEF MigrationTransaction, WriteOverride, ComposeUpdate, ComposeFails, HealthPasses, HealthFails,
       FillSuccess, Restore, RestoreCompose, CreateSuccess, SuccessFails, Prepare, SaveBootstrap, files, ghosts
  <2>2. invocation.step \notin {Nothing} \cup Replay
    BY <1>7 DEF MigrationTransaction, WriteOverride, ComposeUpdate, ComposeFails, HealthPasses, HealthFails,
       FillSuccess, Restore, RestoreCompose, CreateSuccess, SuccessFails, Prepare, SaveBootstrap, At, Nothing, Replay
  <2>3. Ends \/ \E s \in {"verify", "write", "compose", "health", "restore", "success", "success_body", "commit",
                          "recompose", "rehealth", "abandon"} : Goto(s)
    BY <1>7 DEF MigrationTransaction, WriteOverride, ComposeUpdate, ComposeFails, HealthPasses, HealthFails,
       FillSuccess, Restore, RestoreCompose, CreateSuccess, WriteSuccess, SuccessFails, Fallback, Prepare, SaveBootstrap
  <2> QED
    BY <1>e, <1>g, <2>1, <2>2, <2>3
       DEF Phases, Replay, Executing, Committing, Restoring, Migrating, Bootstrapping, Nothing
<1>8. CASE \/ SaveMigrationBaseline \/ MigrationFails \/ LoadFails \/ CaptureFails \/ PrepareFails \/ OverrideFails
           \/ BootstrapOverride \/ BootstrapAbandoned \/ Audit \/ RestoreHealth \/ RestoreFails \/ Killed
  BY <1>e, <1>8 DEF SaveMigrationBaseline, MigrationFails, LoadFails, CaptureFails, PrepareFails, OverrideFails,
     BootstrapOverride, BootstrapAbandoned, Audit, RestoreHealth, RestoreFails, Killed, files, ghosts
<1>9. CASE UNCHANGED releaseVars
  BY <1>9 DEF releaseVars, FilesInv, StateIsWhole, At, Target
<1> QED
  BY <1>b, <1>1, <1>2, <1>3, <1>4, <1>5, <1>6, <1>7, <1>8, <1>9 DEF ReleaseNext

-----------------------------------------------------------------------------
(* Success files.                                                          *)

\* Histories, health and success files of the releases.
LEMMA StoreStep ==
    ASSUME InvocationInv, StoreInv, TargetInv, [ReleaseNext]_releaseVars
    PROVE  StoreInv' /\ \A t \in StoredReleases : success[t] = "whole" => success'[t] = "whole"
<1>t. /\ history \subseteq StoredReleases /\ healthy \subseteq StoredReleases /\ "bootstrap" \in healthy
      /\ success \in [StoredReleases -> {Nothing, "torn", "whole"}]
      /\ \A t \in StoredReleases : success[t] # Nothing => t \in history /\ t \in healthy
  BY DEF StoreInv
<1>s. invocation.step # Nothing => Target \in StoredReleases
  BY DEF InvocationInv
<1>m. ASSUME UNCHANGED success, history' \in {history, history \cup {Target}}, healthy' \in {healthy, healthy \cup {Target}},
             history' # history \/ healthy' # healthy => Target \in StoredReleases
      PROVE  StoreInv' /\ \A t \in StoredReleases : success[t] = "whole" => success'[t] = "whole"
  BY <1>t, <1>m DEF StoreInv
<1>1. CASE CreateSuccess \/ FillSuccess \/ SuccessFails
  <2>1. invocation.step \in {"success", "success_body"} /\ UNCHANGED <<history, healthy>>
    BY <1>1 DEF CreateSuccess, FillSuccess, SuccessFails, At, ghosts
  <2>2. Target \in StoredReleases /\ Target \in history /\ Target \in healthy
    BY <1>s, <2>1 DEF TargetInv, Committing, Nothing
  <2>3. \/ success' = success
        \/ success[Target] = Nothing /\ success' = [success EXCEPT ![Target] = "torn"]
        \/ success' = [success EXCEPT ![Target] = "whole"]
    BY <1>1 DEF CreateSuccess, WriteSuccess, FillSuccess, SuccessFails
  <2>4. CASE success' = success
    BY <1>m, <2>1, <2>4
  <2>5. ASSUME NEW v \in {"torn", "whole"}, success' = [success EXCEPT ![Target] = v], v = "torn" => success[Target] = Nothing
        PROVE  StoreInv' /\ \A t \in StoredReleases : success[t] = "whole" => success'[t] = "whole"
    BY <1>t, <2>1, <2>2, <2>5 DEF StoreInv, Nothing
  <2> QED
    BY <2>3, <2>4, <2>5
<1>2. CASE Prepare \/ PrepareFails \/ SaveBootstrap \/ HealthPasses
  <2>1. invocation.step # Nothing
    BY <1>2 DEF Prepare, PrepareFails, SaveBootstrap, HealthPasses, At, Nothing
  <2>2. /\ UNCHANGED success /\ history' \in {history, history \cup {Target}}
        /\ healthy' \in {healthy, healthy \cup {Target}}
    BY <1>2 DEF Prepare, PrepareFails, SaveBootstrap, HealthPasses, files, ghosts
  <2> QED
    BY <1>m, <1>s, <2>1, <2>2
<1>3. ASSUME UNCHANGED <<success, history, healthy>>
      PROVE  StoreInv' /\ \A t \in StoredReleases : success[t] = "whole" => success'[t] = "whole"
  BY <1>m, <1>3
<1>4. CASE \E kind \in {"bootstrap", "deploy", "rollback", "migrate"}, t \in StoredReleases : Begin(kind, t)
  BY <1>3, <1>4 DEF Begin, files, ghosts
<1>5. CASE \/ RecoverPrevious \/ RecoverCurrent \/ RecoverDone \/ Loaded \/ MigrationTransaction
           \/ SaveMigrationBaseline \/ MigrationFails \/ LoadFails \/ CaptureFails \/ OverrideFails \/ WriteOverride
  BY <1>3, <1>5 DEF RecoverPrevious, RecoverCurrent, RecoverDone, Loaded, MigrationTransaction, SaveMigrationBaseline,
     MigrationFails, LoadFails, CaptureFails, OverrideFails, WriteOverride, files, ghosts
<1>6. CASE \/ ComposeUpdate \/ ComposeFails \/ HealthFails \/ CommitState \/ TransactionFails \/ ReplayFails
           \/ BootstrapOverride \/ BootstrapAbandoned \/ Audit \/ Restore \/ RestoreCompose \/ RestoreHealth
           \/ RestoreFails \/ Killed \/ UNCHANGED releaseVars
  BY <1>3, <1>6 DEF ComposeUpdate, ComposeFails, HealthFails, CommitState, TransactionFails, ReplayFails,
     BootstrapOverride, BootstrapAbandoned, Audit, Restore, RestoreCompose, RestoreHealth, RestoreFails, Killed,
     releaseVars, files, ghosts
<1> QED
  BY <1>1, <1>2, <1>4, <1>5, <1>6 DEF ReleaseNext

\* A file or an invocation names what was named, or the target of a commit.
LEMMA NamedStep ==
    ASSUME InvocationInv, FilesInv, [ReleaseNext]_releaseVars, NEW t \in Named'
    PROVE  t \in Named \/ (At("commit") /\ t = Target)
<1>n. NoTransaction.current = Nothing /\ NoTransaction.previous = Nothing
  BY DEF NoTransaction
<1>u. ASSUME UNCHANGED <<pending, current, previous>>, invocation'.found \in {Nothing, Unread, current, invocation.found}
      PROVE  t \in Named
  BY <1>u DEF Named
<1>1. CASE RecoverPrevious \/ RecoverCurrent \/ RecoverDone \/ ReplayFails
  <2>1. /\ previous' \in {previous, pending.previous} /\ current' \in {current, pending.current}
        /\ pending' \in {pending, NoTransaction}
    BY <1>1 DEF RecoverPrevious, RecoverCurrent, RecoverDone, ReplayFails
  <2>2. invocation'.found = invocation.found
    <3>1. PICK s \in {"recover_current", "recover_done", AfterRecovery, Fallback} : Goto(s)
      BY <1>1 DEF RecoverPrevious, RecoverCurrent, RecoverDone, ReplayFails
    <3>2. s \in Phases
      BY <3>1 DEF AfterRecovery, Fallback, Phases, Replay, Restoring, Bootstrapping
    <3> QED
      BY <3>1, <3>2, GotoFields
  <2>3. pending'.current \in {pending.current, Nothing} /\ pending'.previous \in {pending.previous, Nothing}
    BY <1>n, <2>1
  <2> QED
    BY <2>1, <2>2, <2>3 DEF Named
<1>2. CASE CommitState \/ TransactionFails
  <2>1. At("commit") /\ pending' \in {NoTransaction, Transaction} /\ UNCHANGED <<current, previous>>
    BY <1>2 DEF CommitState, TransactionFails
  <2>2. invocation'.found = invocation.found
    <3>1. \E s \in {"recover", Fallback} : \E d : invocation' = [invocation EXCEPT !.step = s, !.decided = d]
      BY <1>2 DEF CommitState, TransactionFails
    <3> QED
      BY <3>1 DEF InvocationInv, Invocations
  <2>3. pending'.current \in {Target, Nothing} /\ pending'.previous \in {current, Nothing}
    BY <1>n, <2>1 DEF Transaction
  <2> QED
    BY <2>1, <2>2, <2>3 DEF Named
<1>3. CASE \E kind \in {"bootstrap", "deploy", "rollback", "migrate"}, r \in StoredReleases : Begin(kind, r)
  <2>1. UNCHANGED <<pending, current, previous>>
    BY <1>3 DEF Begin, files
  <2> QED
    BY <1>3, <1>u, <2>1, BeginFields
<1>4. CASE Loaded
  <2>1. UNCHANGED <<pending, current, previous>>
    BY <1>4 DEF Loaded, files
  <2>2. Ends \/ \E s \in {"prepare", "migrate", "history", "override"} :
                  invocation' = [invocation EXCEPT !.step = s, !.found = current]
    BY <1>4 DEF Loaded
  <2>3. invocation'.found \in {Unread, current}
    BY <2>2, EndsFields, LoadedFields DEF Phases, Executing, Migrating, Bootstrapping
  <2> QED
    BY <1>u, <2>1, <2>3
<1>5. CASE \/ MigrationTransaction \/ WriteOverride \/ ComposeUpdate \/ ComposeFails \/ HealthPasses \/ HealthFails
           \/ FillSuccess \/ Restore \/ RestoreCompose \/ CreateSuccess \/ SuccessFails \/ Prepare \/ SaveBootstrap
  <2>1. UNCHANGED <<pending, current, previous>>
    BY <1>5 DEF MigrationTransaction, WriteOverride, ComposeUpdate, ComposeFails, HealthPasses, HealthFails,
       FillSuccess, Restore, RestoreCompose, CreateSuccess, SuccessFails, Prepare, SaveBootstrap, files
  <2>2. Ends \/ \E s \in {"verify", "write", "compose", "health", "restore", "success", "success_body", "commit",
                          "recompose", "rehealth", "abandon"} : Goto(s)
    BY <1>5 DEF MigrationTransaction, WriteOverride, ComposeUpdate, ComposeFails, HealthPasses, HealthFails,
       FillSuccess, Restore, RestoreCompose, CreateSuccess, WriteSuccess, SuccessFails, Fallback, Prepare, SaveBootstrap
  <2>3. invocation'.found \in {Unread, invocation.found}
    BY <2>2, EndsFields, GotoFields DEF Phases, Executing, Committing, Restoring, Migrating, Bootstrapping
  <2> QED
    BY <1>u, <2>1, <2>3
<1>6. CASE \/ SaveMigrationBaseline \/ MigrationFails \/ LoadFails \/ CaptureFails \/ PrepareFails \/ OverrideFails
           \/ BootstrapOverride \/ BootstrapAbandoned \/ Audit \/ RestoreHealth \/ RestoreFails \/ Killed
  BY <1>6, <1>u, EndsFields DEF SaveMigrationBaseline, MigrationFails, LoadFails, CaptureFails, PrepareFails,
     OverrideFails, BootstrapOverride, BootstrapAbandoned, Audit, RestoreHealth, RestoreFails, Killed, files
<1>7. CASE UNCHANGED releaseVars
  BY <1>7, <1>u DEF releaseVars
<1> QED
  BY <1>1, <1>2, <1>3, <1>4, <1>5, <1>6, <1>7 DEF ReleaseNext

\* Every release that a file names keeps its complete success file.
LEMMA WholeStep ==
    ASSUME InvocationInv, FilesInv, StoreInv, NamedInv, TargetInv, [ReleaseNext]_releaseVars
    PROVE  NamedInv'
<1> SUFFICES ASSUME NEW t \in Named' PROVE t \in StoredReleases /\ success'[t] = "whole"
  BY DEF NamedInv
<1>1. t \in Named \/ (At("commit") /\ t = Target)
  BY NamedStep
<1>2. t \in StoredReleases /\ success[t] = "whole"
  BY <1>1 DEF NamedInv, TargetInv, InvocationInv, At, Nothing
<1> QED
  BY <1>2, StoreStep

\* What holds of the target at each step towards the commit.
LEMMA TargetStep ==
    ASSUME InvocationInv, StoreInv, TargetInv, [ReleaseNext]_releaseVars
    PROVE  TargetInv'
<1>s. invocation.step # Nothing => Target \in StoredReleases
  BY DEF InvocationInv
<1>o. ASSUME invocation'.step \notin {"prepare", "write", "compose", "health"} \cup Committing PROVE TargetInv'
  BY <1>o DEF TargetInv, At, Committing
<1>1. CASE Loaded
  <2>1. ASSUME NEW s \in {"prepare", "migrate", "history", "override"}, Accepted(s),
               invocation' = [invocation EXCEPT !.step = s, !.found = current]
        PROVE  TargetInv'
    <3>1. invocation'.step = s /\ Target' = Target /\ invocation'.kind = invocation.kind /\ UNCHANGED success
      BY <1>1, <2>1 DEF Loaded, Target, InvocationInv, Invocations, files
    <3>2. s = "prepare" /\ invocation.kind = "rollback" => success[Target] = "whole"
      BY <2>1 DEF Accepted, RollbackAllowed
    <3> QED
      BY <2>1, <3>1, <3>2 DEF TargetInv, At, Committing
  <2> QED
    BY <1>1, <1>o, <2>1, EndsFields DEF Loaded, Committing, Nothing
<1>2. CASE Prepare
  <2>1. CASE Ends
    BY <1>o, <2>1, EndsFields DEF Committing, Nothing
  <2>2. CASE ~Ends
    <3>1. /\ invocation.step = "prepare" /\ Goto("write") /\ UNCHANGED success
          /\ \/ invocation.kind = "rollback" /\ UNCHANGED history
             \/ Target \notin history /\ history' = history \cup {Target}
      BY <1>2, <2>2 DEF Prepare, NotSaved, At
    <3>2. invocation'.step = "write" /\ Target' = Target
      BY <3>1, GotoFields DEF Phases, Executing
    <3>3. Target \in history' /\ success[Target] # "torn"
      BY <1>s, <3>1 DEF StoreInv, TargetInv, At, Nothing
    <3> QED
      BY <3>1, <3>2, <3>3 DEF TargetInv, At, Committing
  <2> QED
    BY <2>1, <2>2
<1>3. CASE SaveBootstrap
  <2>1. CASE Ends
    BY <1>o, <2>1, EndsFields DEF Committing, Nothing
  <2>2. CASE ~Ends
    <3>1. /\ invocation.step = "history" /\ Goto("success") /\ UNCHANGED <<success, healthy>>
          /\ Target \notin history /\ history' = history \cup {Target}
      BY <1>3, <2>2 DEF SaveBootstrap, NotSaved, At, ghosts
    <3>2. invocation'.step = "success" /\ Target' = Target
      BY <3>1, GotoFields DEF Phases, Committing
    <3>3. Target = "bootstrap"
      BY <3>1 DEF InvocationInv, Bootstrapping
    <3>4. Target \in history' /\ Target \in healthy /\ success[Target] # "torn"
      BY <1>s, <3>1, <3>3 DEF StoreInv, Nothing
    <3> QED
      BY <3>1, <3>2, <3>4 DEF TargetInv, At, Committing
  <2> QED
    BY <2>1, <2>2
<1>4. CASE WriteOverride \/ ComposeUpdate \/ HealthPasses
  <2>1. /\ invocation.step \in {"write", "compose", "health"} /\ UNCHANGED <<history, success>>
        /\ healthy' \in {healthy, healthy \cup {Target}}
    BY <1>4 DEF WriteOverride, ComposeUpdate, HealthPasses, At, files, ghosts
  <2>2. PICK s \in {"compose", "health", "success"} : Goto(s) /\ (s = "success" => healthy' = healthy \cup {Target})
    BY <1>4 DEF WriteOverride, ComposeUpdate, HealthPasses
  <2>3. invocation'.step = s /\ Target' = Target
    BY <2>2, GotoFields DEF Phases, Executing, Committing
  <2>4. Target \in history /\ success[Target] # "torn"
    BY <2>1 DEF TargetInv
  <2> QED
    BY <2>1, <2>2, <2>3, <2>4 DEF TargetInv, At, Committing
<1>5. CASE CreateSuccess \/ FillSuccess
  <2>1. invocation.step \in {"success", "success_body"} /\ UNCHANGED <<history, healthy>>
    BY <1>5 DEF CreateSuccess, FillSuccess, At, ghosts
  <2>2. /\ Target \in StoredReleases /\ Target \in history /\ Target \in healthy
        /\ success \in [StoredReleases -> {Nothing, "torn", "whole"}]
    BY <1>s, <2>1 DEF TargetInv, StoreInv, Committing, Nothing
  <2>3. PICK s \in {"success_body", "commit"} : Goto(s) /\ (s = "commit" => success'[Target] = "whole")
    <3>1. CASE CreateSuccess
      <4>1. success[Target] # "torn"
        BY <3>1 DEF CreateSuccess, TargetInv, At
      <4> QED
        BY <2>2, <3>1, <4>1 DEF CreateSuccess, WriteSuccess
    <3>2. CASE FillSuccess
      BY <2>2, <3>2 DEF FillSuccess
    <3> QED
      BY <1>5, <3>1, <3>2
  <2>4. invocation'.step = s /\ Target' = Target
    BY <2>3, GotoFields DEF Phases, Committing
  <2> QED
    BY <2>1, <2>2, <2>3, <2>4 DEF TargetInv, At, Committing
<1>6. CASE \E kind \in {"bootstrap", "deploy", "rollback", "migrate"}, r \in StoredReleases : Begin(kind, r)
  BY <1>6, <1>o, BeginFields DEF Committing
<1>7. CASE \/ RecoverPrevious \/ RecoverCurrent \/ RecoverDone \/ ReplayFails \/ MigrationTransaction \/ ComposeFails
           \/ HealthFails \/ SuccessFails \/ Restore \/ RestoreCompose
  <2>1. PICK s \in {"recover_current", "recover_done", AfterRecovery, Fallback, "verify", "restore", "recompose",
                    "rehealth"} : Goto(s)
    BY <1>7 DEF RecoverPrevious, RecoverCurrent, RecoverDone, ReplayFails, MigrationTransaction, ComposeFails,
           HealthFails, SuccessFails, Restore, RestoreCompose
  <2>2. s \in Phases /\ s \notin {"prepare", "write", "compose", "health"} \cup Committing
    BY <2>1 DEF AfterRecovery, Fallback, Phases, Replay, Restoring, Migrating, Bootstrapping, Committing
  <2> QED
    BY <1>o, <2>1, <2>2, GotoFields
<1>8. CASE CommitState \/ TransactionFails
  <2>1. PICK s \in {"recover", Fallback} : \E d : invocation' = [invocation EXCEPT !.step = s, !.decided = d]
    BY <1>8 DEF CommitState, TransactionFails
  <2>2. invocation'.step = s
    BY <2>1 DEF InvocationInv, Invocations
  <2> QED
    BY <1>o, <2>1, <2>2 DEF Fallback, Committing
<1>9. CASE \/ SaveMigrationBaseline \/ MigrationFails \/ LoadFails \/ CaptureFails \/ PrepareFails \/ OverrideFails
           \/ BootstrapOverride \/ BootstrapAbandoned \/ Audit \/ RestoreHealth \/ RestoreFails \/ Killed
  <2>1. Ends
    BY <1>9 DEF SaveMigrationBaseline, MigrationFails, LoadFails, CaptureFails, PrepareFails, OverrideFails,
       BootstrapOverride, BootstrapAbandoned, Audit, RestoreHealth, RestoreFails, Killed
  <2> QED
    BY <1>o, <2>1, EndsFields DEF Committing, Nothing
<1>10. CASE UNCHANGED releaseVars
  BY <1>10 DEF releaseVars, TargetInv, At, Target
<1> QED
  BY <1>1, <1>2, <1>3, <1>4, <1>5, <1>6, <1>7, <1>8, <1>9, <1>10 DEF ReleaseNext

-----------------------------------------------------------------------------
(* Override and containers.                                                *)

\* Where an invocation rolls back it knows the release that it found.
LEMMA FoundIsStored ==
    ASSUME InvocationInv
    PROVE  invocation.step \in Restoring \cup Migrating => invocation.found \in StoredReleases
<1>1. invocation.step \in Restoring \cup Migrating => invocation.found # Unread /\ invocation.found # Nothing
  BY DEF InvocationInv, Restoring, Migrating, Replay, Changing, Nothing
<1> QED
  BY <1>1 DEF InvocationInv, Invocations, Releases

\* Without an override the containers are those of the baseline.
LEMMA HostTypesStep ==
    ASSUME InvocationInv, HostTypes, TouchInv, [ReleaseNext]_releaseVars
    PROVE  HostTypes'
<1>t. /\ override \in Releases /\ running \in StoredReleases \cup {"mixed"} /\ steady \in BOOLEAN
      /\ override = Nothing => running = "bootstrap"
  BY DEF HostTypes
<1>s. invocation.step # Nothing => Target \in StoredReleases /\ Target \in Releases /\ Target # Nothing
  BY Distinct DEF InvocationInv, Releases
<1>f. invocation.step \in Restoring =>
        invocation.found \in StoredReleases /\ invocation.found \in Releases /\ invocation.found # Nothing
  BY FoundIsStored, Distinct DEF Releases
<1>u. ASSUME UNCHANGED <<override, running, steady>> PROVE HostTypes'
  BY <1>t, <1>u DEF HostTypes
<1>1. CASE OverrideFails \/ WriteOverride \/ BootstrapOverride
  <2>1. invocation.step # Nothing /\ override' \in {override, Target} /\ UNCHANGED running
    BY <1>1 DEF OverrideFails, WriteOverride, BootstrapOverride, At, Nothing
  <2>2. steady' \in BOOLEAN
    BY <1>1 DEF OverrideFails, WriteOverride, BootstrapOverride
  <2> QED
    BY <1>t, <1>s, <2>1, <2>2 DEF HostTypes
<1>2. CASE ComposeUpdate \/ ComposeFails
  <2>1. invocation.step = "compose" /\ running' \in {Target, "mixed"} /\ UNCHANGED <<override, steady>>
    BY <1>2 DEF ComposeUpdate, ComposeFails, At, ghosts
  <2>2. override = Target
    BY <2>1 DEF TouchInv
  <2> QED
    BY <1>t, <1>s, <2>1, <2>2 DEF HostTypes, Nothing
<1>3. CASE Restore
  <2>1. invocation.step \in Restoring /\ override' = invocation.found /\ UNCHANGED <<running, steady>>
    BY <1>3 DEF Restore, At, ghosts, Restoring
  <2> QED
    BY <1>t, <1>f, <2>1 DEF HostTypes
<1>4. CASE RestoreCompose \/ RestoreFails
  <2>1. /\ invocation.step \in Restoring /\ UNCHANGED <<override, steady>>
        /\ running' \in {running, invocation.found, "mixed"}
    BY <1>4 DEF RestoreCompose, RestoreFails, At, ghosts, Restoring
  <2>2. override # Nothing
    BY <2>1 DEF TouchInv
  <2> QED
    BY <1>t, <1>f, <2>1, <2>2 DEF HostTypes
<1>5. CASE Audit \/ RestoreHealth
  <2>1. UNCHANGED <<override, running>>
    BY <1>5 DEF Audit, RestoreHealth, host
  <2>2. steady' \in BOOLEAN
    BY <1>5 DEF Audit, RestoreHealth
  <2> QED
    BY <1>t, <2>1, <2>2 DEF HostTypes
<1>6. CASE \E kind \in {"bootstrap", "deploy", "rollback", "migrate"}, t \in StoredReleases : Begin(kind, t)
  BY <1>u, <1>6 DEF Begin, host, ghosts
<1>7. CASE \/ RecoverPrevious \/ RecoverCurrent \/ RecoverDone \/ Loaded \/ MigrationTransaction
           \/ SaveMigrationBaseline \/ MigrationFails \/ LoadFails \/ CaptureFails \/ Prepare \/ PrepareFails
  BY <1>u, <1>7 DEF RecoverPrevious, RecoverCurrent, RecoverDone, Loaded, MigrationTransaction, SaveMigrationBaseline,
     MigrationFails, LoadFails, CaptureFails, Prepare, PrepareFails, host, ghosts
<1>8. CASE \/ HealthPasses \/ HealthFails \/ SaveBootstrap \/ CreateSuccess \/ FillSuccess \/ SuccessFails \/ CommitState
           \/ TransactionFails \/ ReplayFails \/ BootstrapAbandoned \/ Killed \/ UNCHANGED releaseVars
  BY <1>u, <1>8 DEF HealthPasses, HealthFails, SaveBootstrap, CreateSuccess, FillSuccess, SuccessFails, CommitState,
     TransactionFails, ReplayFails, BootstrapAbandoned, Killed, releaseVars, host, ghosts
<1> QED
  BY <1>1, <1>2, <1>3, <1>4, <1>5, <1>6, <1>7, <1>8 DEF ReleaseNext

\* What an invocation has done to override and containers.
LEMMA TouchStep ==
    ASSUME InvocationInv, HostTypes, TouchInv, [ReleaseNext]_releaseVars
    PROVE  TouchInv'
<1>s. invocation.step # Nothing => Target # Nothing
  BY Distinct DEF InvocationInv
<1>f. invocation.step \in Restoring => invocation.found # Nothing
  BY FoundIsStored, Distinct
<1>e. ASSUME Ends PROVE TouchInv'
  BY <1>e, EndsFields DEF TouchInv, Replaced, At, Changing, Committing, Restoring, Nothing
<1>g. ASSUME NEW s \in Phases, Goto(s)
      PROVE  /\ invocation'.step = s /\ invocation'.kind = invocation.kind /\ Target' = Target
             /\ invocation'.found = invocation.found /\ invocation'.decided = invocation.decided
  BY <1>g, GotoFields
<1>1. CASE \E kind \in {"bootstrap", "deploy", "rollback", "migrate"}, t \in StoredReleases : Begin(kind, t)
  BY <1>1, BeginFields DEF TouchInv, Replaced, At, Committing, Restoring
<1>2. CASE RecoverPrevious \/ RecoverCurrent \/ RecoverDone
  <2>1. /\ invocation.step \in Replay /\ UNCHANGED <<override, running>>
    BY <1>2 DEF RecoverPrevious, RecoverCurrent, RecoverDone, At, Replay, host
  <2>2. PICK s \in {"recover_current", "recover_done", AfterRecovery} : Goto(s)
    BY <1>2 DEF RecoverPrevious, RecoverCurrent, RecoverDone
  <2>3. s \in Replay \cup {"load", "override"} \/ (s = "audit" /\ invocation.found # Unread)
    BY <2>2 DEF AfterRecovery, Replay
  <2>4. s \in Phases /\ s \notin Restoring \cup Committing \cup {"compose", "health"}
    BY <2>3 DEF Phases, Replay, Bootstrapping, Restoring, Committing
  <2>5. invocation.found # Unread => invocation.decided
    BY <2>1 DEF InvocationInv
  <2> QED
    BY <1>g, <2>1, <2>2, <2>3, <2>4, <2>5 DEF TouchInv, Replaced, At, Restoring, Committing, Replay
<1>3. CASE Loaded
  <2>1. ASSUME NEW s \in {"prepare", "migrate", "history", "override"}, Accepted(s),
               invocation' = [invocation EXCEPT !.step = s, !.found = current]
        PROVE  TouchInv'
    <3>1. /\ invocation'.step = s /\ invocation'.kind = invocation.kind /\ invocation'.decided = invocation.decided
          /\ UNCHANGED <<override, running>>
      BY <1>3, <2>1 DEF Loaded, InvocationInv, Invocations, host
    <3>2. invocation.kind = "bootstrap" => override = Nothing
      BY <2>1 DEF Accepted
    <3> QED
      BY <2>1, <3>1, <3>2 DEF TouchInv, Replaced, At, Committing, Restoring, Replay
  <2> QED
    BY <1>3, <1>e, <2>1 DEF Loaded
<1>4. CASE Prepare \/ MigrationTransaction
  <2>1. CASE Ends
    BY <1>e, <2>1
  <2>2. CASE ~Ends
    <3>1. PICK s \in {"write", "verify"} : Goto(s) /\ UNCHANGED <<override, running>>
      BY <1>4, <2>2 DEF Prepare, MigrationTransaction, host
    <3> QED
      BY <1>g, <3>1 DEF TouchInv, Replaced, At, Phases, Executing, Migrating, Committing, Restoring, Replay
  <2> QED
    BY <2>1, <2>2
<1>5. CASE WriteOverride
  <2>1. invocation.step = "write" /\ override' = Target /\ Goto("compose") /\ UNCHANGED running
    BY <1>5 DEF WriteOverride, At
  <2>2. invocation.kind # "bootstrap"
    BY <2>1 DEF InvocationInv, Executing, Changing
  <2> QED
    BY <1>g, <2>1, <2>2 DEF TouchInv, Replaced, At, Phases, Executing, Committing, Restoring, Replay
<1>6. CASE ComposeUpdate
  <2>1. invocation.step = "compose" /\ running' = Target /\ Goto("health") /\ UNCHANGED override
    BY <1>6 DEF ComposeUpdate, At
  <2> QED
    BY <1>g, <2>1 DEF TouchInv, Replaced, At, Phases, Executing, Committing, Restoring, Replay
<1>7. CASE ComposeFails \/ HealthFails
  <2>1. invocation.step \in {"compose", "health"} /\ Goto("restore") /\ UNCHANGED override
    BY <1>7 DEF ComposeFails, HealthFails, At, host
  <2>2. override = Target /\ override # Nothing
    BY <1>s, <2>1 DEF TouchInv, Nothing
  <2> QED
    BY <1>g, <2>1, <2>2 DEF TouchInv, Replaced, At, Phases, Committing, Restoring, Replay
<1>8. CASE HealthPasses
  <2>1. invocation.step = "health" /\ Goto("success") /\ UNCHANGED <<override, running>>
    BY <1>8 DEF HealthPasses, At, host
  <2> QED
    BY <1>g, <2>1 DEF TouchInv, Replaced, At, Phases, Committing, Restoring, Replay
<1>9. CASE SaveBootstrap
  <2>1. CASE Ends
    BY <1>e, <2>1
  <2>2. CASE ~Ends
    <3>1. invocation.step = "history" /\ Goto("success") /\ UNCHANGED <<override, running>>
      BY <1>9, <2>2 DEF SaveBootstrap, At, host
    <3>2. invocation.kind = "bootstrap"
      BY <3>1 DEF InvocationInv, Bootstrapping
    <3> QED
      BY <1>g, <3>1, <3>2 DEF TouchInv, Replaced, At, Phases, Changing, Committing, Restoring, Replay
  <2> QED
    BY <2>1, <2>2
<1>10. CASE CreateSuccess \/ FillSuccess
  <2>1. invocation.step \in Committing /\ UNCHANGED <<override, running>>
    BY <1>10 DEF CreateSuccess, FillSuccess, At, host, Committing
  <2>2. PICK s \in {"success_body", "commit"} : Goto(s)
    BY <1>10 DEF CreateSuccess, WriteSuccess, FillSuccess
  <2> QED
    BY <1>g, <2>1, <2>2 DEF TouchInv, Replaced, At, Phases, Committing, Restoring, Replay
<1>11. CASE CommitState \/ TransactionFails \/ SuccessFails \/ ReplayFails
  <2>1. /\ invocation.step \in Committing \/ (invocation.decided /\ invocation.step \in Replay)
        /\ UNCHANGED <<override, running>>
    BY <1>11 DEF CommitState, TransactionFails, SuccessFails, ReplayFails, At, host, Committing, Replay
  <2>2. PICK s \in {"recover", Fallback} :
          /\ invocation'.step = s /\ invocation'.kind = invocation.kind /\ Target' = Target
          /\ invocation'.found = invocation.found
    <3>1. CASE CommitState \/ TransactionFails
      <4>1. PICK s \in {"recover", Fallback} : \E d : invocation' = [invocation EXCEPT !.step = s, !.decided = d]
        BY <3>1 DEF CommitState, TransactionFails
      <4> QED
        BY <4>1 DEF InvocationInv, Invocations, Target
    <3>2. CASE SuccessFails \/ ReplayFails
      <4>1. Goto(Fallback) /\ Fallback \in Phases
        BY <3>2 DEF SuccessFails, ReplayFails, Fallback, Phases, Restoring, Bootstrapping
      <4> QED
        BY <1>g, <4>1
    <3> QED
      BY <1>11, <3>1, <3>2
  <2>3. invocation.kind \in Changing \cup {"bootstrap"} /\ Target # Nothing /\ invocation.found # Unread
    BY <1>s, <2>1 DEF InvocationInv, Committing, Replay, Nothing
  <2>4. invocation.kind \in Changing => override = Target /\ running = Target
    BY <2>1 DEF TouchInv, Replaced
  <2>5. s \in {"recover", "abandon", "restore"} /\ (s = "restore" => invocation.kind \in Changing)
    BY <2>2, <2>3 DEF Fallback
  <2> QED
    BY <2>1, <2>2, <2>3, <2>4, <2>5 DEF TouchInv, Replaced, At, Committing, Restoring, Replay, Changing
<1>12. CASE Restore
  <2>1. invocation.step = "restore" /\ override' = invocation.found /\ Goto("recompose") /\ UNCHANGED running
    BY <1>12 DEF Restore, At
  <2>2. invocation.found # Nothing /\ invocation.kind # "bootstrap"
    BY <1>f, <2>1 DEF InvocationInv, Restoring, Changing
  <2> QED
    BY <1>g, <2>1, <2>2 DEF TouchInv, Replaced, At, Phases, Committing, Restoring, Replay
<1>13. CASE RestoreCompose
  <2>1. invocation.step = "recompose" /\ running' = invocation.found /\ Goto("rehealth") /\ UNCHANGED override
    BY <1>13 DEF RestoreCompose, At
  <2> QED
    BY <1>g, <2>1 DEF TouchInv, Replaced, At, Phases, Committing, Restoring, Replay
<1>14. CASE \/ SaveMigrationBaseline \/ MigrationFails \/ LoadFails \/ CaptureFails \/ PrepareFails \/ OverrideFails
            \/ BootstrapOverride \/ BootstrapAbandoned \/ Audit \/ RestoreHealth \/ RestoreFails \/ Killed
  BY <1>e, <1>14 DEF SaveMigrationBaseline, MigrationFails, LoadFails, CaptureFails, PrepareFails, OverrideFails,
     BootstrapOverride, BootstrapAbandoned, Audit, RestoreHealth, RestoreFails, Killed
<1>15. CASE UNCHANGED releaseVars
  BY <1>15 DEF releaseVars, TouchInv, Replaced, At, Target
<1> QED
  BY <1>1, <1>2, <1>3, <1>4, <1>5, <1>6, <1>7, <1>8, <1>9, <1>10, <1>11, <1>12, <1>13, <1>14, <1>15 DEF ReleaseNext

\* Only a commit changes what is recorded: the replay of a transaction brings the files to it.
LEMMA RecordedStays ==
    ASSUME FilesInv, [ReleaseNext]_releaseVars, ~invocation.decided, ~At("commit")
    PROVE  Recorded' = Recorded
<1>u. ASSUME UNCHANGED <<pending, current>> PROVE Recorded' = Recorded
  BY <1>u DEF Recorded
<1>1. CASE RecoverPrevious
  BY <1>1, <1>u DEF RecoverPrevious
<1>2. CASE RecoverCurrent
  <2>1. current' = pending.current /\ UNCHANGED pending /\ pending # NoTransaction
    BY <1>2 DEF RecoverCurrent, FilesInv
  <2> QED
    BY <2>1 DEF Recorded
<1>3. CASE RecoverDone
  <2>1. pending' = NoTransaction /\ UNCHANGED current /\ (pending = NoTransaction \/ current = pending.current)
    BY <1>3 DEF RecoverDone, FilesInv
  <2> QED
    BY <2>1 DEF Recorded
<1>4. CASE CommitState \/ TransactionFails \/ ReplayFails
  BY <1>4 DEF CommitState, TransactionFails, ReplayFails
<1>5. CASE \E kind \in {"bootstrap", "deploy", "rollback", "migrate"}, t \in StoredReleases : Begin(kind, t)
  BY <1>u, <1>5 DEF Begin, files
<1>6. CASE \/ Loaded \/ MigrationTransaction \/ SaveMigrationBaseline \/ MigrationFails \/ Prepare \/ LoadFails
           \/ CaptureFails \/ PrepareFails \/ OverrideFails \/ WriteOverride \/ ComposeUpdate \/ ComposeFails
           \/ HealthPasses \/ HealthFails
  BY <1>u, <1>6 DEF Loaded, MigrationTransaction, SaveMigrationBaseline, MigrationFails, Prepare, LoadFails,
     CaptureFails, PrepareFails, OverrideFails, WriteOverride, ComposeUpdate, ComposeFails, HealthPasses, HealthFails,
     files
<1>7. CASE \/ SaveBootstrap \/ CreateSuccess \/ FillSuccess \/ SuccessFails \/ BootstrapOverride \/ BootstrapAbandoned
           \/ Audit \/ Restore \/ RestoreCompose \/ RestoreHealth \/ RestoreFails \/ Killed \/ UNCHANGED releaseVars
  BY <1>u, <1>7 DEF SaveBootstrap, CreateSuccess, FillSuccess, SuccessFails, BootstrapOverride, BootstrapAbandoned,
     Audit, Restore, RestoreCompose, RestoreHealth, RestoreFails, Killed, releaseVars, files
<1> QED
  BY <1>1, <1>2, <1>3, <1>4, <1>5, <1>6, <1>7 DEF ReleaseNext

\* Containers and override are those of the recorded release while they count as steady.
LEMMA SteadyStep ==
    ASSUME InvocationInv, FilesInv, HostTypes, TouchInv, SteadyInv, [ReleaseNext]_releaseVars
    PROVE  SteadyInv'
<1>u. ASSUME UNCHANGED <<override, running, steady>>, ~At("commit"),
             invocation'.step \in Touching \/ invocation'.decided => ~steady
      PROVE  SteadyInv'
  <2>1. CASE invocation.decided
    BY <1>u, <2>1 DEF SteadyInv
  <2>2. CASE ~invocation.decided
    BY <1>u, <2>2, RecordedStays DEF SteadyInv
  <2> QED
    BY <2>1, <2>2
<1>f. ASSUME ~steady' PROVE SteadyInv'
  BY <1>f DEF SteadyInv
<1>k. ASSUME invocation.step \in Touching \/ invocation.decided, UNCHANGED steady PROVE SteadyInv'
  BY <1>f, <1>k DEF SteadyInv
<1>e. ASSUME Ends, UNCHANGED <<override, running, steady>> PROVE SteadyInv'
  <2>1. CASE At("commit")
    BY <1>e, <1>k, <2>1 DEF At, Touching, Committing
  <2>2. CASE ~At("commit")
    BY <1>e, <1>u, <2>2, EndsFields DEF Touching, Committing, Restoring, Bootstrapping, Nothing
  <2> QED
    BY <2>1, <2>2
<1>1. CASE \E kind \in {"bootstrap", "deploy", "rollback", "migrate"}, t \in StoredReleases : Begin(kind, t)
  <2>1. UNCHANGED <<override, running, steady>> /\ ~At("commit")
    BY <1>1 DEF Begin, host, ghosts, Nobody, At, Nothing
  <2>2. invocation'.step = "recover" /\ ~invocation'.decided
    BY <1>1, BeginFields
  <2> QED
    BY <1>u, <2>1, <2>2 DEF Touching, Committing, Restoring, Bootstrapping
<1>2. CASE RecoverPrevious \/ RecoverCurrent \/ RecoverDone
  <2>1. UNCHANGED <<override, running, steady>> /\ invocation.step \in Replay
    BY <1>2 DEF RecoverPrevious, RecoverCurrent, RecoverDone, host, ghosts, At, Replay
  <2>2. PICK s \in {"recover_current", "recover_done", AfterRecovery} : Goto(s)
    BY <1>2 DEF RecoverPrevious, RecoverCurrent, RecoverDone
  <2>3. CASE invocation.decided
    BY <1>k, <2>1, <2>3
  <2>4. CASE ~invocation.decided
    <3>1. s \in {"recover_current", "recover_done", "load"}
      BY <2>1, <2>2, <2>4 DEF AfterRecovery, InvocationInv
    <3>2. invocation'.step = s /\ ~invocation'.decided
      BY <2>2, <2>4, <3>1, GotoFields DEF Phases, Replay
    <3> QED
      BY <1>u, <2>1, <3>1, <3>2 DEF Touching, Committing, Restoring, Bootstrapping, At, Replay
  <2> QED
    BY <2>3, <2>4
<1>3. CASE Loaded
  <2>0. UNCHANGED <<override, running, steady>> /\ invocation.step = "load"
    BY <1>3 DEF Loaded, host, ghosts, At
  <2>1. ASSUME NEW s \in {"prepare", "migrate", "history", "override"}, Accepted(s),
               invocation' = [invocation EXCEPT !.step = s, !.found = current]
        PROVE  SteadyInv'
    <3>1. invocation'.step = s /\ ~invocation'.decided /\ ~invocation.decided
      BY <2>0, <2>1 DEF InvocationInv, Invocations, Replay, Restoring
    <3>2. Recorded = current
      BY <2>0, <3>1 DEF Recorded, FilesInv, Replay, Nothing
    <3>3. s \in {"history", "override"} => ~steady
      <4>1. s \in {"history", "override"} => override = Nothing /\ current \in {Nothing, "bootstrap"}
        BY <2>1 DEF Accepted
      <4>2. s = "override" => current = "bootstrap"
        BY <2>1 DEF Accepted
      <4> QED
        BY <3>2, <4>1, <4>2, Distinct DEF SteadyInv, HostTypes
    <3> QED
      BY <1>u, <2>0, <2>1, <3>1, <3>3 DEF Touching, Committing, Restoring, Bootstrapping, At
  <2> QED
    BY <1>3, <1>e, <2>0, <2>1 DEF Loaded
<1>4. CASE Prepare \/ MigrationTransaction
  <2>1. UNCHANGED <<override, running, steady>> /\ invocation.step \in {"prepare", "migrate"}
    BY <1>4 DEF Prepare, MigrationTransaction, host, ghosts, At
  <2>2. CASE Ends
    BY <1>e, <2>1, <2>2
  <2>3. CASE ~Ends
    <3>1. PICK s \in {"write", "verify"} : Goto(s)
      BY <1>4, <2>3 DEF Prepare, MigrationTransaction
    <3>2. invocation'.step = s /\ invocation'.decided = invocation.decided
      BY <3>1, GotoFields DEF Phases, Executing, Migrating
    <3>3. ~invocation.decided
      BY <2>1 DEF InvocationInv, Replay, Restoring
    <3> QED
      BY <1>u, <2>1, <3>1, <3>2, <3>3 DEF Touching, Committing, Restoring, Bootstrapping, At
  <2> QED
    BY <2>2, <2>3
<1>5. CASE WriteOverride
  BY <1>f, <1>5 DEF WriteOverride
<1>6. CASE OverrideFails
  <2>1. Ends /\ UNCHANGED running
    BY <1>6 DEF OverrideFails
  <2>2. CASE steady'
    <3>1. steady /\ override' = override
      BY <1>6, <2>2 DEF OverrideFails
    <3>2. UNCHANGED steady
      BY <2>2, <3>1 DEF HostTypes
    <3> QED
      BY <1>e, <2>1, <3>1, <3>2
  <2> QED
    BY <1>f, <2>2
<1>7. CASE \/ ComposeUpdate \/ ComposeFails \/ HealthPasses \/ HealthFails \/ SaveBootstrap \/ CreateSuccess
           \/ FillSuccess \/ CommitState \/ SuccessFails
  <2>1. UNCHANGED steady
    BY <1>7 DEF ComposeUpdate, ComposeFails, HealthPasses, HealthFails, SaveBootstrap, CreateSuccess, FillSuccess,
       CommitState, SuccessFails, ghosts
  <2>2. invocation.step \in Touching
    BY <1>7 DEF ComposeUpdate, ComposeFails, HealthPasses, HealthFails, SaveBootstrap, CreateSuccess, FillSuccess,
       CommitState, SuccessFails, At, Touching, Committing, Bootstrapping
  <2> QED
    BY <1>k, <2>1, <2>2
<1>8. CASE TransactionFails \/ ReplayFails \/ BootstrapAbandoned \/ Restore \/ RestoreCompose \/ RestoreFails
  <2>1. UNCHANGED steady
    BY <1>8 DEF TransactionFails, ReplayFails, BootstrapAbandoned, Restore, RestoreCompose, RestoreFails, ghosts
  <2>2. invocation.step \in Touching \/ invocation.decided
    BY <1>8 DEF TransactionFails, ReplayFails, BootstrapAbandoned, Restore, RestoreCompose, RestoreFails, At,
       Touching,
       Committing, Bootstrapping, Restoring
  <2> QED
    BY <1>k, <2>1, <2>2
<1>9. CASE BootstrapOverride
  <2>1. invocation.step = "override" /\ override' = Target /\ UNCHANGED <<running, pending, current>> /\ Ends
    BY <1>9 DEF BootstrapOverride, At, files
  <2>2. Target = "bootstrap" /\ invocation.kind = "bootstrap" /\ invocation.found # Unread
    BY <2>1 DEF InvocationInv, Bootstrapping, Replay, Nothing
  <2>3. running = "bootstrap"
    BY <2>2 DEF TouchInv, HostTypes
  <2>4. Recorded = Target /\ Recorded' = Recorded
    BY <2>1 DEF FilesInv, Recorded
  <2> QED
    BY <2>1, <2>2, <2>3, <2>4, EndsFields DEF SteadyInv, Touching, Committing, Restoring, Bootstrapping, Nothing
<1>10. CASE Audit
  <2>1. invocation.step = "audit" /\ UNCHANGED <<override, running, pending, current>> /\ Ends
    BY <1>10 DEF Audit, At, files, host
  <2>2. override = Target /\ running = Target
    BY <2>1 DEF InvocationInv, TouchInv, Replaced
  <2>3. Recorded = Target /\ Recorded' = Recorded
    BY <2>1 DEF FilesInv, Recorded
  <2> QED
    BY <2>1, <2>2, <2>3, EndsFields DEF SteadyInv, Touching, Committing, Restoring, Bootstrapping, Nothing
<1>11. CASE RestoreHealth
  <2>1. invocation.step = "rehealth" /\ UNCHANGED <<override, running, pending, current>> /\ Ends
    BY <1>11 DEF RestoreHealth, At, files, host
  <2>2. CASE invocation.decided
    <3>1. ~steady'
      BY <1>11, <2>2 DEF RestoreHealth
    <3> QED
      BY <1>f, <3>1
  <2>3. CASE ~invocation.decided
    <3>1. override = invocation.found /\ running = invocation.found
      BY <2>1 DEF TouchInv, At
    <3>2. pending = NoTransaction /\ invocation.found # Unread
      BY <2>1, <2>3 DEF FilesInv, InvocationInv, Replay, Nothing
    <3>3. invocation.found = current
      BY <2>3, <3>2 DEF FilesInv
    <3>4. Recorded = invocation.found /\ Recorded' = Recorded
      BY <2>1, <3>2, <3>3 DEF Recorded
    <3> QED
      BY <2>1, <3>1, <3>4, EndsFields DEF SteadyInv, Touching, Committing, Restoring, Bootstrapping, Nothing
  <2> QED
    BY <2>2, <2>3
<1>12. CASE \/ SaveMigrationBaseline \/ MigrationFails \/ LoadFails \/ CaptureFails \/ PrepareFails \/ Killed
  BY <1>e, <1>12 DEF SaveMigrationBaseline, MigrationFails, LoadFails, CaptureFails, PrepareFails, Killed, host,
     ghosts
<1>13. CASE UNCHANGED releaseVars
  BY <1>13 DEF releaseVars, SteadyInv, Recorded
<1> QED
  BY <1>1, <1>2, <1>3, <1>4, <1>5, <1>6, <1>7, <1>8, <1>9, <1>10, <1>11, <1>12, <1>13 DEF ReleaseNext

-----------------------------------------------------------------------------
(* The schema.                                                             *)

\* The migration and its receipt are committed together, once, and a baseline is saved for that receipt alone.
LEMMA ReceiptStep ==
    ASSUME InvocationInv, ReceiptInv, [ReleaseNext]_releaseVars
    PROVE  ReceiptInv' /\ \A t : Ready(t) => Ready(t)'
<1> DEFINE Good == ReceiptInv' /\ \A t : Ready(t) => Ready(t)'
<1>t. /\ schema \in {Old, New} /\ Old # New
      /\ receipts \subseteq [from : StoredReleases, target : NewTree] /\ baselines \subseteq receipts
      /\ schema = Old => receipts = {}
      /\ \A x, y \in receipts : x = y
  BY DEF ReceiptInv, Old, New
<1>e. ASSUME invocation'.step \notin Migrating, UNCHANGED <<schema, receipts, baselines>> PROVE Good
  BY <1>e DEF ReceiptInv, Ready, At, Migrating
<1>r. invocation.step \in Migrating => [from |-> invocation.found, target |-> Target] \in [from : StoredReleases, target : NewTree]
  <2>1. invocation.step \in Migrating => invocation.found \in StoredReleases /\ Target \in NewTree
    BY FoundIsStored DEF InvocationInv
  <2> QED
    BY <2>1
<1>m. ASSUME At("migrate"), Migrated, UNCHANGED baselines
      PROVE  /\ schema' = New /\ [from |-> invocation.found, target |-> Target] \in receipts'
             /\ receipts' \subseteq [from : StoredReleases, target : NewTree] /\ receipts \subseteq receipts'
             /\ \A x, y \in receipts' : x = y
  <2> DEFINE new == [from |-> invocation.found, target |-> Target]
  <2>0. new \in [from : StoredReleases, target : NewTree]
    BY <1>m, <1>r DEF At, Migrating
  <2>1. schema = New => new \in receipts
    BY <1>m DEF ReceiptInv
  <2>2. \/ schema = Old /\ schema' = New /\ receipts' = receipts \cup {new}
        \/ schema # Old /\ UNCHANGED <<schema, receipts>>
    BY <1>m DEF Migrated
  <2> HIDE DEF new
  <2>3. /\ schema' = New /\ new \in receipts'
        /\ receipts' \subseteq [from : StoredReleases, target : NewTree] /\ receipts \subseteq receipts'
        /\ \A x, y \in receipts' : x = y
    BY <1>t, <2>0, <2>1, <2>2
  <2> QED
    BY <2>3 DEF new
<1>1. CASE MigrationTransaction
  <2>1. At("migrate") /\ Goto("verify") /\ Migrated /\ UNCHANGED baselines
    BY <1>1 DEF MigrationTransaction
  <2>2. invocation'.step = "verify" /\ Target' = Target /\ invocation'.found = invocation.found
    BY <2>1, GotoFields DEF Phases, Migrating
  <2> QED
    BY <1>t, <1>m, <2>1, <2>2 DEF ReceiptInv, Ready, At
<1>2. CASE SaveMigrationBaseline \/ (MigrationFails /\ At("verify"))
  <2>1. /\ At("verify") /\ Ends /\ UNCHANGED <<schema, receipts>>
        /\ baselines' \in {baselines, baselines \cup {[from |-> invocation.found, target |-> Target]}}
    BY <1>2 DEF SaveMigrationBaseline, MigrationFails, BaselineSaved, At
  <2>2. [from |-> invocation.found, target |-> Target] \in receipts
    BY <2>1 DEF ReceiptInv
  <2> QED
    BY <1>t, <2>1, <2>2, EndsFields DEF ReceiptInv, Ready, At, Nothing
<1>3. CASE MigrationFails /\ At("migrate")
  <2>1. /\ At("migrate") /\ Ends /\ UNCHANGED baselines
        /\ Migrated \/ UNCHANGED <<schema, receipts>>
    BY <1>3 DEF MigrationFails, At
  <2>2. CASE Migrated
    BY <1>t, <1>m, <2>1, <2>2, EndsFields DEF ReceiptInv, Ready, At, Nothing
  <2>3. CASE UNCHANGED <<schema, receipts>>
    BY <1>t, <2>1, <2>3, EndsFields DEF ReceiptInv, Ready, At, Nothing
  <2> QED
    BY <2>1, <2>2, <2>3
<1>4. CASE Loaded
  <2>0. UNCHANGED <<schema, receipts, baselines>>
    BY <1>4 DEF Loaded, database
  <2>1. ASSUME NEW s \in {"prepare", "migrate", "history", "override"}, Accepted(s),
               invocation' = [invocation EXCEPT !.step = s, !.found = current]
        PROVE  Good
    <3>1. invocation'.step = s /\ invocation'.found = current /\ Target' = Target
      BY <2>1 DEF InvocationInv, Invocations, Target
    <3>2. s = "migrate" /\ schema = New => [from |-> current, target |-> Target] \in receipts
      BY <2>1 DEF Accepted, Migratable, ReceiptMatches, Receipt
    <3> QED
      BY <1>t, <2>0, <2>1, <3>1, <3>2 DEF ReceiptInv, Ready, At
  <2> QED
    BY <1>4, <1>e, <2>0, <2>1, EndsFields DEF Loaded, Migrating, Nothing
<1>5. CASE \E kind \in {"bootstrap", "deploy", "rollback", "migrate"}, t \in StoredReleases : Begin(kind, t)
  <2>1. UNCHANGED <<schema, receipts, baselines>>
    BY <1>5 DEF Begin, database
  <2> QED
    BY <1>5, <1>e, <2>1, BeginFields DEF Migrating
<1>6. CASE \/ WriteOverride \/ ComposeUpdate \/ ComposeFails \/ HealthPasses \/ HealthFails \/ FillSuccess \/ Restore
           \/ RestoreCompose \/ CreateSuccess \/ SuccessFails \/ Prepare \/ SaveBootstrap
           \/ RecoverPrevious \/ RecoverCurrent \/ RecoverDone \/ ReplayFails
  <2>1. UNCHANGED <<schema, receipts, baselines>>
    BY <1>6 DEF WriteOverride, ComposeUpdate, ComposeFails, HealthPasses, HealthFails, FillSuccess, Restore,
       RestoreCompose, CreateSuccess, SuccessFails, Prepare, SaveBootstrap, RecoverPrevious, RecoverCurrent,
       RecoverDone, ReplayFails, database
  <2>2. Ends \/ \E s \in {"recover_current", "recover_done", "load", "override", "audit", "write", "compose", "health",
                          "restore", "success", "success_body", "commit", "recompose", "rehealth", "abandon"} : Goto(s)
    BY <1>6 DEF WriteOverride, ComposeUpdate, ComposeFails, HealthPasses, HealthFails, FillSuccess, Restore,
       RestoreCompose, CreateSuccess, WriteSuccess, SuccessFails, Fallback, Prepare, SaveBootstrap, RecoverPrevious,
       RecoverCurrent, RecoverDone, AfterRecovery, ReplayFails
  <2>3. invocation'.step \notin Migrating
    BY <2>2, EndsFields, GotoFields
       DEF Phases, Replay, Executing, Committing, Restoring, Bootstrapping, Migrating, Nothing
  <2> QED
    BY <1>e, <2>1, <2>3
<1>7. CASE CommitState \/ TransactionFails
  <2>1. PICK s \in {"recover", Fallback} : \E d : invocation' = [invocation EXCEPT !.step = s, !.decided = d]
    BY <1>7 DEF CommitState, TransactionFails
  <2>2. invocation'.step = s /\ UNCHANGED <<schema, receipts, baselines>>
    BY <1>7, <2>1 DEF InvocationInv, Invocations, CommitState, TransactionFails, database
  <2> QED
    BY <1>e, <2>1, <2>2 DEF Fallback, Migrating
<1>8. CASE \/ LoadFails \/ CaptureFails \/ PrepareFails \/ OverrideFails \/ BootstrapOverride \/ BootstrapAbandoned
           \/ Audit \/ RestoreHealth \/ RestoreFails \/ Killed
  <2>1. Ends /\ UNCHANGED <<schema, receipts, baselines>>
    BY <1>8 DEF LoadFails, CaptureFails, PrepareFails, OverrideFails, BootstrapOverride, BootstrapAbandoned, Audit,
       RestoreHealth, RestoreFails, Killed, database
  <2> QED
    BY <1>e, <2>1, EndsFields DEF Migrating, Nothing
<1>9. CASE UNCHANGED releaseVars
  BY <1>9 DEF releaseVars, ReceiptInv, Ready, At, Target
<1>10. MigrationFails => At("migrate") \/ At("verify")
  BY DEF MigrationFails
<1> QED
  BY <1>1, <1>2, <1>3, <1>4, <1>5, <1>6, <1>7, <1>8, <1>9, <1>10 DEF ReleaseNext

\* The schema a release needs is there before it is deployed, and for every release with a success file.
LEMMA ReadyStep ==
    ASSUME InvocationInv, FilesInv, StoreInv, NamedInv, HostTypes, ReceiptInv, ReadyInv, [ReleaseNext]_releaseVars
    PROVE  ReadyInv'
<1>m. \A t : Ready(t) => Ready(t)'
  BY ReceiptStep
<1>n. \A t \in Named : Ready(t)
  BY DEF NamedInv, ReadyInv, Nothing
<1>x. ~("mixed" \in NewTree)
  BY Distinct
<1>1. \A t \in StoredReleases : success'[t] # Nothing => Ready(t)
  <2>1. CASE CreateSuccess \/ FillSuccess \/ SuccessFails
    <3>1. invocation.step \in {"success", "success_body"}
      BY <2>1 DEF CreateSuccess, FillSuccess, SuccessFails, At
    <3>2. Ready(Target) /\ success \in [StoredReleases -> {Nothing, "torn", "whole"}]
      BY <3>1 DEF ReadyInv, StoreInv, Committing
    <3>3. success' = success \/ \E v : success' = [success EXCEPT ![Target] = v]
      BY <2>1 DEF CreateSuccess, WriteSuccess, FillSuccess, SuccessFails
    <3> QED
      BY <3>2, <3>3 DEF ReadyInv
  <2>2. CASE ~(CreateSuccess \/ FillSuccess \/ SuccessFails)
    <3>1. UNCHANGED success
      BY <2>2 DEF ReleaseNext, releaseVars, files, Begin, RecoverPrevious, RecoverCurrent, RecoverDone, Loaded,
         MigrationTransaction, SaveMigrationBaseline, MigrationFails, Prepare, LoadFails, CaptureFails, PrepareFails,
         OverrideFails, WriteOverride, ComposeUpdate, ComposeFails, HealthPasses, HealthFails, SaveBootstrap,
         CommitState, TransactionFails, ReplayFails, BootstrapOverride, BootstrapAbandoned, Audit, Restore,
         RestoreCompose, RestoreHealth, RestoreFails, Killed
    <3> QED
      BY <3>1 DEF ReadyInv
  <2> QED
    BY <2>1, <2>2
<1>2. Ready(running')
  <2>1. CASE ComposeUpdate \/ ComposeFails
    <3>1. invocation.step = "compose" /\ running' \in {Target, "mixed"}
      BY <2>1 DEF ComposeUpdate, ComposeFails, At
    <3>2. Ready(Target)
      BY <3>1 DEF ReadyInv, Executing
    <3> QED
      BY <1>x, <3>1, <3>2 DEF Ready
  <2>2. CASE RestoreCompose \/ RestoreFails
    <3>1. invocation.step \in Restoring /\ running' \in {running, invocation.found, "mixed"}
      BY <2>2 DEF RestoreCompose, RestoreFails, At, Restoring
    <3>2. invocation.found \in Named
      BY <3>1, FoundIsStored, Distinct DEF Named
    <3> QED
      BY <1>n, <1>x, <3>1, <3>2 DEF ReadyInv, Ready
  <2>3. CASE ~(ComposeUpdate \/ ComposeFails \/ RestoreCompose \/ RestoreFails)
    <3>1. UNCHANGED running
      BY <2>3 DEF ReleaseNext, releaseVars, host, Begin, RecoverPrevious, RecoverCurrent, RecoverDone, Loaded,
         MigrationTransaction, SaveMigrationBaseline, MigrationFails, Prepare, LoadFails, CaptureFails, PrepareFails,
         OverrideFails, WriteOverride, HealthPasses, HealthFails, SaveBootstrap, CreateSuccess, FillSuccess,
         CommitState, SuccessFails, TransactionFails, ReplayFails, BootstrapOverride, BootstrapAbandoned, Audit,
         Restore, RestoreHealth, Killed
    <3> QED
      BY <3>1 DEF ReadyInv
  <2> QED
    BY <2>1, <2>2, <2>3
<1>3. invocation'.step \in Executing \cup Committing => Ready(Target')
  <2>1. CASE Loaded
    <3>1. ASSUME NEW s \in {"prepare", "migrate", "history", "override"}, Accepted(s),
                 invocation' = [invocation EXCEPT !.step = s, !.found = current]
          PROVE  invocation'.step \in Executing \cup Committing => Ready(Target')
      <4>1. invocation'.step = s /\ Target' = Target
        BY <3>1 DEF InvocationInv, Invocations, Target
      <4>2. CASE s = "prepare"
        <5>1. \/ current # Nothing /\ Tree(Target) = Tree(current)
              \/ [from |-> current, target |-> Target] \in baselines
              \/ success[Target] = "whole"
          BY <3>1, <4>2 DEF Accepted, Deployable, MigrationBaselineAllows, RollbackAllowed
        <5>2. CASE current # Nothing /\ Tree(Target) = Tree(current)
          <6>1. current \in Named
            BY <5>2, Distinct DEF Named, FilesInv, Releases
          <6>2. Target \in NewTree => current \in NewTree
            BY <5>2 DEF Tree, Old, New
          <6> QED
            BY <1>n, <4>1, <6>1, <6>2 DEF Ready
        <5>3. CASE [from |-> current, target |-> Target] \in baselines
          BY <4>1, <5>3 DEF Ready, ReceiptInv
        <5>4. CASE success[Target] = "whole"
          <6>1. Target \in StoredReleases
            BY <2>1 DEF Loaded, At, InvocationInv, Nothing
          <6> QED
            BY <4>1, <5>4, <6>1 DEF ReadyInv, Nothing
        <5> QED
          BY <5>1, <5>2, <5>3, <5>4
      <4> QED
        BY <3>1, <4>1, <4>2 DEF Executing, Committing
    <3> QED
      BY <2>1, <3>1, EndsFields DEF Loaded, Executing, Committing, Nothing
  <2>2. CASE \/ WriteOverride \/ ComposeUpdate \/ HealthPasses \/ CreateSuccess \/ FillSuccess \/ Prepare
    <3>1. invocation.step \in Executing \cup Committing
      BY <2>2 DEF WriteOverride, ComposeUpdate, HealthPasses, CreateSuccess, FillSuccess, Prepare, At, Executing,
         Committing
    <3>2. Ends \/ \E s \in {"write", "compose", "health", "success", "success_body", "commit"} : Goto(s)
      BY <2>2 DEF WriteOverride, ComposeUpdate, HealthPasses, CreateSuccess, WriteSuccess, FillSuccess, Prepare
    <3>3. Target' = Target \/ invocation'.step = Nothing
      BY <3>2, EndsFields, GotoFields DEF Phases, Executing, Committing
    <3> QED
      BY <3>1, <3>3 DEF ReadyInv, Executing, Committing, Nothing
  <2>3. CASE SaveBootstrap
    <3>1. invocation.step = "history" /\ (Ends \/ Goto("success"))
      BY <2>3 DEF SaveBootstrap, At
    <3>2. Target = "bootstrap"
      BY <3>1 DEF InvocationInv, Bootstrapping
    <3>3. Target' = Target \/ invocation'.step = Nothing
      BY <3>1, EndsFields, GotoFields DEF Phases, Committing
    <3> QED
      BY <3>2, <3>3, Distinct DEF Ready, Executing, Committing, Nothing
  <2>4. CASE \E kind \in {"bootstrap", "deploy", "rollback", "migrate"}, t \in StoredReleases : Begin(kind, t)
    BY <2>4, BeginFields DEF Executing, Committing
  <2>5. CASE \/ RecoverPrevious \/ RecoverCurrent \/ RecoverDone \/ ReplayFails \/ MigrationTransaction \/ ComposeFails
             \/ HealthFails \/ SuccessFails \/ Restore \/ RestoreCompose
    <3>1. PICK s \in {"recover_current", "recover_done", AfterRecovery, Fallback, "verify", "restore", "recompose",
                      "rehealth"} : Goto(s)
      BY <2>5 DEF RecoverPrevious, RecoverCurrent, RecoverDone, ReplayFails, MigrationTransaction, ComposeFails,
             HealthFails, SuccessFails, Restore, RestoreCompose
    <3>2. s \in Phases /\ s \notin Executing \cup Committing
      BY <3>1 DEF AfterRecovery, Fallback, Phases, Replay, Restoring, Migrating, Bootstrapping, Executing, Committing
    <3> QED
      BY <3>1, <3>2, GotoFields
  <2>6. CASE CommitState \/ TransactionFails
    <3>1. PICK s \in {"recover", Fallback} : \E d : invocation' = [invocation EXCEPT !.step = s, !.decided = d]
      BY <2>6 DEF CommitState, TransactionFails
    <3>2. invocation'.step = s
      BY <3>1 DEF InvocationInv, Invocations
    <3> QED
      BY <3>1, <3>2 DEF Fallback, Executing, Committing
  <2>7. CASE \/ SaveMigrationBaseline \/ MigrationFails \/ LoadFails \/ CaptureFails \/ PrepareFails \/ OverrideFails
             \/ BootstrapOverride \/ BootstrapAbandoned \/ Audit \/ RestoreHealth \/ RestoreFails \/ Killed
    <3>1. Ends
      BY <2>7 DEF SaveMigrationBaseline, MigrationFails, LoadFails, CaptureFails, PrepareFails, OverrideFails,
         BootstrapOverride, BootstrapAbandoned, Audit, RestoreHealth, RestoreFails, Killed
    <3> QED
      BY <3>1, EndsFields DEF Executing, Committing, Nothing
  <2>8. CASE UNCHANGED releaseVars
    BY <2>8 DEF releaseVars, ReadyInv, Target
  <2> QED
    BY <2>1, <2>2, <2>3, <2>4, <2>5, <2>6, <2>7, <2>8 DEF ReleaseNext
<1>4. \A t : Ready(t)' <=> (t \in NewTree => schema' = New /\ baselines' # {})
  BY DEF Ready
<1> QED
  BY <1>m, <1>1, <1>2, <1>3, <1>4 DEF ReadyInv, Ready

-----------------------------------------------------------------------------

\* Kills and mishaps are counted down to zero.
LEMMA BudgetStep ==
    ASSUME BudgetInv, [ReleaseNext]_releaseVars
    PROVE  BudgetInv'
<1>1. kills' \in {kills, kills - 1} /\ (kills' # kills => kills > 0)
  BY DEF ReleaseNext, releaseVars, Begin, RecoverPrevious, RecoverCurrent, RecoverDone, Loaded,
     MigrationTransaction, SaveMigrationBaseline, MigrationFails, Prepare, LoadFails, CaptureFails, PrepareFails,
     OverrideFails, WriteOverride, ComposeUpdate, ComposeFails, HealthPasses, HealthFails, SaveBootstrap,
     CreateSuccess, FillSuccess, CommitState, SuccessFails, TransactionFails, ReplayFails, BootstrapOverride,
     BootstrapAbandoned, Audit, Restore, RestoreCompose, RestoreHealth, RestoreFails, Killed
<1>2. mishaps' = mishaps \/ Mishap
  BY DEF ReleaseNext, releaseVars, Begin, RecoverPrevious, RecoverCurrent, RecoverDone, Loaded,
     MigrationTransaction, SaveMigrationBaseline, MigrationFails, Prepare, LoadFails, CaptureFails, PrepareFails,
     OverrideFails, WriteOverride, ComposeUpdate, ComposeFails, HealthPasses, HealthFails, SaveBootstrap,
     CreateSuccess, FillSuccess, CommitState, SuccessFails, TransactionFails, ReplayFails, BootstrapOverride,
     BootstrapAbandoned, Audit, Restore, RestoreCompose, RestoreHealth, RestoreFails, Killed
<1> QED
  BY <1>1, <1>2 DEF BudgetInv, Mishap

\* The platform runs the images of the baseline; nothing is recorded.
LEMMA ReleaseInitInv == ReleaseInit => ReleaseInv
<1> SUFFICES ASSUME ReleaseInit PROVE ReleaseInv
  OBVIOUS
<1>1. /\ invocation \in Invocations /\ invocation = Nobody /\ invocation.step = Nothing
      /\ invocation.kind = Nothing /\ invocation.found = Unread /\ ~invocation.decided
  <2>1. PICK no \in BOOLEAN : no = FALSE
    OBVIOUS
  <2>2. invocation = [kind |-> Nothing, target |-> Nothing, step |-> Nothing, found |-> Unread, decided |-> no]
    BY <2>1, Zenon DEF ReleaseInit, Nobody
  <2>3. /\ invocation.step = Nothing /\ invocation.kind = Nothing /\ invocation.found = Unread
        /\ invocation.decided = no /\ invocation \in Invocations
    BY <2>2 DEF Invocations, Kinds, Phases, Releases
  <2>4. ~invocation.decided
    BY <2>1, <2>3, Zenon
  <2> QED
    BY <2>3, <2>4 DEF ReleaseInit
<1>2. InvocationInv
  BY <1>1, Distinct DEF InvocationInv, Executing, Restoring, Committing, Migrating, Bootstrapping, Nothing
<1>3. FilesInv
  BY <1>1 DEF ReleaseInit, FilesInv, StateIsWhole, NoTransaction, Releases, At, Nothing
<1>4. StoreInv /\ TargetInv
  BY <1>1, Distinct DEF ReleaseInit, StoreInv, TargetInv, At, Committing, Nothing
<1>5. NamedInv
  BY <1>1 DEF ReleaseInit, NamedInv, Named, NoTransaction
<1>6. HostTypes /\ TouchInv
  BY <1>1, Distinct DEF ReleaseInit, HostTypes, TouchInv, Replaced, Releases, At, Changing, Committing,
     Restoring, Nothing
<1>7. SteadyInv
  BY <1>1 DEF ReleaseInit, SteadyInv, Touching, Committing, Restoring, Bootstrapping, Nothing
<1>8. ReceiptInv /\ ReadyInv
  BY <1>1, Distinct DEF ReleaseInit, ReceiptInv, ReadyInv, Ready, At, Executing, Committing, Nothing
<1>9. BudgetInv
  BY ReleaseAssumption DEF ReleaseInit, BudgetInv
<1> QED
  BY <1>2, <1>3, <1>4, <1>5, <1>6, <1>7, <1>8, <1>9 DEF ReleaseInv

\* Every behaviour of the release program keeps the invariant.
LEMMA ReleaseInvHolds == ReleaseSpec => []ReleaseInv
<1>1. ReleaseInv /\ [ReleaseNext]_releaseVars => ReleaseInv'
  <2> SUFFICES ASSUME ReleaseInv, [ReleaseNext]_releaseVars PROVE ReleaseInv'
    OBVIOUS
  <2>1. InvocationInv' /\ FilesInv'
    BY InvocationStep, FilesStep DEF ReleaseInv
  <2>2. StoreInv' /\ NamedInv' /\ TargetInv'
    BY StoreStep, WholeStep, TargetStep DEF ReleaseInv
  <2>3. HostTypes' /\ TouchInv' /\ SteadyInv'
    BY HostTypesStep, TouchStep, SteadyStep DEF ReleaseInv
  <2>4. ReceiptInv' /\ ReadyInv' /\ BudgetInv'
    BY ReceiptStep, ReadyStep, BudgetStep DEF ReleaseInv
  <2> QED
    BY <2>1, <2>2, <2>3, <2>4 DEF ReleaseInv
<1> QED
  BY <1>1, ReleaseInitInv, PTL DEF ReleaseSpec

\* current.json, previous.json and the transaction are together whole, name only releases that were healthy and can
\* be rolled back to, and are what the host runs once an invocation has settled it, wherever invocations are killed
\* or fail (commitState, recoverState, CommitSuccess, failAfterUpdate).
THEOREM StateStaysTrue == ReleaseSpec => []StateIsTrue
<1>1. ReleaseInv => StateIsTrue
  <2> SUFFICES ASSUME ReleaseInv PROVE StateIsTrue
    OBVIOUS
  <2>1. ReleaseTypeOK
    <3>1. baselines \subseteq [from : StoredReleases, target : NewTree] /\ schema \in {Old, New}
          /\ receipts \subseteq [from : StoredReleases, target : NewTree]
      BY DEF ReleaseInv, ReceiptInv
    <3>2. invocation.found \in Releases \cup {Unread}
      BY DEF ReleaseInv, InvocationInv, Invocations
    <3> QED
      BY <3>1, <3>2 DEF ReleaseInv, ReleaseTypeOK, FilesInv, StoreInv, HostTypes, BudgetInv
  <2>2. RecordedIsProved
    <3> SUFFICES ASSUME NEW t \in {current, previous, Recorded} \ {Nothing}
                 PROVE  t \in healthy /\ t \in history /\ success[t] = "whole"
      BY DEF RecordedIsProved
    <3>1. t \in Releases /\ t # Unread
      BY Distinct DEF ReleaseInv, FilesInv, Recorded, Releases, Nothing, Unread
    <3>2. t \in Named
      BY <3>1 DEF Named, Recorded
    <3> QED
      BY <3>2 DEF ReleaseInv, NamedInv, StoreInv, Nothing
  <2>3. StateIsWhole
    BY DEF ReleaseInv, FilesInv
  <2>4. HostMatchesState
    BY DEF ReleaseInv, SteadyInv, HostMatchesState
  <2> QED
    BY <2>1, <2>2, <2>3, <2>4 DEF StateIsTrue
<1> QED
  BY <1>1, ReleaseInvHolds, PTL

\* Containers that need the new schema run only on a database that has it, and every baseline has the one receipt
\* that was committed with the migration (resolveTarget, MigrationBaselineAllows, applyPlatformMigration).
THEOREM SchemaStaysReady == ReleaseSpec => []SchemaIsReady
<1>1. ReleaseInv => SchemaIsReady
  <2> SUFFICES ASSUME ReleaseInv PROVE SchemaIsReady
    OBVIOUS
  <2>1. SchemaBeforeContainers
    BY DEF ReleaseInv, ReadyInv, Ready, SchemaBeforeContainers
  <2>2. BaselineHasReceipt
    BY DEF ReleaseInv, ReceiptInv, BaselineHasReceipt
  <2> QED
    BY <2>1, <2>2 DEF SchemaIsReady
<1> QED
  BY <1>1, ReleaseInvHolds, PTL
=============================================================================
