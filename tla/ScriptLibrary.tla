--------------------------- MODULE ScriptLibrary ---------------------------
(***************************************************************************)
(* Publishing a script and keeping a server's copies of its versions       *)
(* (internal/script: service.go, sync_service.go, http.go; the agent's     *)
(* sync_client.go and internal/executor: cache.go, drift.go).  Editors     *)
(* publish concurrently; the centre hands out one sync command after each  *)
(* message of the agent; the agent downloads, replaces its copy in several *)
(* file operations and reports; either side may stop in between.           *)
(***************************************************************************)
EXTENDS Integers, Sequences, SequencesExt, FiniteSets

CONSTANTS
    Editors,        \* people who publish
    Contents,       \* script contents
    MaxVersions,    \* bound: versions published
    SyncFailureLimit, \* consecutive failures before an operator is needed
    Budgets         \* bounds, one of which a behaviour keeps to: editors, versions and troubles: crashes, lost
                    \* connections, changed copies, failures, slow transfers, retries, drafts saved

VersionIDs == 1..MaxVersions

ASSUME LibraryAssumption ==
    /\ MaxVersions \in Nat \ {0} /\ SyncFailureLimit \in Nat \ {0}
    /\ Budgets \subseteq [editors : SUBSET Editors, versions : VersionIDs, troubles : Nat]

NoVersion == 0
NoContent == "empty"
Modes == {"all_compatible", "on_demand"}
SyncStates == {"absent", "pending", "downloading", "ready", "failed", "drifted"}

VARIABLES
    versions,       \* published versions: content and distribution
    draft,          \* content and base version
    objects,        \* archives in the object store, each under the digest of what it holds
    publishing,     \* by editor: the publication under way
    syncs,          \* by version: status, failures, whether the retry is due, whether the transfer is old
    connected,      \* whether the agent is connected
    handling,       \* the connection's handler recorded a message and asks for the next command
    commands,       \* sync commands on their way to the agent
    results,        \* messages on their way to the centre
    job,            \* what the agent's sync loop is doing
    copies,         \* the agent's copy of each version
    manifest,       \* the version named in manifest.json
    spoiled,       \* copies changed on the server, or lost when the agent stopped while replacing them (history)
    budget,
    troubles        \* so far

libraryVars == <<versions, draft, objects, publishing, syncs, connected, handling, commands, results,
                 job, copies, manifest, spoiled, budget, troubles>>
editVars == <<versions, draft, objects, publishing, budget>>
agentVars == <<job, copies, manifest, spoiled>>
linkVars == <<connected, handling, commands, results>>

\* An archive holds the script and its manifest.
buildArchive(content, mode) == [content |-> content, mode |-> mode]
readArchive(archive) == <<archive.content, archive.mode>>

Idle == [stage |-> "idle", version |-> NoVersion]
NoPublication == [stage |-> "none", archive |-> buildArchive(NoContent, "on_demand"), version |-> NoVersion]
NoSync == [status |-> "absent", failures |-> 0, due |-> FALSE, old |-> FALSE]

LibraryInit ==
    /\ versions = <<>> /\ objects = {} /\ draft = [content |-> NoContent, base |-> NoVersion]
    /\ publishing = [e \in Editors |-> NoPublication]
    /\ syncs = [v \in VersionIDs |-> NoSync]
    /\ connected = TRUE /\ handling = FALSE /\ commands = <<>> /\ results = <<>>
    /\ job = Idle /\ copies = [v \in VersionIDs |-> "none"] /\ manifest = NoVersion
    /\ spoiled = {} /\ budget \in Budgets /\ troubles = 0

Trouble == troubles < budget.troubles /\ troubles' = troubles + 1

-----------------------------------------------------------------------------
(* Editing and publishing.                                                 *)

Created == draft.content # NoContent

Create(c) ==
    /\ ~Created /\ draft' = [content |-> c, base |-> NoVersion]
    /\ UNCHANGED <<budget, versions, objects, publishing, syncs, linkVars, agentVars, troubles>>

SaveDraft(c) ==
    /\ Trouble /\ Created /\ draft' = [draft EXCEPT !.content = c]
    /\ UNCHANGED <<budget, versions, objects, publishing, syncs, linkVars, agentVars>>

\* publish: the archive is stored before the transaction.
PutArchive(e, c, mode) ==
    /\ e \in budget.editors /\ publishing[e].stage = "none" /\ Created /\ Len(versions) < budget.versions
    /\ objects' = objects \cup {buildArchive(c, mode)}
    /\ publishing' = [publishing EXCEPT ![e] = [stage |-> "stored", archive |-> buildArchive(c, mode), version |-> NoVersion]]
    /\ UNCHANGED <<budget, versions, draft, syncs, linkVars, agentVars, troubles>>

Publish(e, c, mode) == PutArchive(e, c, mode)

\* Rollback reads a version's archive and publishes what it holds as a new version.
Rollback(e, v) ==
    /\ v \in DOMAIN versions /\ versions[v] \in objects
    /\ LET held == readArchive(versions[v]) IN PutArchive(e, held[1], held[2])

\* The transaction locks the script, takes the next number and rebases the draft.
CommitVersion(e) ==
    /\ publishing[e].stage = "stored" /\ Len(versions) < budget.versions
    /\ versions' = Append(versions, publishing[e].archive)
    /\ draft' = [content |-> publishing[e].archive.content, base |-> Len(versions) + 1]
    /\ publishing' = [publishing EXCEPT ![e].stage = "committed", ![e].version = Len(versions) + 1]
    /\ UNCHANGED <<budget, objects, syncs, linkVars, agentVars, troubles>>

\* The publication fails before its transaction commits.
PublicationFails(e) ==
    /\ Trouble /\ publishing[e].stage = "stored"
    /\ publishing' = [publishing EXCEPT ![e] = NoPublication]
    /\ UNCHANGED <<budget, versions, draft, objects, syncs, linkVars, agentVars>>

Inserted(v) == [syncs EXCEPT ![v] = IF @.status = "absent" THEN [NoSync EXCEPT !.status = "pending"] ELSE @]

\* The handler then prepares the version on the servers it is meant for, if this one
\* counts as online; an error there only adds a warning to the answer.
PrepareVersion(e, online) ==
    LET v == publishing[e].version
    IN  /\ publishing[e].stage = "committed"
        /\ publishing' = [publishing EXCEPT ![e] = NoPublication]
        /\ syncs' = IF online /\ versions[v].mode = "all_compatible" THEN Inserted(v) ELSE syncs
        /\ UNCHANGED <<budget, versions, draft, objects, linkVars, agentVars, troubles>>

\* The scheduler's Assign asks for a version that the chosen server lacks.
PrepareOnDemand(v) ==
    /\ v \in DOMAIN versions /\ syncs[v].status = "absent"
    /\ syncs' = Inserted(v)
    /\ UNCHANGED <<editVars, linkVars, agentVars, troubles>>

-----------------------------------------------------------------------------
(* The centre's side of the connection.                                    *)

Failed(sync) ==
    [status |-> "failed", failures |-> IF sync.failures < SyncFailureLimit THEN sync.failures + 1 ELSE sync.failures,
     due |-> FALSE, old |-> FALSE]

\* Mutant: a drift report is recorded whatever the record says.
RecordResult_AnyDrift(sync, result) ==
    IF result = "ready" THEN [NoSync EXCEPT !.status = "ready"]
    ELSE IF result = "drifted" THEN [sync EXCEPT !.status = "drifted", !.old = FALSE]
    ELSE IF sync.status = "failed" THEN sync
    ELSE Failed(sync)

\* RecordResult: a verified copy starts a fresh budget; a failed record takes neither
\* another failure nor a drift report.
RecordResult(sync, result) ==
    IF result = "ready" THEN [NoSync EXCEPT !.status = "ready"]
    ELSE IF sync.status = "failed" THEN sync
    ELSE IF result = "drifted" THEN [sync EXCEPT !.status = "drifted", !.old = FALSE]
    ELSE Failed(sync)

HandleMessage ==
    /\ connected /\ ~handling /\ results # <<>>
    /\ LET message == Head(results)
       IN  syncs' = IF message.kind = "heartbeat" THEN syncs
                    ELSE [syncs EXCEPT ![message.version] = RecordResult(@, message.state)]
    /\ results' = Tail(results) /\ handling' = TRUE
    /\ UNCHANGED <<editVars, connected, commands, agentVars, troubles>>

\* prepareServer: the latest version is prepared on a server that came online late.
prepareServer(table) ==
    LET latest == Len(versions)
    IN  [v \in VersionIDs |->
           IF v = latest /\ versions[v].mode = "all_compatible" /\ table[v].status = "absent"
           THEN [NoSync EXCEPT !.status = "pending"] ELSE table[v]]

\* Mutant: a transfer without a result is never given up.
expireTransfers_Never(table) == table

\* expireTransfers: a transfer without a result counts as a failure.
expireTransfers(table) ==
    [v \in VersionIDs |-> IF table[v].status = "downloading" /\ table[v].old THEN Failed(table[v]) ELSE table[v]]

Claimable(sync) ==
    \/ sync.status \in {"pending", "drifted"}
    \/ sync.status = "failed" /\ sync.failures < SyncFailureLimit /\ sync.due

ClaimRank(sync) == IF sync.status = "drifted" THEN 0 ELSE IF sync.status = "pending" THEN 1 ELSE 2

NextCommand ==
    \E table \in {expireTransfers(prepareServer(syncs))} :
      LET open == {v \in VersionIDs : Claimable(table[v])}
      IN  /\ connected /\ handling /\ handling' = FALSE
          /\ \/ open = {} /\ syncs' = table /\ commands' = commands
             \/ \E v \in open :
                  /\ \A u \in open : ClaimRank(table[v]) <= ClaimRank(table[u])
                  /\ syncs' = [table EXCEPT ![v].status = "downloading", ![v].due = FALSE, ![v].old = FALSE]
                  /\ commands' = Append(commands, v)
          /\ UNCHANGED <<editVars, connected, results, agentVars, troubles>>

\* An operator retries a failed or drifted copy.
RetryScript(v) ==
    /\ Trouble /\ syncs[v].status \in {"failed", "drifted"}
    /\ syncs' = [syncs EXCEPT ![v] = [NoSync EXCEPT !.status = "pending"]]
    /\ UNCHANGED <<editVars, linkVars, agentVars>>

InWork(v) ==
    \/ v \in Range(commands) \/ job.version = v
    \/ \E i \in DOMAIN results : results[i].kind = "result" /\ results[i].version = v

\* Two minutes pass since the command; they are a trouble when it is still in work.
TransferGetsOld(v) ==
    /\ syncs[v].status = "downloading" /\ ~syncs[v].old
    /\ IF InWork(v) THEN Trouble ELSE UNCHANGED troubles
    /\ syncs' = [syncs EXCEPT ![v].old = TRUE]
    /\ UNCHANGED <<editVars, linkVars, agentVars>>

RetryGetsDue(v) ==
    /\ syncs[v].status = "failed" /\ syncs[v].failures < SyncFailureLimit /\ ~syncs[v].due
    /\ syncs' = [syncs EXCEPT ![v].due = TRUE]
    /\ UNCHANGED <<editVars, linkVars, agentVars, troubles>>

-----------------------------------------------------------------------------
(* The agent.                                                              *)

Heartbeat ==
    /\ connected /\ results = <<>> /\ ~handling
    /\ results' = <<[kind |-> "heartbeat"]>>
    /\ UNCHANGED <<editVars, syncs, connected, handling, commands, agentVars, troubles>>

Send(v, state) == results' = Append(results, [kind |-> "result", version |-> v, state |-> state])

\* The sync loop takes a command.
TakeCommand ==
    /\ connected /\ job = Idle /\ commands # <<>>
    /\ job' = [stage |-> "download", version |-> Head(commands)] /\ commands' = Tail(commands)
    /\ UNCHANGED <<editVars, syncs, connected, handling, results, copies, manifest, spoiled, troubles>>

\* OpenVersionArtifact serves an archive only while the record says downloading.
OpenVersionArtifact(v) == syncs[v].status = "downloading" /\ versions[v] \in objects

\* downloadAndVerify, into the staging directory.
Download ==
    /\ job.stage = "download" /\ OpenVersionArtifact(job.version)
    /\ job' = [job EXCEPT !.stage = "extract"]
    /\ UNCHANGED <<editVars, syncs, linkVars, copies, manifest, spoiled, troubles>>

extractPackage ==
    /\ job.stage = "extract" /\ job' = [job EXCEPT !.stage = "replace"]
    /\ UNCHANGED <<editVars, syncs, linkVars, copies, manifest, spoiled, troubles>>

\* The download is refused or fails, or the archive does not verify or unpack.
DownloadFails ==
    /\ job.stage \in {"download", "extract"} /\ connected
    /\ IF job.stage = "extract" \/ OpenVersionArtifact(job.version) THEN Trouble ELSE UNCHANGED troubles
    /\ job' = Idle /\ Send(job.version, "failed")
    /\ UNCHANGED <<editVars, syncs, connected, handling, commands, copies, manifest, spoiled>>

\* replaceExistingVersion first moves the present copy away.
MoveAway ==
    /\ job.stage = "replace" /\ copies[job.version] # "none"
    /\ copies' = [copies EXCEPT ![job.version] = "none"]
    /\ UNCHANGED <<editVars, syncs, linkVars, job, manifest, spoiled, troubles>>

MoveIn ==
    /\ job.stage = "replace" /\ copies[job.version] = "none"
    /\ copies' = [copies EXCEPT ![job.version] = "good"] /\ spoiled' = spoiled \ {job.version}
    /\ job' = [job EXCEPT !.stage = "switch"]
    /\ UNCHANGED <<editVars, syncs, linkVars, manifest, troubles>>

\* The manifest is replaced in one file operation.
SwitchManifest ==
    /\ job.stage = "switch" /\ manifest' = job.version
    /\ job' = [job EXCEPT !.stage = "report"]
    /\ UNCHANGED <<editVars, syncs, linkVars, copies, spoiled, troubles>>

SendSyncResult ==
    /\ connected /\ job.stage = "report" /\ job' = Idle /\ Send(job.version, "ready")
    /\ UNCHANGED <<editVars, syncs, connected, handling, commands, copies, manifest, spoiled, troubles>>

\* One command of the sync loop, from the channel to the answer.
Ensure == TakeCommand \/ Download \/ DownloadFails \/ extractPackage \/ MoveAway \/ MoveIn \/ SwitchManifest \/ SendSyncResult

versionDrifted(v) == copies[v] # "good"

\* The drift scan looks at the version in the manifest.  It runs once a minute: not
\* again before what it reported and the command that followed were taken.
DriftScan ==
    /\ connected /\ job = Idle /\ manifest # NoVersion /\ versionDrifted(manifest)
    /\ commands = <<>> /\ ~\E i \in DOMAIN results : results[i].kind = "result"
    /\ Send(manifest, "drifted")
    /\ UNCHANGED <<editVars, syncs, connected, handling, commands, agentVars, troubles>>

\* Someone changes a copy on the server.
Tamper(v) ==
    /\ Trouble /\ copies[v] = "good"
    /\ copies' = [copies EXCEPT ![v] = "changed"] /\ spoiled' = spoiled \cup {v}
    /\ UNCHANGED <<editVars, syncs, linkVars, job, manifest>>

\* The connection ends: the agent process stops (crash) and starts again, or reconnects.
LoseConnection(crash) ==
    /\ Trouble /\ connected
    /\ connected' = FALSE /\ handling' = FALSE /\ commands' = <<>> /\ results' = <<>>
    /\ job' = IF crash \/ job.stage \in {"download", "extract", "report"} THEN Idle ELSE job
    /\ spoiled' = IF crash /\ job.stage = "replace" /\ copies[job.version] = "none" THEN spoiled \cup {job.version} ELSE spoiled
    /\ UNCHANGED <<editVars, syncs, copies, manifest>>

\* A sync loop that lost its connection ends when its command does.
AbandonJob ==
    /\ ~connected /\ job.stage = "report" /\ job' = Idle
    /\ UNCHANGED <<editVars, syncs, linkVars, copies, manifest, spoiled, troubles>>

Reconnect ==
    /\ ~connected /\ job = Idle /\ connected' = TRUE
    /\ UNCHANGED <<editVars, syncs, handling, commands, results, agentVars, troubles>>

-----------------------------------------------------------------------------
CentreNext == HandleMessage \/ NextCommand
AgentNext == Ensure \/ AbandonJob \/ Reconnect

LibraryNext ==
    \/ \E c \in Contents : Create(c) \/ SaveDraft(c)
    \/ \E e \in Editors, c \in Contents, mode \in Modes : Publish(e, c, mode)
    \/ \E e \in Editors, v \in VersionIDs : Rollback(e, v)
    \/ \E e \in Editors : CommitVersion(e) \/ PublicationFails(e)
    \/ \E e \in Editors, online \in BOOLEAN : PrepareVersion(e, online)
    \/ \E v \in VersionIDs : PrepareOnDemand(v) \/ RetryScript(v) \/ TransferGetsOld(v) \/ RetryGetsDue(v) \/ Tamper(v)
    \/ CentreNext \/ AgentNext \/ Heartbeat \/ DriftScan
    \/ \E crash \in BOOLEAN : LoseConnection(crash)

\* Time passes: a retry gets due, and a transfer nobody works on gets old.
TimePasses == \E v \in VersionIDs : RetryGetsDue(v) \/ (~InWork(v) /\ TransferGetsOld(v))

\* The handler, the agent's loops, its heartbeat and its scan run on; time passes.
LibraryFairness ==
    /\ WF_libraryVars(CentreNext) /\ WF_libraryVars(AgentNext) /\ WF_libraryVars(TimePasses)
    /\ WF_libraryVars(Heartbeat) /\ WF_libraryVars(DriftScan)

LibrarySpec == LibraryInit /\ [][LibraryNext]_libraryVars /\ LibraryFairness

-----------------------------------------------------------------------------
(* Properties.                                                             *)

\* Versions, their states on the server and the agent's copies are well formed.
LibraryTypeOK ==
    /\ Len(versions) <= budget.versions /\ objects \subseteq [content : Contents, mode : Modes] /\ troubles \in 0..budget.troubles
    /\ syncs \in [VersionIDs -> [status : SyncStates, failures : 0..SyncFailureLimit, due : BOOLEAN, old : BOOLEAN]]
    /\ \A v \in VersionIDs : syncs[v].status # "absent" => v \in DOMAIN versions
    /\ copies \in [VersionIDs -> {"none", "good", "changed"}] /\ manifest \in VersionIDs \cup {NoVersion}
    /\ job \in [stage : {"idle", "download", "extract", "replace", "switch", "report"}, version : VersionIDs \cup {NoVersion}]

\* However publications and rollbacks of several editors interleave, every version's
\* archive is in the store and the draft is based on the latest version.
VersionsAreWhole ==
    /\ \A v \in DOMAIN versions : versions[v] \in objects
    /\ draft.base = Len(versions)

\* A copy recorded as ready, on which the scheduler relies, is there and verified,
\* after any late, repeated or lost result and retry: unless it is being replaced,
\* someone changed it on the server or the agent stopped between the two renames.
ReadyIsReal ==
    \A v \in VersionIDs :
      syncs[v].status = "ready" =>
        \/ copies[v] = "good" \/ v \in spoiled
        \/ job.version = v /\ job.stage = "replace"

Blocked(v) == syncs[v].status = "failed" /\ syncs[v].failures >= SyncFailureLimit

\* A copy that used up its failures stays blocked: no late result, drift report or
\* timeout gives it another transfer, only a verified copy or an operator does.
BlockedStaysBlocked ==
    [][\A v \in VersionIDs : Blocked(v) /\ ~Blocked(v)' =>
         syncs'[v].failures = 0 /\ syncs'[v].status \in {"ready", "pending"}]_libraryVars

\* The latest version, when meant for the server, ends up ready or blocked there, even
\* when preparing it failed, the server was away or a command or result got lost.
LatestIsSettled ==
    \A v \in VersionIDs :
      []<>(Len(versions) = v /\ versions[v].mode = "all_compatible" => Blocked(v) \/ syncs[v].status = "ready")

\* A ready copy named in the manifest that is no longer good is recorded as such or
\* replaced.
CurrentDriftIsNoticed ==
    \A v \in VersionIDs :
      []<>(manifest = v /\ syncs[v].status = "ready" => copies[v] = "good")

\* The records of the library are sound: versions are whole, a ready copy is real
\* and a blocked one stays blocked.
LibraryIsSound == [](LibraryTypeOK /\ VersionsAreWhole /\ ReadyIsReal) /\ BlockedStaysBlocked

\* Records and copies meet in the end: the latest version is settled, and drift of
\* the current copy is noticed.
CopiesConverge == LatestIsSettled /\ CurrentDriftIsNoticed
=============================================================================
