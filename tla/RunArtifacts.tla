---------------------------- MODULE RunArtifacts ----------------------------
(***************************************************************************)
(* The output files of one run: the agent collects what the policy of the  *)
(* script version allows and uploads file by file (internal/agent/         *)
(* artifacts.go); the centre checks, stores and indexes each upload        *)
(* (internal/runartifact, internal/artifact/minio.go).  An upload whose    *)
(* answer is late or lost goes on at the centre while the agent repeats it *)
(* or, after a restart and a repeated assignment, collects again.          *)
(***************************************************************************)
EXTENDS Integers, Sequences, SequencesExt, FiniteSets, FiniteSetsExt

CONSTANTS
    Names,          \* names of files in the working directory
    AllowedNames,   \* those the policy's globs match
    FileVersions,   \* what a file may hold: contents with their sizes
    MaxFileBytes, MaxTotalBytes, MaxArtifactFiles,  \* limits
    MaxTroubles      \* bound: lost answers, failures, restarts, changed files

NoFile == [body |-> "none", size |-> 0]
Uploads == 1..2
MaxAttempts == 3

ASSUME ArtifactAssumption ==
    /\ AllowedNames \subseteq Names /\ IsFiniteSet(Names)
    /\ \A v \in FileVersions : v.size \in Nat
    /\ MaxFileBytes \in Nat \ {0} /\ MaxTotalBytes \in Nat /\ MaxTotalBytes >= MaxFileBytes
    /\ MaxArtifactFiles \in Nat \ {0} /\ MaxTroubles \in Nat

VARIABLES
    directory,  \* by name: what the file holds
    collector,  \* the collection: its files yet to upload with the size each was listed with, the contents read
                \* for the first of them, the attempts made, and what it uploaded
    uploads,    \* requests at the centre
    blobs,      \* objects, each under its run, name and digest
    artifacts,  \* rows of run_artifacts
    troubles     \* so far

artifactVars == <<directory, collector, uploads, blobs, artifacts, troubles>>

NoUpload == [stage |-> "none", name |-> "none", content |-> NoFile]
NotCollecting == [stage |-> "none", files |-> <<>>, read |-> NoFile, attempt |-> 0, sent |-> {}, request |-> 0]

\* Files that the policy does not allow are there too; what they hold makes no difference.
ArtifactInit ==
    /\ directory \in [Names -> FileVersions \cup {NoFile}]
    /\ \A n \in Names \ AllowedNames : directory[n] = CHOOSE v \in FileVersions : TRUE
    /\ collector = NotCollecting /\ uploads = [u \in Uploads |-> NoUpload]
    /\ blobs = {} /\ artifacts = {} /\ troubles = 0

Trouble == troubles < MaxTroubles /\ troubles' = troubles + 1
Bytes(records) == FoldSet(LAMBDA r, n : n + r.size, 0, records)
Allows(name) == name \in AllowedNames

-----------------------------------------------------------------------------
(* The agent. *)

Listed == {[name |-> n, size |-> directory[n].size] : n \in {m \in Names : Allows(m) /\ directory[m] # NoFile}}

\* The directory is listed in any order; a file or a sum over the limits ends the collection.
Collect ==
    /\ collector.stage = "none"
    /\ \E files \in SetToSeqs(Listed) :
           collector' = [NotCollecting EXCEPT
               !.files = files,
               !.stage = IF \/ \E f \in Listed : f.size > MaxFileBytes
                            \/ Bytes(Listed) > MaxTotalBytes \/ Cardinality(Listed) > MaxArtifactFiles
                         THEN "failed" ELSE "open"]
    /\ UNCHANGED <<directory, uploads, blobs, artifacts, troubles>>

\* A file that is gone or has another size than it was listed with ends the collection.
ReadFile ==
    /\ collector.stage = "open" /\ collector.files # <<>>
    /\ LET file == Head(collector.files)
           found == directory[file.name]
       IN  collector' = IF found = NoFile \/ found.size # file.size THEN [collector EXCEPT !.stage = "failed"]
                        ELSE [collector EXCEPT !.stage = "upload", !.read = found, !.attempt = 1]
    /\ UNCHANGED <<directory, uploads, blobs, artifacts, troubles>>

CollectionEnds ==
    /\ collector.stage = "open" /\ collector.files = <<>>
    /\ collector' = [collector EXCEPT !.stage = "done"]
    /\ UNCHANGED <<directory, uploads, blobs, artifacts, troubles>>

Post(u) ==
    /\ collector.stage = "upload" /\ collector.request = 0 /\ uploads[u] = NoUpload
    /\ uploads' = [uploads EXCEPT ![u] = [stage |-> "received", name |-> Head(collector.files).name,
                                          content |-> collector.read]]
    /\ collector' = [collector EXCEPT !.request = u]
    /\ UNCHANGED <<directory, blobs, artifacts, troubles>>

Uploaded == [collector EXCEPT !.stage = "open", !.request = 0, !.files = Tail(@),
                              !.sent = @ \cup {[name |-> Head(collector.files).name, body |-> collector.read.body]}]

Retried_Skips == IF collector.attempt < MaxAttempts THEN [collector EXCEPT !.attempt = @ + 1, !.request = 0]
                 ELSE Uploaded
\* A refusal of the request ends the collection; an error of the service or of the network is retried twice.
Retried == IF collector.attempt < MaxAttempts THEN [collector EXCEPT !.attempt = @ + 1, !.request = 0]
           ELSE [collector EXCEPT !.stage = "failed", !.request = 0]

upload(u, status) ==
    collector' = IF collector.request # u THEN collector
                 ELSE IF status = "ok" THEN Uploaded
                 ELSE IF status = "refused" THEN [collector EXCEPT !.stage = "failed", !.request = 0]
                 ELSE Retried

\* The client's timeout; the centre may be working on the request still.
AnswerLost ==
    /\ collector.request # 0 /\ Trouble
    /\ collector' = Retried
    /\ UNCHANGED <<directory, uploads, blobs, artifacts>>

\* The agent stops; a repeated assignment replays the end of the run and collects once more.
CollectAgain ==
    /\ collector.stage # "none" /\ Trouble
    /\ collector' = NotCollecting
    /\ UNCHANGED <<directory, uploads, blobs, artifacts>>

\* A process the run left behind, or a person, changes a file.
ChangeFile(n, content) ==
    /\ Trouble
    /\ directory' = [directory EXCEPT ![n] = content]
    /\ UNCHANGED <<collector, uploads, blobs, artifacts>>

-----------------------------------------------------------------------------
(* The centre. *)

Row(u) == [name |-> uploads[u].name, body |-> uploads[u].content.body, size |-> uploads[u].content.size]
Existing(name) == {r \in artifacts : r.name = name}
UploadEnds(u, status) == uploads' = [uploads EXCEPT ![u] = NoUpload] /\ upload(u, status)

\* The policy of the immutable version and the digest of the received body are checked before the transaction;
\* what the agent's collector posts passes.
UploadChecked(u) ==
    /\ uploads[u].stage = "received"
    /\ Allows(uploads[u].name) /\ uploads[u].content.size <= MaxFileBytes
    /\ uploads' = [uploads EXCEPT ![u].stage = "checked"]
    /\ UNCHANGED <<directory, collector, blobs, artifacts, troubles>>

OverLimit_OneFile(u) == Row(u).size > MaxTotalBytes
OverLimit(u) ==
    Cardinality(artifacts) >= MaxArtifactFiles \/ Row(u).size > MaxTotalBytes - Bytes(artifacts)

\* MinIOStore.Put: an object under the same name and digest is the same object.
Put(u) == blobs' = blobs \cup {[name |-> Row(u).name, body |-> Row(u).body]}

\* One transaction, with the run's row locked.
Upload(u) ==
    /\ uploads[u].stage = "checked"
    /\ \/ /\ Row(u) \in Existing(Row(u).name)
          /\ UploadEnds(u, "ok") /\ UNCHANGED <<blobs, artifacts>>
       \/ /\ Existing(Row(u).name) \notin {{}, {Row(u)}}
          /\ UploadEnds(u, "refused") /\ UNCHANGED <<blobs, artifacts>>
       \/ /\ Existing(Row(u).name) = {} /\ OverLimit(u)
          /\ UploadEnds(u, "refused") /\ UNCHANGED <<blobs, artifacts>>
       \/ /\ Existing(Row(u).name) = {} /\ ~OverLimit(u)
          /\ Put(u) /\ artifacts' = artifacts \cup {Row(u)}
          /\ UploadEnds(u, "ok")
    /\ UNCHANGED <<directory, troubles>>

\* The transaction fails, the object stored already or not.
UploadFails(u) ==
    /\ uploads[u].stage = "checked" /\ Trouble
    /\ Put(u) \/ UNCHANGED blobs
    /\ UploadEnds(u, "error")
    /\ UNCHANGED <<directory, artifacts>>

-----------------------------------------------------------------------------

ArtifactNext ==
    \/ Collect \/ ReadFile \/ CollectionEnds \/ AnswerLost \/ CollectAgain
    \/ \E u \in Uploads : Post(u) \/ UploadChecked(u) \/ Upload(u) \/ UploadFails(u)
    \/ \E n \in AllowedNames, content \in FileVersions \cup {NoFile} : ChangeFile(n, content)

ArtifactSpec == ArtifactInit /\ [][ArtifactNext]_artifactVars

-----------------------------------------------------------------------------
(* Properties. *)

\* The run's files, the collector and its uploads are well formed.
ArtifactTypeOK ==
    /\ directory \in [Names -> FileVersions \cup {NoFile}]
    /\ collector.stage \in {"none", "open", "upload", "done", "failed"} /\ collector.attempt \in 0..MaxAttempts
    /\ collector.request \in Uploads \cup {0} /\ collector.read \in FileVersions \cup {NoFile}
    /\ \A u \in Uploads : uploads[u] = NoUpload \/ (uploads[u].name \in Names /\ uploads[u].content \in FileVersions)
    /\ troubles \in 0..MaxTroubles

\* Uploads of one run that overlap, repetitions and earlier collections included, never exceed its limits.
QuotaKept == Cardinality(artifacts) <= MaxArtifactFiles /\ Bytes(artifacts) <= MaxTotalBytes

\* An indexed artifact can be opened and is what was uploaded: its object was stored first.
IndexedIsStored == \A r \in artifacts : [name |-> r.name, body |-> r.body] \in blobs

\* A collection that ends without an error has put every file it listed, as it was read, in the index.
CollectedIsIndexed ==
    \A s \in collector.sent : \E r \in artifacts : r.name = s.name /\ r.body = s.body

\* An artifact is never replaced: one name keeps the content that was indexed first.
ArtifactsNeverChange == [][artifacts \subseteq artifacts' /\ \A r, q \in artifacts' : r.name = q.name => r = q]_artifacts

\* The index tells the truth: what it lists can be opened and never changes, and what the agent counts as
\* uploaded is listed, through lost answers, repetitions and restarts.
IndexIsTrue == [](ArtifactTypeOK /\ IndexedIsStored /\ CollectedIsIndexed) /\ ArtifactsNeverChange
=============================================================================
