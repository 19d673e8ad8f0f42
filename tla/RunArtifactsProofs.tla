------------------------- MODULE RunArtifactsProofs -------------------------
(***************************************************************************)
(* The index of a run's artifacts is true for every set of files, contents *)
(* and limits.  The collector and the request it waits for must be tied    *)
(* together: an answer "ok" is about the file at the head of its list.     *)
(***************************************************************************)
EXTENDS RunArtifacts, FiniteSetTheorems, TLAPS

Bodies == {v.body : v \in FileVersions}
ListedFiles == [name : Names, size : Nat]
Collectors ==
    [stage : {"none", "open", "upload", "done", "failed"}, files : Seq(ListedFiles),
     read : FileVersions \cup {NoFile}, attempt : 0..MaxAttempts, sent : SUBSET [name : Names, body : Bodies],
     request : Uploads \cup {0}]
Requests == [stage : {"received", "checked"}, name : Names, content : FileVersions]

ShapeInv ==
    /\ directory \in [Names -> FileVersions \cup {NoFile}]
    /\ collector \in Collectors
    /\ uploads \in [Uploads -> Requests \cup {NoUpload}]
    /\ troubles \in 0..MaxTroubles

\* The collector uploads the file at the head of its list, and the request it waits for is about that file.
HandshakeInv ==
    /\ collector.stage = "upload" => collector.files # <<>> /\ collector.read \in FileVersions
    /\ collector.request # 0 =>
         /\ collector.stage = "upload" /\ uploads[collector.request] # NoUpload
         /\ uploads[collector.request].name = Head(collector.files).name
         /\ uploads[collector.request].content = collector.read

IndexInv ==
    /\ IndexedIsStored /\ CollectedIsIndexed
    /\ \A r, q \in artifacts : r.name = q.name => r = q
    /\ IsFiniteSet(artifacts) /\ Cardinality(artifacts) <= MaxArtifactFiles

ArtifactInv == ShapeInv /\ HandshakeInv /\ IndexInv

\* The collection starts with a list of files.
LEMMA ListingTyped ==
    ASSUME ShapeInv, NEW files \in SetToSeqs(Listed)
    PROVE  files \in Seq(ListedFiles)
<1> DEFINE There == {m \in Names : Allows(m) /\ directory[m] # NoFile}
           file(n) == [name |-> n, size |-> directory[n].size]
<1>1. IsFiniteSet(There)
  BY ArtifactAssumption, FS_Subset
<1>2. IsFiniteSet(Listed)
  <2> DEFINE f == [n \in There |-> file(n)]
  <2>1. f \in Surjection(There, Listed)
    BY DEF Surjection, Listed
  <2> QED
    BY <1>1, <2>1, FS_Surjection
<1>3. Cardinality(Listed) \in Nat
  BY <1>2, FS_CardinalityType
<1>4. Listed \subseteq ListedFiles
  <2>1. \A n \in There : directory[n].size \in Nat
    BY ArtifactAssumption DEF ShapeInv
  <2> QED
    BY <2>1 DEF Listed, ListedFiles
<1>5. files \in [1..Cardinality(Listed) -> Listed]
  BY DEF SetToSeqs
<1> QED
  BY <1>3, <1>4, <1>5

\* The file at the head of a list, and what is left of the list.
LEMMA HeadTyped ==
    ASSUME collector \in Collectors, collector.files # <<>>
    PROVE  Head(collector.files).name \in Names /\ Tail(collector.files) \in Seq(ListedFiles)
<1>1. collector.files \in Seq(ListedFiles)
  BY DEF Collectors
<1>2. PICK files \in Seq(ListedFiles) : files = collector.files
  BY <1>1
<1>3. Head(files) \in ListedFiles /\ Tail(files) \in Seq(ListedFiles)
  BY <1>2
<1> QED
  BY <1>2, <1>3 DEF ListedFiles

\* What the agent makes of a failed attempt keeps the collector well formed, without a request.
LEMMA RetriedTyped ==
    ASSUME ShapeInv, HandshakeInv, collector.request # 0
    PROVE  /\ Retried \in Collectors /\ Retried.request = 0 /\ Retried.sent = collector.sent
           /\ Retried.files = collector.files /\ Retried.read = collector.read
           /\ Retried.stage \in {"upload", "failed"}
<1>1. CASE collector.attempt < MaxAttempts
  <2>1. Retried = [collector EXCEPT !.attempt = @ + 1, !.request = 0]
    BY <1>1 DEF Retried
  <2>2. collector.attempt + 1 \in 0..MaxAttempts
    BY <1>1 DEF ShapeInv, Collectors, MaxAttempts
  <2> QED
    BY <2>1, <2>2 DEF ShapeInv, HandshakeInv, Collectors
<1>2. CASE ~(collector.attempt < MaxAttempts)
  <2>1. Retried = [collector EXCEPT !.stage = "failed", !.request = 0]
    BY <1>2 DEF Retried
  <2> QED
    BY <2>1 DEF ShapeInv, Collectors
<1> QED
  BY <1>1, <1>2

\* The end of a request that the collector may wait for: the collector goes on only if the file is indexed.
LEMMA AnswerKeeps ==
    ASSUME ShapeInv, HandshakeInv, CollectedIsIndexed, NEW u \in Uploads, NEW status,
           uploads[u].stage = "checked", UploadEnds(u, status), artifacts \subseteq artifacts',
           status = "ok" => Row(u) \in artifacts'
    PROVE  /\ collector' \in Collectors /\ uploads' \in [Uploads -> Requests \cup {NoUpload}]
           /\ HandshakeInv' /\ CollectedIsIndexed'
<1>1. /\ uploads' = [uploads EXCEPT ![u] = NoUpload]
      /\ uploads' \in [Uploads -> Requests \cup {NoUpload}]
  BY DEF UploadEnds, ShapeInv
<1>2. uploads[u] \in Requests
  BY DEF ShapeInv, NoUpload
<1>3. CASE collector.request # u
  <2>1. collector' = collector
    BY <1>3 DEF UploadEnds, upload
  <2>2. collector.request # 0 => uploads'[collector.request] = uploads[collector.request]
    BY <1>1, <1>3 DEF ShapeInv, Collectors
  <2> QED
    BY <1>1, <2>1, <2>2 DEF ShapeInv, HandshakeInv, CollectedIsIndexed
<1>4. CASE collector.request = u /\ status = "ok"
  <2>0. u # 0
    BY DEF Uploads
  <2>1. collector' = Uploaded
    BY <1>4 DEF UploadEnds, upload
  <2>2. /\ collector.stage = "upload" /\ collector.files # <<>> /\ collector.read \in FileVersions
        /\ uploads[u].name = Head(collector.files).name /\ uploads[u].content = collector.read
    BY <1>4, <2>0 DEF HandshakeInv
  <2>3. Head(collector.files).name \in Names /\ Tail(collector.files) \in Seq(ListedFiles)
    BY <2>2, HeadTyped DEF ShapeInv
  <2>4. collector.read.body \in Bodies
    BY <2>2 DEF Bodies
  <2> DEFINE new == [name |-> Head(collector.files).name, body |-> collector.read.body]
  <2>5. /\ collector' \in Collectors /\ collector'.request = 0 /\ collector'.stage = "open"
        /\ collector'.sent = collector.sent \cup {new}
    <3>1. PICK rest \in Seq(ListedFiles) : rest = Tail(collector.files)
      BY <2>3
    <3>2. PICK sent : sent = collector.sent \cup {new}
      OBVIOUS
    <3>3. sent \in SUBSET [name : Names, body : Bodies]
      BY <2>3, <2>4, <3>2 DEF ShapeInv, Collectors
    <3>4. collector' = [collector EXCEPT !.stage = "open", !.request = 0, !.files = rest, !.sent = sent]
      BY <2>1, <3>1, <3>2 DEF Uploaded
    <3> HIDE DEF new
    <3> QED
      BY <3>2, <3>3, <3>4 DEF ShapeInv, Collectors
  <2>6. Row(u) \in artifacts' /\ Row(u).name = new.name /\ Row(u).body = new.body
    BY <1>4, <2>2 DEF Row
  <2>7. CollectedIsIndexed'
    BY <2>5, <2>6 DEF CollectedIsIndexed
  <2> QED
    BY <1>1, <2>5, <2>7 DEF HandshakeInv
<1>5. CASE collector.request = u /\ status # "ok"
  <2>0. collector.request # 0
    BY <1>5 DEF Uploads
  <2>1. collector' = Retried \/ collector' = [collector EXCEPT !.stage = "failed", !.request = 0]
    BY <1>5 DEF UploadEnds, upload
  <2>2. /\ collector' \in Collectors /\ collector'.request = 0 /\ collector'.sent = collector.sent
        /\ collector'.files = collector.files /\ collector'.read = collector.read
        /\ collector'.stage \in {"upload", "failed"}
    BY <2>0, <2>1, RetriedTyped DEF ShapeInv, Collectors
  <2>3. collector.stage = "upload"
    BY <2>0 DEF HandshakeInv
  <2> QED
    BY <1>1, <2>2, <2>3 DEF HandshakeInv, CollectedIsIndexed
<1> QED
  BY <1>3, <1>4, <1>5
\* One more artifact of a new name keeps the index an index.
LEMMA RowAdded ==
    ASSUME IndexInv, NEW u \in Uploads, Existing(Row(u).name) = {}, ~OverLimit(u),
           Put(u), artifacts' = artifacts \cup {Row(u)}
    PROVE  /\ IndexedIsStored'
           /\ \A r, q \in artifacts' : r.name = q.name => r = q
           /\ IsFiniteSet(artifacts)' /\ Cardinality(artifacts)' <= MaxArtifactFiles
<1>1. IndexedIsStored'
  BY DEF IndexInv, IndexedIsStored, Put
<1>2. \A r \in artifacts : r.name # Row(u).name
  BY DEF Existing
<1>3. \A r, q \in artifacts' : r.name = q.name => r = q
  BY <1>2 DEF IndexInv
<1>4. /\ IsFiniteSet(artifacts')
      /\ Cardinality(artifacts') = Cardinality(artifacts) + 1
  BY <1>2, FS_AddElement DEF IndexInv
<1>5. Cardinality(artifacts) \in Nat /\ Cardinality(artifacts) < MaxArtifactFiles
  BY FS_CardinalityType, ArtifactAssumption DEF IndexInv, OverLimit
<1> QED
  BY <1>1, <1>3, <1>4, <1>5, ArtifactAssumption

\* The invariant holds at the start.
LEMMA ArtifactInitInv == ArtifactInit => ArtifactInv
<1> SUFFICES ASSUME ArtifactInit PROVE ArtifactInv
  OBVIOUS
<1>1. ShapeInv
  BY ArtifactAssumption
     DEF ArtifactInit, ShapeInv, NotCollecting, Collectors, MaxAttempts
<1>2. HandshakeInv
  BY DEF ArtifactInit, HandshakeInv, NotCollecting
<1>3. IndexInv
  BY FS_EmptySet, ArtifactAssumption
     DEF ArtifactInit, IndexInv, IndexedIsStored, CollectedIsIndexed, NotCollecting
<1> QED
  BY <1>1, <1>2, <1>3 DEF ArtifactInv

\* Every step of the agent and of the centre keeps the invariant.
LEMMA ArtifactStep == ArtifactInv /\ [ArtifactNext]_artifactVars => ArtifactInv'
<1> SUFFICES ASSUME ArtifactInv, [ArtifactNext]_artifactVars PROVE ArtifactInv'
  OBVIOUS
<1>0. ShapeInv /\ HandshakeInv /\ IndexInv
  BY DEF ArtifactInv
<1>t. Trouble => troubles' \in 0..MaxTroubles
  BY <1>0, ArtifactAssumption DEF Trouble, ShapeInv
<1>k. ASSUME UNCHANGED <<blobs, artifacts>>, collector'.sent \subseteq collector.sent PROVE IndexInv'
  BY <1>0, <1>k DEF IndexInv, IndexedIsStored, CollectedIsIndexed
<1>1. CASE Collect
  <2>1. PICK files \in SetToSeqs(Listed), stage \in {"open", "failed"} :
          collector' = [NotCollecting EXCEPT !.files = files, !.stage = stage]
    BY <1>1 DEF Collect
  <2>2. files \in Seq(ListedFiles)
    BY <1>0, ListingTyped
  <2>3. /\ collector' \in Collectors /\ collector'.request = 0 /\ collector'.sent = {}
        /\ collector'.stage # "upload"
    <3>1. collector' = [stage |-> stage, files |-> files, read |-> NoFile, attempt |-> 0, sent |-> {}, request |-> 0]
      BY <2>1 DEF NotCollecting
    <3>2. 0 \in 0..MaxAttempts
      BY DEF MaxAttempts
    <3> QED
      BY <2>2, <3>1, <3>2 DEF Collectors
  <2> QED
    BY <1>0, <1>1, <1>k, <2>3 DEF Collect, ArtifactInv, ShapeInv, HandshakeInv
<1>2. CASE ReadFile
  <2> DEFINE file == Head(collector.files)
             found == directory[file.name]
  <2>1. file.name \in Names
    BY <1>0, <1>2, HeadTyped DEF ReadFile, ShapeInv
  <2>2. found \in FileVersions \cup {NoFile}
    BY <1>0, <2>1 DEF ShapeInv
  <2>3. collector.request = 0
    BY <1>0, <1>2 DEF ReadFile, HandshakeInv
  <2>4. /\ collector' \in Collectors /\ collector'.request = 0 /\ collector'.sent = collector.sent
        /\ collector'.stage = "upload" => collector'.files # <<>> /\ collector'.read \in FileVersions
    <3>1. CASE found = NoFile \/ found.size # file.size
      <4>1. collector' = [collector EXCEPT !.stage = "failed"]
        BY <1>2, <3>1 DEF ReadFile
      <4> QED
        BY <1>0, <2>3, <4>1 DEF ShapeInv, Collectors
    <3>2. CASE ~(found = NoFile \/ found.size # file.size)
      <4>1. collector' = [collector EXCEPT !.stage = "upload", !.read = found, !.attempt = 1]
        BY <1>2, <3>2 DEF ReadFile
      <4> HIDE DEF found
      <4>2. found \in FileVersions /\ 1 \in 0..MaxAttempts /\ collector.files # <<>>
        BY <1>2, <2>2, <3>2 DEF ReadFile, MaxAttempts
      <4> QED
        BY <1>0, <2>3, <4>1, <4>2 DEF ShapeInv, Collectors
    <3> QED
      BY <3>1, <3>2
  <2> QED
    BY <1>0, <1>2, <1>k, <2>4 DEF ReadFile, ArtifactInv, ShapeInv, HandshakeInv
<1>3. CASE CollectionEnds
  <2>1. /\ collector' \in Collectors /\ collector'.request = collector.request /\ collector'.sent = collector.sent
        /\ collector'.stage = "done"
    BY <1>0, <1>3 DEF CollectionEnds, ShapeInv, Collectors
  <2>2. collector.request = 0
    BY <1>0, <1>3 DEF CollectionEnds, HandshakeInv
  <2> QED
    BY <1>0, <1>3, <1>k, <2>1, <2>2 DEF CollectionEnds, ArtifactInv, ShapeInv, HandshakeInv
<1>4. CASE AnswerLost
  <2>1. /\ collector' \in Collectors /\ collector'.request = 0 /\ collector'.sent = collector.sent
        /\ collector'.files = collector.files /\ collector'.read = collector.read
        /\ collector.stage = "upload"
    BY <1>0, <1>4, RetriedTyped DEF AnswerLost, HandshakeInv
  <2> QED
    BY <1>0, <1>4, <1>k, <1>t, <2>1 DEF AnswerLost, ArtifactInv, ShapeInv, HandshakeInv
<1>5. CASE CollectAgain
  <2>1. collector' \in Collectors /\ collector'.request = 0 /\ collector'.sent = {} /\ collector'.stage = "none"
    BY <1>5 DEF CollectAgain, NotCollecting, Collectors, MaxAttempts
  <2> QED
    BY <1>0, <1>5, <1>k, <1>t, <2>1 DEF CollectAgain, ArtifactInv, ShapeInv, HandshakeInv
<1>6. ASSUME NEW u \in Uploads, Post(u) PROVE ArtifactInv'
  <2> DEFINE new == [stage |-> "received", name |-> Head(collector.files).name, content |-> collector.read]
  <2>1. collector.files # <<>> /\ collector.read \in FileVersions /\ Head(collector.files).name \in Names
    <3>1. collector.files # <<>> /\ collector.read \in FileVersions
      BY <1>0, <1>6 DEF Post, HandshakeInv
    <3> QED
      BY <1>0, <3>1, HeadTyped DEF ShapeInv
  <2>2. new \in Requests /\ new # NoUpload
    BY <2>1 DEF Requests, NoUpload
  <2>3. /\ collector' \in Collectors /\ collector'.request = u /\ collector'.sent = collector.sent
        /\ collector'.files = collector.files /\ collector'.read = collector.read /\ collector'.stage = "upload"
    BY <1>0, <1>6 DEF Post, ShapeInv, Collectors
  <2>4. uploads' \in [Uploads -> Requests \cup {NoUpload}] /\ uploads'[u] = new
    BY <1>0, <1>6, <2>2 DEF Post, ShapeInv
  <2>5. HandshakeInv'
    BY <2>1, <2>2, <2>3, <2>4 DEF HandshakeInv
  <2> QED
    BY <1>0, <1>6, <1>k, <2>3, <2>4, <2>5 DEF Post, ArtifactInv, ShapeInv
<1>7. ASSUME NEW u \in Uploads, UploadChecked(u) PROVE ArtifactInv'
  <2>1. uploads[u] \in Requests
    BY <1>0, <1>7 DEF UploadChecked, ShapeInv, NoUpload
  <2>2. /\ uploads' \in [Uploads -> Requests \cup {NoUpload}]
        /\ \A v \in Uploads : uploads[v] # NoUpload => /\ uploads'[v] # NoUpload
                                                       /\ uploads'[v].name = uploads[v].name
                                                       /\ uploads'[v].content = uploads[v].content
    BY <1>0, <1>7, <2>1 DEF UploadChecked, ShapeInv, Requests, NoUpload
  <2>3. collector' = collector /\ (collector.request # 0 => collector.request \in Uploads)
    BY <1>0, <1>7 DEF UploadChecked, ShapeInv, Collectors
  <2>4. HandshakeInv'
    BY <1>0, <2>2, <2>3 DEF HandshakeInv
  <2> QED
    BY <1>0, <1>7, <1>k, <2>2, <2>3, <2>4 DEF UploadChecked, ArtifactInv, ShapeInv
<1>8. ASSUME NEW u \in Uploads, Upload(u) PROVE ArtifactInv'
  <2>1. PICK status \in {"ok", "refused"} :
          /\ UploadEnds(u, status)
          /\ \/ UNCHANGED <<blobs, artifacts>> /\ (status = "ok" => Row(u) \in artifacts)
             \/ /\ Existing(Row(u).name) = {} /\ ~OverLimit(u)
                /\ Put(u) /\ artifacts' = artifacts \cup {Row(u)}
    BY <1>8 DEF Upload, Existing
  <2>2. artifacts \subseteq artifacts' /\ (status = "ok" => Row(u) \in artifacts')
    BY <2>1
  <2>3. /\ collector' \in Collectors /\ uploads' \in [Uploads -> Requests \cup {NoUpload}]
        /\ HandshakeInv' /\ CollectedIsIndexed'
    BY <1>0, <1>8, <2>1, <2>2, AnswerKeeps DEF Upload, IndexInv
  <2>4. IndexInv'
    <3>1. CASE UNCHANGED <<blobs, artifacts>>
      BY <1>0, <2>3, <3>1 DEF IndexInv, IndexedIsStored
    <3>2. CASE ~UNCHANGED <<blobs, artifacts>>
      BY <1>0, <2>1, <2>3, <3>2, RowAdded DEF IndexInv
    <3> QED
      BY <3>1, <3>2
  <2> QED
    BY <1>0, <1>8, <2>3, <2>4 DEF Upload, ArtifactInv, ShapeInv
<1>9. ASSUME NEW u \in Uploads, UploadFails(u) PROVE ArtifactInv'
  <2>1. blobs \subseteq blobs' /\ artifacts' = artifacts
    BY <1>9 DEF UploadFails, Put
  <2>2. /\ collector' \in Collectors /\ uploads' \in [Uploads -> Requests \cup {NoUpload}]
        /\ HandshakeInv' /\ CollectedIsIndexed'
    BY <1>0, <1>9, <2>1, AnswerKeeps DEF UploadFails, IndexInv
  <2>3. IndexInv'
    BY <1>0, <2>1, <2>2 DEF IndexInv, IndexedIsStored
  <2> QED
    BY <1>0, <1>9, <1>t, <2>2, <2>3 DEF UploadFails, ArtifactInv, ShapeInv
<1>10. ASSUME NEW n \in AllowedNames, NEW content \in FileVersions \cup {NoFile}, ChangeFile(n, content)
       PROVE  ArtifactInv'
  BY <1>0, <1>10, <1>k, <1>t DEF ChangeFile, ArtifactInv, ShapeInv, HandshakeInv
<1>11. CASE UNCHANGED artifactVars
  BY <1>0, <1>11, <1>k DEF artifactVars, ArtifactInv, ShapeInv, HandshakeInv
<1> QED
  BY <1>1, <1>2, <1>3, <1>4, <1>5, <1>6, <1>7, <1>8, <1>9, <1>10, <1>11 DEF ArtifactNext

\* The index is true: what it lists is stored and never changes, and what a collection counts as uploaded is
\* listed, whatever answers are lost, uploads repeated and collections started again (Upload, upload, Put).
THEOREM IndexStaysTrue == ArtifactSpec => IndexIsTrue
<1>1. ArtifactInv => ArtifactTypeOK /\ IndexedIsStored /\ CollectedIsIndexed
  BY DEF ArtifactInv, ShapeInv, IndexInv, ArtifactTypeOK, Collectors, Requests
<1>2. ArtifactInv /\ ArtifactInv' /\ [ArtifactNext]_artifactVars =>
        [artifacts \subseteq artifacts' /\ \A r, q \in artifacts' : r.name = q.name => r = q]_artifacts
  <2> SUFFICES ASSUME ArtifactInv', [ArtifactNext]_artifactVars PROVE artifacts \subseteq artifacts'
    BY DEF ArtifactInv, IndexInv
  <2> QED
    BY DEF ArtifactNext, artifactVars, Collect, ReadFile, CollectionEnds, AnswerLost, CollectAgain, Post,
           UploadChecked, Upload, UploadFails, ChangeFile
<1> QED
  BY <1>1, <1>2, ArtifactInitInv, ArtifactStep, PTL DEF ArtifactSpec, IndexIsTrue, ArtifactsNeverChange

\* Uploads that overlap, repetitions included, never index more files than the policy's limit (OverLimit).
THEOREM FilesAreLimited == ArtifactSpec => [](Cardinality(artifacts) <= MaxArtifactFiles)
<1>1. ArtifactInv => Cardinality(artifacts) <= MaxArtifactFiles
  BY DEF ArtifactInv, IndexInv
<1> QED
  BY <1>1, ArtifactInitInv, ArtifactStep, PTL DEF ArtifactSpec
=============================================================================
