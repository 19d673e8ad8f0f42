----------------------------- MODULE LogStream -----------------------------
(***************************************************************************)
(* The output of one run, from the program to the archive: the agent's     *)
(* spool of numbered chunk files and its flushing client (internal/        *)
(* logstream/spool.go, internal/agent/log_client.go), the acceptance of    *)
(* chunks by the centre (logstream/service.go) over connections that break *)
(* and overlap, and the archive of a large finished log (archive.go,       *)
(* archive_worker.go, archive_http.go).                                    *)
(***************************************************************************)
EXTENDS Integers, Sequences, SequencesExt, FiniteSets, FiniteSetsExt

CONSTANTS
    SystemStream,   \* the agent's own messages; the other streams are the program's
    ProgramStreams, \* naturals, in the alphabetical order of the stream names
    MaxBytes,       \* capacity of the spool, in chunks
    Threshold,      \* chunks from which a finished log is archived
    LogBudgets      \* bounds, one of which a behaviour keeps to

Streams == ProgramStreams \cup {SystemStream}
Handlers == {1, 2}
Workers == {1, 2}

\* "plain" text, text with the secret's "first" value in it, that text "masked", and text with a
\* "zero" byte in it, which the database cannot store.
Contents == {"plain", "first", "masked", "zero"}

ASSUME LogAssumption ==
    /\ MaxBytes \in Nat \ {0} /\ Threshold \in Nat \ {0}
    /\ Streams \subseteq Nat
    /\ LogBudgets \subseteq [chunks : Nat, troubles : Nat, contents : SUBSET Contents, processes : 1..2]

VARIABLES
    writers,    \* streams whose writer is alive on the agent
    written,    \* by stream: what was written into the spool (history)
    spool,      \* chunk files
    cursor,     \* by stream: content of .next-sequence, 0 when there is no such file
    used,       \* usedBytes
    appender,   \* the Append that holds the spool's mutex
    torn,       \* streams whose cursor was left behind their chunks by an Append cut short (history)
    queue,      \* chunks of the flush under way
    link,       \* handler of the agent's connection, 0 when there is none
    ack,        \* answer on its way to the agent, 0 when there is none
    handlers,   \* by handler: the chunk it works on
    stored,     \* rows of log_chunks
    lastCursor, \* archive_cursor sequence of the database
    secret,     \* value of the run's secret
    finished,   \* whether the run is recorded as ended
    quiet,      \* whether ArchiveQuietPeriod has passed since the last chunk and the end of the run
    workers,    \* by worker: the archiving under way
    objects,    \* archives in the object store, each named by what it holds
    archive,    \* row of run_log_archives
    budget,
    troubles    \* so far

spoolVars == <<writers, written, spool, cursor, used, appender, torn>>
linkVars == <<queue, link, ack>>
storeVars == <<stored, lastCursor, secret, finished>>
archiveVars == <<workers, objects, archive>>
logVars == <<spoolVars, linkVars, handlers, storeVars, quiet, archiveVars, budget, troubles>>

NoAppend == [stage |-> "idle", stream |-> SystemStream, left |-> <<>>, next |-> 0]
NoChunk == [stream |-> SystemStream, sequence |-> 0, content |-> "plain"]
IdleHandler == [stage |-> "idle", chunk |-> NoChunk, cursor |-> 0]
IdleWorker == [stage |-> "idle", seen |-> {}]
NoArchive == [cursor |-> 0, count |-> 0, key |-> {}]

LogInit ==
    /\ writers = ProgramStreams /\ written = [s \in Streams |-> <<>>]
    /\ spool = {} /\ cursor = [s \in Streams |-> 0] /\ used = 0 /\ appender = NoAppend /\ torn = {}
    /\ queue = <<>> /\ link = 0 /\ ack = 0
    /\ handlers = [h \in Handlers |-> IdleHandler]
    /\ stored = {} /\ lastCursor = 0 /\ secret = "first" /\ finished = FALSE
    /\ quiet = FALSE
    /\ workers = [w \in Workers |-> IdleWorker] /\ objects = {} /\ archive = NoArchive
    /\ budget \in LogBudgets /\ troubles = 0

Trouble == troubles < budget.troubles /\ troubles' = troubles + 1
Largest(numbers) == IF numbers = {} THEN 0 ELSE Max(numbers)
Chunks == FoldFunctionOnSet(LAMBDA w, n : n + Len(w), 0, written, Streams)

-----------------------------------------------------------------------------
(* The spool. *)

pending(s) == {c \in spool : c.stream = s}

\* The number of the next chunk: from the cursor file, never below a chunk still in the spool.
nextSequence(s) ==
    LET last == Largest({c.sequence : c \in pending(s)})
    IN  IF cursor[s] > last THEN cursor[s] ELSE last + 1

bufferedBytes(files) == Cardinality(files)

Unlocked == appender.stage = "idle"
Writable(s, contents) == Unlocked /\ s \in writers /\ Chunks + Len(contents) <= budget.chunks
Exceeded(contents) == used >= MaxBytes \/ Len(contents) > MaxBytes - used

\* A write of the program, split into chunks; all of them must fit, or none is kept.
AppendOutput(s, contents) ==
    /\ Writable(s, contents) /\ ~Exceeded(contents)
    /\ appender' = [stage |-> "chunks", stream |-> s, left |-> contents, next |-> nextSequence(s)]
    /\ UNCHANGED <<writers, written, spool, cursor, used, torn, linkVars, handlers, storeVars, quiet, archiveVars,
                   budget, troubles>>

\* ErrSpoolLimitExceeded ends the copying of a program's output; the agent's own message is dropped.
AppendRefused(s, contents) ==
    /\ Writable(s, contents) /\ Exceeded(contents) /\ s \in ProgramStreams
    /\ writers' = writers \ {s}
    /\ UNCHANGED <<written, spool, cursor, used, appender, torn, linkVars, handlers, storeVars, quiet, archiveVars,
                   budget, troubles>>

\* Each chunk file appears, or is replaced, by a rename.
write ==
    /\ appender.stage = "chunks" /\ appender.left # <<>>
    /\ LET s == appender.stream
           chunk == [stream |-> s, sequence |-> appender.next, content |-> Head(appender.left)]
       IN  /\ spool' = {c \in spool : c.stream # s \/ c.sequence # chunk.sequence} \cup {chunk}
           /\ written' = [written EXCEPT ![s] = Append(@, chunk.content)]
    /\ used' = used + 1
    /\ appender' = [appender EXCEPT !.left = Tail(@), !.next = @ + 1]
    /\ UNCHANGED <<writers, cursor, torn, linkVars, handlers, storeVars, quiet, archiveVars, budget, troubles>>

\* writeSequenceCursor removes the old file before it renames the new one.
removeCursor ==
    /\ appender.stage = "chunks" /\ appender.left = <<>>
    /\ cursor' = [cursor EXCEPT ![appender.stream] = 0]
    /\ appender' = [appender EXCEPT !.stage = "rename"]
    /\ UNCHANGED <<writers, written, spool, used, torn, linkVars, handlers, storeVars, quiet, archiveVars, budget,
                   troubles>>

writeSequenceCursor ==
    /\ appender.stage = "rename"
    /\ cursor' = [cursor EXCEPT ![appender.stream] = appender.next]
    /\ appender' = NoAppend
    /\ UNCHANGED <<writers, written, spool, used, torn, linkVars, handlers, storeVars, quiet, archiveVars, budget,
                   troubles>>

\* The disk refuses a chunk or the cursor: Append returns at once, and so ends the copying.
WriteFails ==
    /\ ~Unlocked /\ Trouble
    /\ appender' = NoAppend /\ torn' = torn \cup {appender.stream}
    /\ writers' = writers \ (ProgramStreams \cap {appender.stream})
    /\ UNCHANGED <<written, spool, cursor, used, linkVars, handlers, storeVars, quiet, archiveVars, budget>>

\* The program ends; the agent then collects artifacts and may write about it.
ProgramEnds ==
    /\ Unlocked /\ SystemStream \notin writers
    /\ writers' = {SystemStream}
    /\ UNCHANGED <<written, spool, cursor, used, appender, torn, linkVars, handlers, storeVars, quiet, archiveVars,
                   budget, troubles>>

-----------------------------------------------------------------------------
(* The agent's log client. *)

AllPending ==
    SetToSortSeq(spool, LAMBDA c, d : c.sequence < d.sequence \/ (c.sequence = d.sequence /\ c.stream < d.stream))

\* A connection is made to a handler that has nothing left of an earlier one.
Connect(h) ==
    /\ link = 0 /\ handlers[h] = IdleHandler
    /\ link' = h
    /\ UNCHANGED <<spoolVars, queue, ack, handlers, storeVars, quiet, archiveVars, budget, troubles>>

\* Any error of the client ends its Run and the connection.
Dropped == queue' = <<>> /\ link' = 0 /\ ack' = 0

\* A chunk already sent is read by its handler, or is lost with the connection.
Disconnect ==
    /\ link # 0 /\ Trouble /\ Dropped
    /\ \E lost \in BOOLEAN :
           handlers' = IF lost /\ handlers[link].stage = "received" THEN [handlers EXCEPT ![link] = IdleHandler]
                       ELSE handlers
    /\ UNCHANGED <<spoolVars, storeVars, quiet, archiveVars, budget>>

AwaitingAnswer == link # 0 /\ (handlers[link] # IdleHandler \/ ack # 0)

flush ==
    /\ Unlocked /\ link # 0 /\ queue = <<>> /\ spool # {}
    /\ queue' = AllPending
    /\ UNCHANGED <<spoolVars, link, ack, handlers, storeVars, quiet, archiveVars, budget, troubles>>

SendLogChunk ==
    /\ queue # <<>> /\ ~AwaitingAnswer
    /\ handlers' = [handlers EXCEPT ![link] = [IdleHandler EXCEPT !.stage = "received", !.chunk = Head(queue)]]
    /\ UNCHANGED <<spoolVars, linkVars, storeVars, quiet, archiveVars, budget, troubles>>

Acknowledged_Inclusive(s, next) == {c \in spool : c.stream = s /\ c.sequence <= next}
Acknowledged(s, next) == {c \in spool : c.stream = s /\ c.sequence < next}

\* The answer names the next number the centre expects: every chunk below it is removed.
AcknowledgeChunk ==
    /\ ack # 0 /\ Unlocked
    /\ LET gone == Acknowledged(Head(queue).stream, ack)
       IN  spool' = spool \ gone /\ used' = Max({0, used - Cardinality(gone)})
    /\ ack' = 0 /\ queue' = Tail(queue)
    /\ UNCHANGED <<writers, written, cursor, appender, torn, link, handlers, storeVars, quiet, archiveVars, budget,
                   troubles>>

\* The agent stops and starts again.  The program's output is no longer copied; a repeated assignment makes
\* the agent collect the artifacts, and write about it, once more.
AgentRestarts ==
    /\ Trouble /\ Dropped
    /\ appender' = NoAppend /\ used' = bufferedBytes(spool) /\ writers' = {SystemStream}
    /\ torn' = IF Unlocked THEN torn ELSE torn \cup {appender.stream}
    /\ UNCHANGED <<written, spool, cursor, handlers, storeVars, quiet, archiveVars, budget>>

-----------------------------------------------------------------------------
(* The centre accepts a chunk. *)

Mask(content, value) == IF content = value THEN "masked" ELSE content

\* An error closes the connection.
Refuse(h) ==
    /\ handlers' = [handlers EXCEPT ![h] = IdleHandler]
    /\ IF link = h THEN Dropped ELSE UNCHANGED linkVars
    /\ UNCHANGED storeVars

\* The answer is lost when the connection is.
Answer(h, next) ==
    /\ handlers' = [handlers EXCEPT ![h] = IdleHandler]
    /\ ack' = IF link = h THEN next ELSE ack
    /\ UNCHANGED <<queue, link>>

\* The run's secrets are read and masked before the lock is taken (every chunk of the spool is a valid one).
AcceptMasks(h) ==
    /\ handlers[h].stage = "received"
    /\ handlers' = [handlers EXCEPT ![h].stage = "masked", ![h].chunk.content = Mask(@, secret)]
    /\ UNCHANGED <<spoolVars, linkVars, storeVars, quiet, archiveVars, budget, troubles>>

Find(chunk) == {r \in stored : r.stream = chunk.stream /\ r.sequence = chunk.sequence}
NextSequence(s) == Largest({r.sequence : r \in {x \in stored : x.stream = s}}) + 1
SameStored(chunk) == \E r \in Find(chunk) : r.content = chunk.content
\* The service's mutex, which two API processes do not share.
Locked(h) == budget.processes = 1 /\ \E g \in Handlers \ {h} : handlers[g].stage = "inserting"

\* Up to the insert statement, which draws its archive cursor from a database sequence.
AcceptLocks(h) ==
    /\ handlers[h].stage = "masked" /\ ~Locked(h)
    /\ LET chunk == handlers[h].chunk
           next == NextSequence(chunk.stream)
       IN  \/ /\ chunk.sequence > next \/ (chunk.sequence < next /\ ~SameStored(chunk))
              /\ Refuse(h)
           \/ /\ chunk.sequence < next /\ SameStored(chunk)
              /\ Answer(h, next) /\ UNCHANGED storeVars
           \/ /\ chunk.sequence = next
              /\ lastCursor' = lastCursor + 1
              /\ handlers' = [handlers EXCEPT ![h].stage = "inserting", ![h].cursor = lastCursor + 1]
              /\ UNCHANGED <<linkVars, stored, secret, finished>>
    /\ UNCHANGED <<spoolVars, quiet, archiveVars, budget, troubles>>

\* The row commits; a duplicate of another process violates the unique key and is compared instead.
Insert(h) ==
    /\ handlers[h].stage = "inserting"
    /\ LET chunk == handlers[h].chunk
       IN  \/ /\ Find(chunk) = {} /\ chunk.content # "zero"
              /\ stored' = stored \cup {[stream |-> chunk.stream, sequence |-> chunk.sequence,
                                         content |-> chunk.content, cursor |-> handlers[h].cursor]}
              /\ quiet' = FALSE
              /\ Answer(h, chunk.sequence + 1) /\ UNCHANGED <<lastCursor, secret, finished>>
           \/ /\ SameStored(chunk)
              /\ Answer(h, chunk.sequence + 1) /\ UNCHANGED <<storeVars, quiet>>
           \/ /\ ~SameStored(chunk) /\ (Find(chunk) # {} \/ chunk.content = "zero")
              /\ Refuse(h) /\ UNCHANGED quiet
    /\ UNCHANGED <<spoolVars, archiveVars, budget, troubles>>

InsertFails(h) ==
    /\ handlers[h].stage \in {"received", "masked", "inserting"} /\ Trouble
    /\ Refuse(h)
    /\ UNCHANGED <<spoolVars, quiet, archiveVars, budget>>

\* Somebody gives the secret another value.
RotateSecret ==
    /\ secret = "first" /\ "first" \in budget.contents /\ Trouble
    /\ secret' = "second"
    /\ UNCHANGED <<spoolVars, linkVars, handlers, stored, lastCursor, finished, quiet, archiveVars, budget>>

RunFinishes ==
    /\ SystemStream \in writers /\ ~finished
    /\ finished' = TRUE /\ quiet' = FALSE
    /\ UNCHANGED <<spoolVars, linkVars, handlers, stored, lastCursor, secret, archiveVars, budget, troubles>>

-----------------------------------------------------------------------------
(* The archive. *)

Cursors == {r.cursor : r \in stored}
ArchiveCurrent == archive.cursor = Largest(Cursors) /\ archive.count = Cardinality(stored)

QuietPasses ==
    /\ finished /\ ~quiet
    /\ quiet' = TRUE
    /\ UNCHANGED <<spoolVars, linkVars, handlers, storeVars, archiveVars, budget, troubles>>

ListArchiveCandidates_Once(w) ==
    /\ w <= budget.processes /\ workers[w].stage = "idle"
    /\ finished /\ quiet /\ Cardinality(stored) >= Threshold /\ archive = NoArchive
    /\ workers' = [workers EXCEPT ![w].stage = "listed"]
    /\ UNCHANGED <<spoolVars, linkVars, handlers, storeVars, quiet, objects, archive, budget, troubles>>
ListArchiveCandidates(w) ==
    /\ w <= budget.processes /\ workers[w].stage = "idle"
    /\ finished /\ quiet /\ Cardinality(stored) >= Threshold /\ ~ArchiveCurrent
    /\ workers' = [workers EXCEPT ![w].stage = "listed"]
    /\ UNCHANGED <<spoolVars, linkVars, handlers, storeVars, quiet, objects, archive, budget, troubles>>

LoadForArchive(w) ==
    /\ workers[w].stage = "listed"
    /\ workers' = [workers EXCEPT ![w] = [stage |-> "loaded", seen |-> Cursors]]
    /\ UNCHANGED <<spoolVars, linkVars, handlers, storeVars, quiet, objects, archive, budget, troubles>>

\* The object is named by the digest of its content: a repetition finds it there.
PutArchive(w) ==
    /\ workers[w].stage = "loaded"
    /\ objects' = objects \cup {workers[w].seen}
    /\ workers' = [workers EXCEPT ![w].stage = "put"]
    /\ UNCHANGED <<spoolVars, linkVars, handlers, storeVars, quiet, archive, budget, troubles>>

ArchiveFails(w) ==
    /\ workers[w].stage # "idle" /\ Trouble
    /\ workers' = [workers EXCEPT ![w] = IdleWorker]
    /\ UNCHANGED <<spoolVars, linkVars, handlers, storeVars, quiet, objects, archive, budget>>

\* The upsert leaves a fuller archive alone.
SaveArchive(w) ==
    /\ workers[w].stage = "put"
    /\ LET record == [cursor |-> Largest(workers[w].seen), count |-> Cardinality(workers[w].seen),
                      key |-> workers[w].seen]
       IN  archive' = IF \/ archive = NoArchive
                         \/ record.count > archive.count
                         \/ record.count = archive.count /\ record.cursor >= archive.cursor
                      THEN record ELSE archive
    /\ workers' = [workers EXCEPT ![w] = IdleWorker]
    /\ UNCHANGED <<spoolVars, linkVars, handlers, storeVars, quiet, objects, budget, troubles>>

-----------------------------------------------------------------------------

Outputs == UNION {[1..n -> budget.contents] : n \in 1..2}

Spooling == write \/ removeCursor \/ writeSequenceCursor
Writing == \E s \in Streams, contents \in Outputs : AppendOutput(s, contents) \/ AppendRefused(s, contents)
Client == flush \/ SendLogChunk \/ AcknowledgeChunk \/ \E h \in Handlers : Connect(h)
Accepting(h) == AcceptMasks(h) \/ AcceptLocks(h) \/ Insert(h)
Archiving(w) == ListArchiveCandidates(w) \/ LoadForArchive(w) \/ PutArchive(w) \/ SaveArchive(w)

LogNext ==
    \/ Writing \/ Spooling \/ WriteFails \/ ProgramEnds
    \/ Client \/ Disconnect \/ AgentRestarts
    \/ \E h \in Handlers : Accepting(h) \/ InsertFails(h)
    \/ RotateSecret \/ RunFinishes \/ QuietPasses
    \/ \E w \in Workers : Archiving(w) \/ ArchiveFails(w)

LogFairness ==
    /\ WF_logVars(Spooling) /\ WF_logVars(Client)
    /\ WF_logVars(ProgramEnds) /\ WF_logVars(RunFinishes) /\ WF_logVars(QuietPasses)
    /\ \A h \in Handlers : WF_logVars(Accepting(h))
    /\ \A w \in Workers : WF_logVars(Archiving(w))

LogSpec == LogInit /\ [][LogNext]_logVars /\ LogFairness

-----------------------------------------------------------------------------
(* Properties. *)

ChunkType == [stream : Streams, sequence : Nat, content : Contents]

\* The agent's buffer, the connection and the centre's store are well formed.
LogTypeOK ==
    /\ writers \subseteq Streams
    /\ written \in [Streams -> Seq(Contents)]
    /\ spool \subseteq ChunkType /\ cursor \in [Streams -> Nat] /\ used \in Nat
    /\ appender \in [stage : {"idle", "chunks", "rename"}, stream : Streams, left : Seq(Contents), next : Nat]
    /\ torn \subseteq Streams
    /\ queue \in Seq(ChunkType) /\ link \in 0..2 /\ ack \in Nat
    /\ handlers \in [Handlers -> [stage : {"idle", "received", "masked", "inserting"}, chunk : ChunkType,
                                  cursor : Nat]]
    /\ \A r \in stored : r.cursor \in 1..lastCursor
    /\ secret \in {"first", "second"} /\ finished \in BOOLEAN /\ quiet \in BOOLEAN
    /\ workers \in [Workers -> [stage : {"idle", "listed", "loaded", "put"}, seen : SUBSET (1..lastCursor)]]
    /\ archive \in [cursor : Nat, count : Nat, key : SUBSET (1..lastCursor)]
    /\ troubles \in 0..budget.troubles

\* What a writer got into the spool is never lost: chunk i of a stream is in the spool under number i or stored
\* under it, with its text or its masked text; and the store holds nothing else and has no gap.  Reuse of a
\* number after an Append cut short between its chunks and its cursor (torn) is the exception.
LogIsWhole ==
    \A s \in Streams \ torn :
        LET kept(i) == {c.content : c \in {x \in spool \cup stored : x.stream = s /\ x.sequence = i}}
        IN  /\ \A i \in 1..Len(written[s]) : /\ kept(i) # {}
                                             /\ kept(i) \subseteq {written[s][i], Mask(written[s][i], "first")}
            /\ {r.sequence : r \in {x \in stored : x.stream = s}} = 1..(NextSequence(s) - 1)
            /\ NextSequence(s) <= Len(written[s]) + 1

\* An archive offered as current (ArchiveStatus) holds every stored chunk, those that came after an earlier
\* archive included, and its object exists.
CurrentIsComplete == archive # NoArchive /\ ArchiveCurrent => archive.key = Cursors /\ archive.key \in objects

\* A late worker never replaces an archive by one that lacks chunks the earlier one held.
ArchiveNeverShrinks == [][archive.key \subseteq archive'.key]_archive

Deliverable == budget.contents = {"plain"} /\ torn = {}

\* Output is delivered although connections and processes fail: in the end the spool is empty.
BufferedIsDelivered == <>[](Deliverable => spool = {})

\* A large log of a finished run is archived in the end, late chunks included.
LargeLogIsArchived ==
    <>[](finished /\ Cardinality(stored) >= Threshold => archive # NoArchive /\ ArchiveCurrent)

\* The log is kept: what was written is in the spool or stored once, and archives are complete and only grow.
LogIsKept == [](LogTypeOK /\ LogIsWhole /\ CurrentIsComplete) /\ ArchiveNeverShrinks

\* Output reaches the centre, and a large log its archive.
LogsArrive == BufferedIsDelivered /\ LargeLogIsArchived
=============================================================================
