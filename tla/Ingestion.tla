----------------------------- MODULE Ingestion -----------------------------
(***************************************************************************)
(* The document pipeline of one tenant: POST /documents/upload in the api, *)
(* the Celery queue, run_ingestion in the workers, the documents and       *)
(* document_chunks tables, the object store and the webhook dispatch that  *)
(* ends a task.                                                            *)
(*                                                                         *)
(* Every database transaction of the code is cut where another one can     *)
(* come between: at the read of the row and at the commit.  Statements     *)
(* that wait on a lock until the other transaction ends are guards.        *)
(***************************************************************************)
EXTENDS Integers

CONSTANTS
    Docs,            \* document ids the api may create
    Workers,         \* Celery worker processes
    ChunkCount,      \* chunks the text of a document yields (0: no text)
    MaxRedeliveries, \* bound: broker redeliveries
    MaxFaults        \* bound: crashes, storage and database errors

ASSUME IngestionAssumption ==
    /\ Docs # {}
    /\ ChunkCount \in [Docs -> Nat]
    /\ MaxRedeliveries \in Nat
    /\ MaxFaults \in Nat

Status == {"pending", "processing", "ready", "failed"}

\* A row of documents: the columns the pipeline reads and writes.  error is
\* reduced to whether it is set, storage_key likewise.
Row == [status : Status, key : BOOLEAN, error : BOOLEAN]

NoRow == [status |-> "none", key |-> FALSE, error |-> FALSE]

\* A row of document_chunks: the run that inserted it and its chunk_index.
Chunk == [run : Nat, index : Nat]

\* What one run inserts for document d.
Batch(d, r) == [run : {r}, index : 0 .. (ChunkCount[d] - 1)]

Event == [doc : Docs, kind : {"ready", "failed"}, count : Nat]

\* The value job has while a worker has no task.
AnyDoc == CHOOSE d \in Docs : TRUE

UploadStage == {"new", "open", "put", "answered", "enqueued", "end", "dead"}

Stage == {"idle", "opening", "marking", "working", "clearing", "inserting",
          "committing", "failing", "failCommit",
          "notifyAbsent", "notifyReady", "notifyFailed"}

VARIABLES
    row,       \* committed documents rows
    chunks,    \* committed document_chunks rows, by document
    objects,   \* documents whose PDF is in the bucket
    upload,    \* where the request that creates the document is
    told,      \* documents whose upload was answered 201
    deleted,   \* documents removed by DELETE /documents/{id}
    queue,     \* ingest tasks waiting at the broker, by document
    stage,     \* where each worker is in its task
    job,       \* the document of that task
    loaded,    \* the row as the worker's session read it
    snap,      \* the chunk rows the worker's DELETE saw
    run,       \* the number of the worker's run, given when it inserts
    nextRun,
    billed,    \* runs with a committed embedding usage event
    events,    \* document webhooks dispatched
    redelivered,
    faults

apiVars == <<objects, upload, told, deleted>>
dbVars == <<row, chunks, billed>>
workerVars == <<stage, job, loaded, snap, run, nextRun>>
vars == <<row, chunks, objects, upload, told, deleted, queue, stage, job,
          loaded, snap, run, nextRun, billed, events, redelivered, faults>>

Init ==
    /\ row = [d \in Docs |-> NoRow]
    /\ chunks = [d \in Docs |-> {}]
    /\ objects = {}
    /\ upload = [d \in Docs |-> "new"]
    /\ told = {}
    /\ deleted = {}
    /\ queue = [d \in Docs |-> 0]
    /\ stage = [w \in Workers |-> "idle"]
    /\ job = [w \in Workers |-> AnyDoc]
    /\ loaded = [w \in Workers |-> NoRow]
    /\ snap = [w \in Workers |-> {}]
    /\ run = [w \in Workers |-> 0]
    /\ nextRun = 0
    /\ billed = {}
    /\ events = {}
    /\ redelivered = 0
    /\ faults = 0

-----------------------------------------------------------------------------
(* The api                                                                 *)

\* POST /documents/upload, up to the flush that assigns the id.
ReceiveUpload(d) ==
    /\ upload[d] = "new"
    /\ upload' = [upload EXCEPT ![d] = "open"]
    /\ UNCHANGED <<objects, told, deleted, dbVars, queue, workerVars, events,
                   redelivered, faults>>

\* The PDF is put in the bucket, then storage_key is set and flushed.
PutObject(d) ==
    /\ upload[d] = "open"
    /\ objects' = objects \cup {d}
    /\ upload' = [upload EXCEPT ![d] = "put"]
    /\ UNCHANGED <<told, deleted, dbVars, queue, workerVars, events,
                   redelivered, faults>>

\* The 201 response is sent.
Respond(d) ==
    /\ upload[d] = "put"
    /\ told' = told \cup {d}
    /\ upload' = [upload EXCEPT ![d] = "answered"]
    /\ UNCHANGED <<objects, deleted, dbVars, queue, workerVars, events,
                   redelivered, faults>>

\* The background task enqueue_ingest, which runs after the response.
EnqueueIngest(d) ==
    /\ upload[d] = "answered"
    /\ queue' = [queue EXCEPT ![d] = @ + 1]
    /\ upload' = [upload EXCEPT ![d] = "enqueued"]
    /\ UNCHANGED <<objects, told, deleted, dbVars, workerVars, events,
                   redelivered, faults>>

\* The exit of get_principal, which the framework leaves to the end of the
\* request: session.begin() commits the new row.
CommitUpload(d) ==
    /\ upload[d] = "enqueued"
    /\ row' = [row EXCEPT ![d] =
                 [status |-> "pending", key |-> TRUE, error |-> FALSE]]
    /\ upload' = [upload EXCEPT ![d] = "end"]
    /\ UNCHANGED <<objects, told, deleted, chunks, billed, queue, workerVars,
                   events, redelivered, faults>>

\* The request dies: the bucket, the broker or the database raises, or the
\* process is killed.  Its transaction rolls back.
AbandonUpload(d) ==
    /\ faults < MaxFaults
    /\ upload[d] \notin {"new", "end", "dead"}
    /\ upload' = [upload EXCEPT ![d] = "dead"]
    /\ faults' = faults + 1
    /\ UNCHANGED <<objects, told, deleted, dbVars, queue, workerVars, events,
                   redelivered>>

\* POST /documents: a row without a PDF, which nothing enqueues.
CreateDocument(d) ==
    /\ upload[d] = "new"
    /\ row' = [row EXCEPT ![d] =
                 [status |-> "pending", key |-> FALSE, error |-> FALSE]]
    /\ upload' = [upload EXCEPT ![d] = "end"]
    /\ UNCHANGED <<objects, told, deleted, chunks, billed, queue, workerVars,
                   events, redelivered, faults>>

\* A worker that has inserted chunks of d holds a key-share lock on its row.
HoldsRow(w, d) ==
    stage[w] = "committing" /\ job[w] = d /\ ChunkCount[d] > 0

\* DELETE /documents/{id}: the row goes and the foreign key takes its chunks;
\* the object stays in the bucket.
DeleteDocument(d) ==
    /\ row[d] # NoRow
    /\ \A w \in Workers : ~HoldsRow(w, d)
    /\ row' = [row EXCEPT ![d] = NoRow]
    /\ chunks' = [chunks EXCEPT ![d] = {}]
    /\ deleted' = deleted \cup {d}
    /\ UNCHANGED <<objects, upload, told, billed, queue, workerVars, events,
                   redelivered, faults>>

-----------------------------------------------------------------------------
(* The broker                                                              *)

\* Redis hands an unacknowledged task out again after its visibility timeout.
Redeliver(d) ==
    /\ redelivered < MaxRedeliveries
    /\ queue[d] > 0
    /\ queue' = [queue EXCEPT ![d] = @ + 1]
    /\ redelivered' = redelivered + 1
    /\ UNCHANGED <<apiVars, dbVars, workerVars, events, faults>>

\* A worker takes a task.  Tasks are acknowledged on receipt (acks_late off).
TakeTask(w, d) ==
    /\ stage[w] = "idle"
    /\ queue[d] > 0
    /\ queue' = [queue EXCEPT ![d] = @ - 1]
    /\ stage' = [stage EXCEPT ![w] = "opening"]
    /\ job' = [job EXCEPT ![w] = d]
    /\ UNCHANGED <<apiVars, dbVars, loaded, snap, run, nextRun, events,
                   redelivered, faults>>

-----------------------------------------------------------------------------
(* run_ingestion in a worker                                               *)

Goto(w, s) == stage' = [stage EXCEPT ![w] = s]

\* The task is over: the session and its locals are gone.
Release(w) ==
    /\ Goto(w, "idle")
    /\ job' = [job EXCEPT ![w] = AnyDoc]
    /\ loaded' = [loaded EXCEPT ![w] = NoRow]
    /\ snap' = [snap EXCEPT ![w] = {}]
    /\ run' = [run EXCEPT ![w] = 0]

\* The unit of work writes only the columns whose value differs from what the
\* session loaded, and needs the row to be there only if it writes.
Dirty(old, new) == old.status # new.status \/ old.error # new.error

Write(cur, old, new) ==
    [status |-> IF old.status # new.status THEN new.status ELSE cur.status,
     key |-> cur.key,
     error |-> IF old.error # new.error THEN new.error ELSE cur.error]

\* Mutant: an UPDATE that finds no row writes one.
NeverStale(w, new) == FALSE

\* The UPDATE finds no row: it was deleted after the session loaded it.
Stale(w, new) == Dirty(loaded[w], new) /\ row[job[w]] = NoRow

Flush(w, new) ==
    row' = IF Dirty(loaded[w], new)
             THEN [row EXCEPT ![job[w]] = Write(@, loaded[w], new)]
             ELSE row

AsProcessing(r) == [status |-> "processing", key |-> r.key, error |-> FALSE]

\* Mutant: a status the column's type does not have.
AsCompleted(r) == [status |-> "completed", key |-> r.key, error |-> FALSE]

AsReady(r) == [status |-> "ready", key |-> r.key, error |-> FALSE]

\* Mutant: a failed run puts the document back to be tried again.
AsPendingAgain(r) == [status |-> "pending", key |-> r.key, error |-> TRUE]

AsFailed(r) == [status |-> "failed", key |-> r.key, error |-> TRUE]

\* First transaction, the read: no row ends the run with 0 chunks, a row
\* without storage_key raises, any other row goes on to be marked.
OpenDocument(w) ==
    /\ stage[w] = "opening"
    /\ loaded' = [loaded EXCEPT ![w] = row[job[w]]]
    /\ Goto(w, IF row[job[w]] = NoRow THEN "notifyAbsent"
               ELSE IF row[job[w]].key THEN "marking"
               ELSE "notifyFailed")
    /\ UNCHANGED <<apiVars, dbVars, queue, job, snap, run, nextRun, events,
                   redelivered, faults>>

\* First transaction, the commit of status PROCESSING.
MarkProcessing(w) ==
    /\ stage[w] = "marking"
    /\ LET new == AsProcessing(loaded[w]) IN
         IF Stale(w, new)
           THEN Goto(w, "notifyFailed") /\ UNCHANGED row
           ELSE Goto(w, "working") /\ Flush(w, new)
    /\ UNCHANGED <<apiVars, chunks, billed, queue, job, loaded, snap, run,
                   nextRun, events, redelivered, faults>>

\* Download, extraction, chunking and embedding, between transactions: they
\* succeed, or one of them raises.
Process(w) ==
    /\ stage[w] = "working"
    /\ Goto(w, "clearing") \/ Goto(w, "failing")
    /\ UNCHANGED <<apiVars, dbVars, queue, job, loaded, snap, run, nextRun,
                   events, redelivered, faults>>

\* Mutant: the DELETE is committed by itself.
ClearChunksAlone(w) ==
    /\ stage[w] = "clearing"
    /\ chunks' = [chunks EXCEPT ![job[w]] = {}]
    /\ Goto(w, "inserting")
    /\ UNCHANGED <<apiVars, row, billed, queue, job, loaded, snap, run, nextRun,
                   events, redelivered, faults>>

\* Second transaction, DELETE FROM document_chunks: it removes the rows that
\* are committed when it runs, and shows at the commit.
ClearChunks(w) ==
    /\ stage[w] = "clearing"
    /\ snap' = [snap EXCEPT ![w] = chunks[job[w]]]
    /\ Goto(w, "inserting")
    /\ UNCHANGED <<apiVars, dbVars, queue, job, loaded, run, nextRun, events,
                   redelivered, faults>>

\* Mutant: no unique index on document_id, chunk_index.
IndexNeverTaken(w) == FALSE

\* Rows the worker's DELETE did not see hold the chunk_index values it needs.
IndexTaken(w) == chunks[job[w]] \ snap[w] # {}

\* Second transaction, the INSERTs and the read of the row.  An insert waits
\* for another worker's uncommitted rows of the same document; it fails on
\* the unique index or on the foreign key.
InsertChunks(w) ==
    LET d == job[w] IN
    /\ stage[w] = "inserting"
    /\ \/ /\ ChunkCount[d] = 0
          /\ loaded' = [loaded EXCEPT ![w] = row[d]]
          /\ Goto(w, "committing")
          /\ UNCHANGED <<run, nextRun>>
       \/ /\ ChunkCount[d] > 0
          /\ \A v \in Workers : ~HoldsRow(v, d)
          /\ IF IndexTaken(w) \/ row[d] = NoRow
               THEN Goto(w, "failing") /\ UNCHANGED <<loaded, run, nextRun>>
               ELSE /\ loaded' = [loaded EXCEPT ![w] = row[d]]
                    /\ run' = [run EXCEPT ![w] = nextRun]
                    /\ nextRun' = nextRun + 1
                    /\ Goto(w, "committing")
    /\ UNCHANGED <<apiVars, dbVars, queue, job, snap, events, redelivered,
                   faults>>

\* Mutant: a document that is ready again is not billed again.
UsageOfFirst(w) == IF loaded[w].status # "ready" THEN {run[w]} ELSE {}

\* The run a commit records embedding usage for, if it embedded anything.
UsageOf(w) == IF ChunkCount[job[w]] > 0 THEN {run[w]} ELSE {}

\* Second transaction, the commit: chunks, usage event and status READY
\* together.
CommitChunks(w) ==
    LET d == job[w]
        new == AsReady(loaded[w])
    IN
    /\ stage[w] = "committing"
    /\ \/ /\ loaded[w] # NoRow
          /\ Stale(w, new)
          /\ Goto(w, "failing")
          /\ UNCHANGED dbVars
       \/ /\ loaded[w] = NoRow \/ ~Stale(w, new)
          /\ chunks' = [chunks EXCEPT ![d] = (@ \ snap[w]) \cup Batch(d, run[w])]
          /\ billed' = billed \cup UsageOf(w)
          /\ IF loaded[w] = NoRow THEN UNCHANGED row ELSE Flush(w, new)
          /\ Goto(w, "notifyReady")
    /\ UNCHANGED <<apiVars, queue, job, loaded, snap, run, nextRun, events,
                   redelivered, faults>>

\* Mutant: a failed run leaves the status alone.
OpenFailedSilently(w) ==
    /\ stage[w] = "failing"
    /\ loaded' = [loaded EXCEPT ![w] = row[job[w]]]
    /\ Goto(w, "notifyFailed")
    /\ UNCHANGED <<apiVars, dbVars, queue, job, snap, run, nextRun, events,
                   redelivered, faults>>

\* _set_status(FAILED), the read.
OpenFailed(w) ==
    /\ stage[w] = "failing"
    /\ loaded' = [loaded EXCEPT ![w] = row[job[w]]]
    /\ Goto(w, IF row[job[w]] = NoRow THEN "notifyFailed" ELSE "failCommit")
    /\ UNCHANGED <<apiVars, dbVars, queue, job, snap, run, nextRun, events,
                   redelivered, faults>>

\* _set_status(FAILED), the commit; a stale row raises, and the task fails
\* all the same.
CommitFailed(w) ==
    /\ stage[w] = "failCommit"
    /\ LET new == AsFailed(loaded[w]) IN
         IF Stale(w, new) THEN UNCHANGED row ELSE Flush(w, new)
    /\ Goto(w, "notifyFailed")
    /\ UNCHANGED <<apiVars, chunks, billed, queue, job, loaded, snap, run,
                   nextRun, events, redelivered, faults>>

\* The database raises in one of the worker's transactions, which rolls back.
DatabaseFails(w) ==
    /\ faults < MaxFaults
    /\ \/ /\ stage[w] \in {"opening", "marking", "failing", "failCommit"}
          /\ Goto(w, "notifyFailed")
       \/ /\ stage[w] \in {"clearing", "inserting", "committing"}
          /\ Goto(w, "failing")
    /\ faults' = faults + 1
    /\ UNCHANGED <<apiVars, dbVars, queue, job, loaded, snap, run, nextRun,
                   events, redelivered>>

\* What _run dispatches at each end of run_ingestion.
Outcome(w) ==
    [doc |-> job[w],
     kind |-> IF stage[w] = "notifyFailed" THEN "failed" ELSE "ready",
     count |-> IF stage[w] = "notifyReady" THEN ChunkCount[job[w]] ELSE 0]

\* _run dispatches the webhook and the task ends.
Notify(w) ==
    /\ stage[w] \in {"notifyAbsent", "notifyReady", "notifyFailed"}
    /\ events' = events \cup {Outcome(w)}
    /\ Release(w)
    /\ UNCHANGED <<apiVars, dbVars, queue, nextRun, redelivered, faults>>

\* The worker process is killed: its task was acknowledged and is gone.
Crash(w) ==
    /\ faults < MaxFaults
    /\ stage[w] # "idle"
    /\ Release(w)
    /\ faults' = faults + 1
    /\ UNCHANGED <<apiVars, dbVars, queue, nextRun, events, redelivered>>

-----------------------------------------------------------------------------
Request(d) ==
    \/ PutObject(d)
    \/ Respond(d)
    \/ EnqueueIngest(d)
    \/ CommitUpload(d)

Client(d) ==
    \/ ReceiveUpload(d)
    \/ CreateDocument(d)
    \/ DeleteDocument(d)

Step(w) ==
    \/ OpenDocument(w)
    \/ MarkProcessing(w)
    \/ Process(w)
    \/ ClearChunks(w)
    \/ InsertChunks(w)
    \/ CommitChunks(w)
    \/ OpenFailed(w)
    \/ CommitFailed(w)
    \/ Notify(w)

Fault ==
    \/ \E d \in Docs : AbandonUpload(d)
    \/ \E w \in Workers : DatabaseFails(w) \/ Crash(w)

Next ==
    \/ \E d \in Docs : Request(d) \/ Client(d) \/ Redeliver(d)
    \/ \E w \in Workers : Step(w) \/ \E d \in Docs : TakeTask(w, d)
    \/ Fault

Spec == Init /\ [][Next]_vars

\* A request that was received runs to its end, a worker finishes its task,
\* and a waiting task is eventually taken by some worker.
Fairness ==
    /\ \A d \in Docs : WF_vars(Request(d))
    /\ \A w \in Workers : WF_vars(Step(w))
    /\ \A d \in Docs : WF_vars(\E w \in Workers : TakeTask(w, d))

FairSpec == Spec /\ Fairness
-----------------------------------------------------------------------------
(* Properties                                                              *)

TypeOK ==
    /\ row \in [Docs -> Row \cup {NoRow}]
    /\ chunks \in [Docs -> SUBSET Chunk]
    /\ objects \subseteq Docs
    /\ upload \in [Docs -> UploadStage]
    /\ told \subseteq Docs
    /\ deleted \subseteq Docs
    /\ queue \in [Docs -> Nat]
    /\ stage \in [Workers -> Stage]
    /\ job \in [Workers -> Docs]
    /\ loaded \in [Workers -> Row \cup {NoRow}]
    /\ snap \in [Workers -> SUBSET Chunk]
    /\ run \in [Workers -> Nat]
    /\ nextRun \in Nat
    /\ billed \subseteq Nat
    /\ events \subseteq Event
    /\ redelivered \in Nat
    /\ faults \in Nat

\* The committed chunks of a document are those of one run, all of them or
\* none: two deliveries of the same task, whose transactions overlap, never
\* leave a mixture or a partial set (the DELETE and the INSERTs of
\* run_ingestion, and the unique index on document_id, chunk_index).
ChunksWhole ==
    \A d \in Docs :
        chunks[d] # {} => \E c \in chunks[d] : chunks[d] = Batch(d, c.run)

\* A document its owner sees as ready has every chunk of its text in the
\* search index, whatever another delivery, a failure or a crash is doing.
ReadyIsSearchable ==
    \A d \in Docs : row[d].status = "ready" =>
        {c.index : c \in chunks[d]} = 0 .. (ChunkCount[d] - 1)

\* No chunk outlives its document: one deleted while a worker is writing its
\* chunks cannot come back into search results.
ChunkRowsHaveDocument ==
    \A d \in Docs : row[d] = NoRow => chunks[d] = {}

\* What makes overlapping deliveries safe: one worker at a time is about to
\* commit chunks of a document, the document is there, and the worker's DELETE
\* saw every chunk that is.
CommittersExclude ==
    /\ \A w \in Workers, d \in Docs :
           HoldsRow(w, d) => row[d] # NoRow /\ chunks[d] \subseteq snap[w]
    /\ \A v, w \in Workers, d \in Docs :
           HoldsRow(v, d) /\ HoldsRow(w, d) => v = w

\* Every chunk in the index was paid for: the run that wrote it has its
\* embedding usage event, also when other deliveries of the task failed.
ChunksAreBilled ==
    \A d \in Docs : \A c \in chunks[d] : c.run \in billed

\* A row with a storage_key names an object that is in the bucket.
StoredKeyResolves ==
    \A d \in Docs : row[d].key => d \in objects

\* A document whose upload was answered 201 is in the database or was deleted
\* since.  The one way to lose it is that the request, which commits after it
\* answers (get_principal), has not got so far, or died before it did.
AckedIsDurable ==
    \A d \in told :
        \/ row[d] # NoRow
        \/ d \in deleted
        \/ upload[d] \in {"answered", "enqueued"}
        \/ upload[d] = "dead" /\ faults > 0

\* A task waiting at the broker finds the row of its document, unless it was
\* deleted since: "Enqueue only after the request transaction commits
\* (background tasks run post-response), so the worker can see the row under
\* RLS" (documents.py).
EnqueuedAfterCommit ==
    \A d \in Docs : queue[d] > 0 => row[d] # NoRow \/ d \in deleted

\* error is set on failure: a document that is ready shows none, even when
\* deliveries of its task overlapped (run_ingestion sets both columns).
ReadyHasNoError ==
    \A d \in Docs : row[d].status = "ready" => ~row[d].error

\* While no task was delivered twice a document shows an error if and only if
\* its last run failed, whatever fails or crashes: run_ingestion and
\* _set_status leave the two columns in step, although each of them writes a
\* column only where it differs from the row they have loaded.
ErrorMeansFailed ==
    redelivered = 0 =>
        \A d \in Docs : row[d].error <=> row[d].status = "failed"

\* While no task was delivered twice a status moves along pending, processing,
\* ready or failed and never back, whatever fails or crashes.
Rank(s) == CASE s = "pending" -> 0
             [] s = "processing" -> 1
             [] OTHER -> 2

StatusAdvances ==
    [][\A d \in Docs :
           row[d] # NoRow /\ row'[d] # NoRow /\ row'[d] # row[d] /\ redelivered' = 0
             => Rank(row'[d].status) > Rank(row[d].status)]_vars

Settled(d) == row[d] = NoRow \/ row[d].status \in {"ready", "failed"}

\* A task of d ended as one that found no row, or no text.
FoundNothing(d) == [doc |-> d, kind |-> "ready", count |-> 0] \in events

\* Every upload that was answered comes to rest: the row ends ready or failed
\* for good, or the document is deleted, also when its task is delivered more
\* than once.  Two things excuse it: a fault, and a worker that took the task
\* before the row was committed, which ends as if the document had no text.
UploadSettles ==
    \A d \in Docs : d \in told ~> ([]Settled(d) \/ faults > 0 \/ FoundNothing(d))

\* A document's status and its place in the index change as DocumentLifecycle
\* allows, with every transaction, redelivery and crash below it: the chunks
\* come and go all at once, and a status is never shown for them early.
Lifecycle ==
    INSTANCE DocumentLifecycle WITH
        HasText <- {d \in Docs : ChunkCount[d] > 0},
        status <- [d \in Docs |-> row[d].status],
        indexed <- {d \in Docs : chunks[d] # {}}

ImplementsLifecycle == Lifecycle!Spec
=============================================================================
