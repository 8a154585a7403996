-------------------------- MODULE IngestionProofs --------------------------
(***************************************************************************)
(* Theorems about Ingestion for every number of documents, workers, chunks,*)
(* redeliveries and faults.                                                *)
(***************************************************************************)
EXTENDS Ingestion, TLAPS

USE IngestionAssumption

\* The rows the worker's unit of work computes are rows.
LEMMA RowsOfTheRun ==
    ASSUME NEW r \in Row \cup {NoRow}
    PROVE  /\ AsProcessing(r) \in Row
           /\ AsReady(r) \in Row
           /\ AsFailed(r) \in Row
<1>1. CASE r \in Row
  <2>1. AsProcessing(r) \in Row
    BY <1>1 DEF AsProcessing, Row, Status
  <2>2. AsReady(r) \in Row
    BY <1>1 DEF AsReady, Row, Status
  <2>3. AsFailed(r) \in Row
    BY <1>1 DEF AsFailed, Row, Status
  <2> QED
    BY <2>1, <2>2, <2>3
<1>2. CASE r = NoRow
  <2>1. AsProcessing(r) \in Row
    BY <1>2 DEF AsProcessing, NoRow, Row, Status
  <2>2. AsReady(r) \in Row
    BY <1>2 DEF AsReady, NoRow, Row, Status
  <2>3. AsFailed(r) \in Row
    BY <1>2 DEF AsFailed, NoRow, Row, Status
  <2> QED
    BY <2>1, <2>2, <2>3
<1> QED
  BY <1>1, <1>2

\* Writing the changed columns of a row into a row leaves a row.
LEMMA WriteIsRow ==
    ASSUME NEW cur \in Row, NEW old \in Row \cup {NoRow}, NEW new \in Row
    PROVE  Write(cur, old, new) \in Row
  BY DEF Write, Row, NoRow, Status

\* What a worker's transaction may do to the documents table: it can give
\* its own document status s, and no document appears, goes or loses its key.
RowStep(w, s) ==
    /\ row' \in [Docs -> Row \cup {NoRow}]
    /\ \A d \in Docs : row'[d] = NoRow <=> row[d] = NoRow
    /\ \A d \in Docs : row'[d].key = row[d].key
    /\ \A d \in Docs : d # job[w] => row'[d] = row[d]
    /\ row'[job[w]].status \in {row[job[w]].status, s}

LEMMA NoRowIsNoRow == NoRow \notin Row
  BY DEF NoRow, Row, Status

\* A flush that is not stale is such a step, and so is none at all.
LEMMA FlushRowStep ==
    ASSUME TypeOK, NEW w \in Workers, NEW new \in Row,
           row' = row \/ (Flush(w, new) /\ ~Stale(w, new))
    PROVE  RowStep(w, new.status)
<1>1. job[w] \in Docs /\ loaded[w] \in Row \cup {NoRow}
  BY DEF TypeOK
<1>2. CASE row' = row
  BY <1>2 DEF RowStep, TypeOK
<1>3. CASE Flush(w, new) /\ ~Stale(w, new) /\ ~Dirty(loaded[w], new)
  BY <1>3 DEF Flush, RowStep, TypeOK
<1>4. CASE Flush(w, new) /\ ~Stale(w, new) /\ Dirty(loaded[w], new)
  <2> DEFINE out == Write(row[job[w]], loaded[w], new)
  <2>1. row[job[w]] \in Row
    BY <1>1, <1>4 DEF Stale, TypeOK
  <2>2. out \in Row
    BY <2>1, <1>1, WriteIsRow
  <2>3. out.key = row[job[w]].key /\ out.status \in {row[job[w]].status, new.status}
    BY DEF Write
  <2>4. row' = [row EXCEPT ![job[w]] = out]
    BY <1>4 DEF Flush
  <2> HIDE DEF out
  <2> QED
    BY <1>1, <2>1, <2>2, <2>3, <2>4, NoRowIsNoRow DEF TypeOK, RowStep
<1> QED
  BY <1>2, <1>3, <1>4

\* The three transactions of run_ingestion that write the row.
LEMMA WorkerRowSteps ==
    ASSUME TypeOK, NEW w \in Workers
    PROVE  /\ MarkProcessing(w) => RowStep(w, "processing")
           /\ CommitChunks(w) => RowStep(w, "ready")
           /\ CommitFailed(w) => RowStep(w, "failed")
<1> DEFINE old == loaded[w]
<1>1. /\ AsProcessing(old) \in Row /\ AsProcessing(old).status = "processing"
      /\ AsReady(old) \in Row /\ AsReady(old).status = "ready"
      /\ AsFailed(old) \in Row /\ AsFailed(old).status = "failed"
  BY RowsOfTheRun DEF TypeOK, AsProcessing, AsReady, AsFailed
<1>2. MarkProcessing(w) => RowStep(w, "processing")
  BY <1>1, FlushRowStep, Zenon DEF MarkProcessing
<1>3. CommitChunks(w) => RowStep(w, "ready")
  BY <1>1, FlushRowStep, Zenon DEF CommitChunks, dbVars
<1>4. CommitFailed(w) => RowStep(w, "failed")
  BY <1>1, FlushRowStep, Zenon DEF CommitFailed
<1> QED
  BY <1>2, <1>3, <1>4

-----------------------------------------------------------------------------
(* Type correctness                                                        *)

\* The stages and records the actions write have the types TypeOK gives them.
LEMMA AnyDocType == AnyDoc \in Docs
  BY DEF AnyDoc

LEMMA BatchType ==
    ASSUME NEW d \in Docs, NEW r \in Nat
    PROVE  Batch(d, r) \subseteq Chunk
  BY DEF Batch, Chunk

LEMMA ApiKeepsTypes ==
    ASSUME TypeOK, NEW d \in Docs, Request(d) \/ Client(d) \/ Redeliver(d) \/ AbandonUpload(d)
    PROVE  TypeOK'
<1> USE DEF TypeOK, UploadStage, apiVars, dbVars, workerVars
<1>1. CASE PutObject(d)
  BY <1>1 DEF PutObject
<1>2. CASE CommitUpload(d)
  BY <1>2 DEF CommitUpload, Row, Status
<1>3. CASE Respond(d)
  BY <1>3 DEF Respond
<1>4. CASE EnqueueIngest(d)
  BY <1>4 DEF EnqueueIngest
<1>5. CASE ReceiveUpload(d)
  BY <1>5 DEF ReceiveUpload
<1>6. CASE CreateDocument(d)
  BY <1>6 DEF CreateDocument, Row, Status
<1>7. CASE DeleteDocument(d)
  BY <1>7 DEF DeleteDocument
<1>8. CASE Redeliver(d)
  BY <1>8 DEF Redeliver
<1>9. CASE AbandonUpload(d)
  BY <1>9 DEF AbandonUpload
<1> QED
  BY <1>1, <1>2, <1>3, <1>4, <1>5, <1>6, <1>7, <1>8, <1>9 DEF Request, Client

LEMMA WorkerKeepsTypes ==
    ASSUME TypeOK, NEW w \in Workers,
           Step(w) \/ DatabaseFails(w) \/ Crash(w) \/ \E d \in Docs : TakeTask(w, d)
    PROVE  TypeOK'
<1> USE DEF TypeOK, Stage, apiVars, dbVars, workerVars, Goto, Release
<1>1. CASE OpenDocument(w)
  BY <1>1 DEF OpenDocument
<1>2. CASE MarkProcessing(w)
  BY <1>2, WorkerRowSteps DEF MarkProcessing, RowStep
<1>3. CASE Process(w)
  BY <1>3 DEF Process
<1>4. CASE ClearChunks(w)
  BY <1>4 DEF ClearChunks
<1>5. CASE InsertChunks(w)
  BY <1>5 DEF InsertChunks
<1>6. CASE CommitChunks(w)
  <2>1. row' \in [Docs -> Row \cup {NoRow}]
    BY <1>6, WorkerRowSteps DEF RowStep
  <2>2. Batch(job[w], run[w]) \subseteq Chunk
    BY BatchType
  <2>3. chunks' \in [Docs -> SUBSET Chunk]
    <3> DEFINE new == (chunks[job[w]] \ snap[w]) \cup Batch(job[w], run[w])
    <3>1. chunks' = chunks \/ chunks' = [chunks EXCEPT ![job[w]] = new]
      BY <1>6 DEF CommitChunks
    <3>2. new \subseteq Chunk
      BY <2>2
    <3> HIDE DEF new
    <3> QED
      BY <3>1, <3>2
  <2>4. billed' \subseteq Nat
    <3>1. billed' = billed \/ billed' = billed \cup {run[w]}
      BY <1>6, Zenon DEF CommitChunks, UsageOf, dbVars
    <3>2. run[w] \in Nat /\ billed \subseteq Nat
      OBVIOUS
    <3> QED
      BY <3>1, <3>2
  <2>5. stage' \in [Workers -> Stage]
    BY <1>6 DEF CommitChunks
  <2> QED
    BY <1>6, <2>1, <2>3, <2>4, <2>5 DEF CommitChunks
<1>7. CASE OpenFailed(w)
  BY <1>7 DEF OpenFailed
<1>8. CASE CommitFailed(w)
  BY <1>8, WorkerRowSteps DEF CommitFailed, RowStep
<1>9. CASE DatabaseFails(w)
  BY <1>9 DEF DatabaseFails
<1>10. CASE Notify(w)
  <2>1. Outcome(w) \in Event
    BY DEF Outcome, Event
  <2> QED
    BY <1>10, <2>1, AnyDocType DEF Notify
<1>11. CASE Crash(w)
  BY <1>11, AnyDocType DEF Crash
<1>12. CASE \E d \in Docs : TakeTask(w, d)
  BY <1>12 DEF TakeTask
<1> QED
  BY <1>1, <1>2, <1>3, <1>4, <1>5, <1>6, <1>7, <1>8, <1>9, <1>10, <1>11, <1>12 DEF Step

\* Every reachable state has its types: the whole of Ingestion's Next.
THEOREM TypeCorrect == Spec => []TypeOK
<1>1. Init => TypeOK
  BY AnyDocType DEF Init, TypeOK, UploadStage, Stage
<1>2. TypeOK /\ [Next]_vars => TypeOK'
  <2>1. ASSUME TypeOK, Next PROVE TypeOK'
    BY <2>1, ApiKeepsTypes, WorkerKeepsTypes DEF Next, Fault
  <2>2. ASSUME TypeOK, UNCHANGED vars PROVE TypeOK'
    BY <2>2 DEF TypeOK, vars
  <2> QED
    BY <2>1, <2>2
<1> QED
  BY <1>1, <1>2, PTL DEF Spec

-----------------------------------------------------------------------------
(* The index is whole                                                      *)

\* The inductive invariant.  ChunksWhole alone is not inductive: a commit
\* removes the chunks its DELETE saw and adds its own, so that the result is
\* one batch only if it saw them all and nobody else is about to commit.
IndexInv ==
    /\ TypeOK
    /\ ChunksWhole
    /\ ReadyIsSearchable
    /\ ChunkRowsHaveDocument
    /\ CommittersExclude

\* A batch is a set of chunks of one run, with every index, and none at all
\* for a document without text.
LEMMA BatchFacts ==
    ASSUME NEW d \in Docs, NEW r \in Nat
    PROVE  /\ {c.index : c \in Batch(d, r)} = 0 .. (ChunkCount[d] - 1)
           /\ \A c \in Batch(d, r) : c.run = r
           /\ ChunkCount[d] = 0 => Batch(d, r) = {}
<1> DEFINE I == 0 .. (ChunkCount[d] - 1)
<1>1. \A c \in Batch(d, r) : c.run = r /\ c.index \in I
  BY DEF Batch
<1>2. \A i \in I : [run |-> r, index |-> i] \in Batch(d, r)
  BY DEF Batch
<1>3. ASSUME ChunkCount[d] = 0 PROVE I = {}
  BY <1>3
<1> HIDE DEF I
<1>4. {c.index : c \in Batch(d, r)} = I
  <2>1. \A i \in I : [run |-> r, index |-> i].index = i
    OBVIOUS
  <2>2. \A i \in I : \E c \in Batch(d, r) : c.index = i
    BY <1>2, <2>1
  <2> QED
    BY <1>1, <2>2
<1> QED
  BY <1>1, <1>3, <1>4 DEF I

\* A step that commits neither chunks nor a usage event, loses no row, makes
\* none ready and takes no lock on one.
Quiet ==
    /\ chunks' = chunks
    /\ billed' = billed
    /\ \A d \in Docs : row[d] # NoRow => row'[d] # NoRow
    /\ \A d \in Docs : row'[d].status = "ready" => row[d].status = "ready"
    /\ \A w \in Workers, d \in Docs :
           HoldsRow(w, d)' => HoldsRow(w, d) /\ snap'[w] = snap[w]

LEMMA QuietKeepsIndex ==
    ASSUME IndexInv, TypeOK', Quiet
    PROVE  IndexInv'
<1>1. ChunksWhole' /\ ReadyIsSearchable'
  <2>1. ChunksWhole'
    BY DEF IndexInv, Quiet, ChunksWhole
  <2>2. ReadyIsSearchable'
    BY DEF IndexInv, Quiet, ReadyIsSearchable
  <2> QED
    BY <2>1, <2>2
<1>2. ChunkRowsHaveDocument'
  BY DEF IndexInv, Quiet, ChunkRowsHaveDocument
<1>3. CommittersExclude'
  BY DEF IndexInv, Quiet, CommittersExclude
<1> QED
  BY <1>1, <1>2, <1>3 DEF IndexInv

LEMMA ApiSteps ==
    ASSUME TypeOK, NEW d \in Docs,
           Request(d) \/ Client(d) \/ Redeliver(d) \/ AbandonUpload(d)
    PROVE  Quiet \/ DeleteDocument(d)
<1> USE DEF TypeOK, Quiet, HoldsRow, apiVars, dbVars, workerVars
<1>1. PutObject(d) => Quiet
  BY DEF PutObject
<1>2. CommitUpload(d) => Quiet
  BY DEF CommitUpload, NoRow
<1>3. Respond(d) => Quiet
  BY DEF Respond
<1>4. EnqueueIngest(d) => Quiet
  BY DEF EnqueueIngest
<1>5. ReceiveUpload(d) => Quiet
  BY DEF ReceiveUpload
<1>6. CreateDocument(d) => Quiet
  BY DEF CreateDocument, NoRow
<1>7. Redeliver(d) => Quiet
  BY DEF Redeliver
<1>8. AbandonUpload(d) => Quiet
  BY DEF AbandonUpload
<1> QED
  BY <1>1, <1>2, <1>3, <1>4, <1>5, <1>6, <1>7, <1>8 DEF Request, Client

LEMMA WorkerSteps ==
    ASSUME TypeOK, NEW w \in Workers,
           Step(w) \/ DatabaseFails(w) \/ Crash(w) \/ \E d \in Docs : TakeTask(w, d)
    PROVE  Quiet \/ InsertChunks(w) \/ CommitChunks(w)
<1> USE DEF TypeOK, Quiet, HoldsRow, Goto, Release, apiVars, dbVars, workerVars
<1>1. OpenDocument(w) => Quiet
  BY DEF OpenDocument
<1>2. MarkProcessing(w) => Quiet
  BY WorkerRowSteps DEF MarkProcessing, RowStep
<1>3. Process(w) => Quiet
  BY DEF Process
<1>4. ClearChunks(w) => Quiet
  BY DEF ClearChunks
<1>5. OpenFailed(w) => Quiet
  BY DEF OpenFailed
<1>6. CommitFailed(w) => Quiet
  BY WorkerRowSteps DEF CommitFailed, RowStep
<1>7. DatabaseFails(w) => Quiet
  BY DEF DatabaseFails
<1>8. Notify(w) => Quiet
  BY DEF Notify
<1>9. Crash(w) => Quiet
  BY DEF Crash
<1>10. ASSUME NEW d \in Docs, TakeTask(w, d) PROVE Quiet
  BY <1>10 DEF TakeTask
<1> QED
  BY <1>1, <1>2, <1>3, <1>4, <1>5, <1>6, <1>7, <1>8, <1>9, <1>10 DEF Step

LEMMA DeleteKeepsIndex ==
    ASSUME IndexInv, TypeOK', NEW d \in Docs, DeleteDocument(d)
    PROVE  IndexInv'
<1> USE DEF IndexInv, TypeOK, DeleteDocument
<1>1. ChunksWhole'
  BY DEF ChunksWhole
<1>2. ReadyIsSearchable'
  BY DEF ReadyIsSearchable, NoRow
<1>3. ChunkRowsHaveDocument'
  BY DEF ChunkRowsHaveDocument
<1>4. CommittersExclude'
  BY DEF CommittersExclude, HoldsRow, workerVars
<1> QED
  BY <1>1, <1>2, <1>3, <1>4

LEMMA InsertKeepsIndex ==
    ASSUME IndexInv, TypeOK', NEW w \in Workers, InsertChunks(w)
    PROVE  IndexInv'
<1> USE DEF IndexInv, TypeOK, InsertChunks, dbVars
<1>1. ChunksWhole' /\ ReadyIsSearchable' /\ ChunkRowsHaveDocument'
  BY DEF ChunksWhole, ReadyIsSearchable, ChunkRowsHaveDocument
<1>2. ASSUME NEW v \in Workers, NEW d \in Docs, HoldsRow(v, d)'
      PROVE  \/ HoldsRow(v, d)
             \/ /\ v = w
                /\ row[d] # NoRow
                /\ chunks[d] \subseteq snap[w]
                /\ \A u \in Workers : ~HoldsRow(u, d)
  BY <1>2 DEF HoldsRow, IndexTaken, Goto
<1>3. CommittersExclude'
  BY <1>2 DEF CommittersExclude, HoldsRow, Goto
<1> QED
  BY <1>1, <1>3

\* A commit installs the batch of its run and nothing else: what it removes is
\* all that was there.
LEMMA CommitInstallsBatch ==
    ASSUME IndexInv, NEW w \in Workers, CommitChunks(w)
    PROVE  /\ ChunkCount[job[w]] > 0 => HoldsRow(w, job[w]) /\ row[job[w]] # NoRow
           /\ ChunkCount[job[w]] = 0 => chunks[job[w]] = {}
           /\ \/ stage' = [stage EXCEPT ![w] = "failing"] /\ UNCHANGED dbVars
              \/ /\ stage' = [stage EXCEPT ![w] = "notifyReady"]
                 /\ chunks' = [chunks EXCEPT ![job[w]] = Batch(job[w], run[w])]
<1> DEFINE d == job[w]
           new == (chunks[d] \ snap[w]) \cup Batch(d, run[w])
<1>1. d \in Docs /\ run[w] \in Nat /\ ChunkCount[d] \in Nat
  BY DEF IndexInv, TypeOK
<1>2. \/ stage' = [stage EXCEPT ![w] = "failing"] /\ UNCHANGED dbVars
      \/ /\ stage' = [stage EXCEPT ![w] = "notifyReady"]
         /\ chunks' = [chunks EXCEPT ![d] = new]
  BY DEF CommitChunks, Goto
<1>3. ChunkCount[d] > 0 => HoldsRow(w, d)
  BY <1>1 DEF HoldsRow, CommitChunks
<1>4. ASSUME ChunkCount[d] = 0 PROVE chunks[d] = {}
  <2>1. ASSUME NEW c \in chunks[d], chunks[d] = Batch(d, c.run)
        PROVE  FALSE
    <3>1. c.run \in Nat
      BY <1>1 DEF IndexInv, TypeOK, Chunk
    <3> QED
      BY <1>1, <1>4, <2>1, <3>1, BatchFacts
  <2> QED
    BY <1>1, <2>1 DEF IndexInv, ChunksWhole
<1>5. new = Batch(d, run[w])
  <2>1. CASE ChunkCount[d] > 0
    BY <1>1, <1>3, <2>1 DEF IndexInv, CommittersExclude
  <2>2. CASE ChunkCount[d] = 0
    BY <1>4, <2>2
  <2> QED
    BY <1>1, <2>1, <2>2
<1>6. ChunkCount[d] > 0 => row[d] # NoRow
  BY <1>1, <1>3 DEF IndexInv, CommittersExclude
<1> HIDE DEF new
<1> QED
  BY <1>2, <1>3, <1>4, <1>5, <1>6

LEMMA CommitKeepsIndex ==
    ASSUME IndexInv, TypeOK', NEW w \in Workers, CommitChunks(w)
    PROVE  IndexInv'
<1> DEFINE d == job[w]
<1>1. d \in Docs /\ run[w] \in Nat /\ ChunkCount[d] \in Nat
  BY DEF IndexInv, TypeOK
<1>2. RowStep(w, "ready")
  BY WorkerRowSteps DEF IndexInv
<1>3. stage[w] = "committing" /\ UNCHANGED <<job, snap>>
  BY DEF CommitChunks
<1>4. CASE stage' = [stage EXCEPT ![w] = "failing"] /\ UNCHANGED dbVars
  <2>1. Quiet
    BY <1>3, <1>4 DEF Quiet, HoldsRow, dbVars, IndexInv, TypeOK
  <2> QED
    BY <2>1, QuietKeepsIndex
<1>5. CASE /\ stage' = [stage EXCEPT ![w] = "notifyReady"]
           /\ chunks' = [chunks EXCEPT ![d] = Batch(d, run[w])]
  <2> HIDE DEF d
  <2>a. /\ chunks \in [Docs -> SUBSET Chunk]
        /\ ChunksWhole
        /\ ReadyIsSearchable
    BY DEF IndexInv, TypeOK
  <2>b. chunks'[d] = Batch(d, run[w])
    BY <1>1, <1>5, <2>a
  <2>c. \A e \in Docs \ {d} : chunks'[e] = chunks[e]
    BY <1>5, <2>a
  <2>1. ChunksWhole'
    <3>1. ASSUME NEW e \in Docs, e # d, chunks'[e] # {}
          PROVE  \E c \in chunks'[e] : chunks'[e] = Batch(e, c.run)
      BY <2>a, <2>c, <3>1 DEF ChunksWhole
    <3>2. ASSUME chunks'[d] # {}
          PROVE  \E c \in chunks'[d] : chunks'[d] = Batch(d, c.run)
      BY <1>1, <2>b, <3>2, BatchFacts
    <3> QED
      BY <1>1, <3>1, <3>2 DEF ChunksWhole
  <2>2. ReadyIsSearchable'
    <3> SUFFICES ASSUME NEW e \in Docs, row'[e].status = "ready"
                 PROVE  {c.index : c \in chunks'[e]} = 0 .. (ChunkCount[e] - 1)
      BY DEF ReadyIsSearchable
    <3>1. CASE e = d
      BY <1>1, <2>b, <3>1, BatchFacts
    <3>2. CASE e # d
      <4>1. row'[e] = row[e]
        BY <1>2, <3>2 DEF RowStep, IndexInv, TypeOK, d
      <4> QED
        BY <2>a, <2>c, <3>2, <4>1 DEF ReadyIsSearchable
    <3> QED
      BY <3>1, <3>2
  <2>3. ChunkRowsHaveDocument'
    <3>1. row[d] = NoRow => ChunkCount[d] = 0
      BY <1>1, CommitInstallsBatch DEF d
    <3> QED
      BY <1>1, <1>2, <1>5, <3>1, BatchFacts
      DEF IndexInv, TypeOK, ChunkRowsHaveDocument, RowStep
  <2>4. CommittersExclude'
    <3>1. ASSUME NEW v \in Workers, NEW e \in Docs, HoldsRow(v, e)'
          PROVE  HoldsRow(v, e) /\ v # w /\ e # d
      BY <1>3, <1>5, <3>1, CommitInstallsBatch
      DEF IndexInv, TypeOK, HoldsRow, CommittersExclude, d
    <3>2. \A e \in Docs : e # d => chunks'[e] = chunks[e] /\ row'[e] = row[e]
      BY <1>2, <1>5 DEF IndexInv, TypeOK, RowStep, d
    <3> QED
      BY <1>3, <3>1, <3>2 DEF IndexInv, CommittersExclude
  <2> QED
    BY <2>1, <2>2, <2>3, <2>4 DEF IndexInv
<1> QED
  BY <1>4, <1>5, CommitInstallsBatch

LEMMA IndexInductive == Spec => []IndexInv
<1>1. Init => IndexInv
  <2> SUFFICES ASSUME Init PROVE IndexInv
    OBVIOUS
  <2>1. TypeOK
    BY AnyDocType DEF Init, TypeOK, UploadStage, Stage
  <2>2. ChunksWhole /\ ReadyIsSearchable /\ ChunkRowsHaveDocument
    BY DEF Init, ChunksWhole, ReadyIsSearchable, ChunkRowsHaveDocument, NoRow
  <2>3. CommittersExclude
    BY DEF Init, CommittersExclude, HoldsRow
  <2> QED
    BY <2>1, <2>2, <2>3 DEF IndexInv
<1>2. IndexInv /\ TypeOK' /\ [Next]_vars => IndexInv'
  <2> SUFFICES ASSUME IndexInv, TypeOK', [Next]_vars PROVE IndexInv'
    OBVIOUS
  <2>1. CASE UNCHANGED vars
    BY <2>1, QuietKeepsIndex DEF vars, Quiet, HoldsRow
  <2>2. ASSUME NEW d \in Docs,
               Request(d) \/ Client(d) \/ Redeliver(d) \/ AbandonUpload(d)
        PROVE  IndexInv'
    BY <2>2, ApiSteps, QuietKeepsIndex, DeleteKeepsIndex DEF IndexInv
  <2>3. ASSUME NEW w \in Workers,
               Step(w) \/ DatabaseFails(w) \/ Crash(w)
                 \/ \E d \in Docs : TakeTask(w, d)
        PROVE  IndexInv'
    BY <2>3, WorkerSteps, QuietKeepsIndex, InsertKeepsIndex, CommitKeepsIndex
    DEF IndexInv
  <2> QED
    BY <2>1, <2>2, <2>3 DEF Next, Fault
<1> QED
  BY <1>1, <1>2, TypeCorrect, PTL DEF Spec

\* The chunks of a document are always one run's, all or none.
THEOREM IndexIsWhole == Spec => []ChunksWhole
  BY IndexInductive, PTL DEF IndexInv

\* A document shown as ready is in the index with every chunk of its text.
THEOREM ReadyMeansSearchable == Spec => []ReadyIsSearchable
  BY IndexInductive, PTL DEF IndexInv

\* Search never returns a chunk of a document that is gone.
THEOREM NoChunkWithoutDocument == Spec => []ChunkRowsHaveDocument
  BY IndexInductive, PTL DEF IndexInv

\* At most one worker at a time is about to commit chunks of a document, and
\* it saw all that is there.
THEOREM CommittersAreExclusive == Spec => []CommittersExclude
  BY IndexInductive, PTL DEF IndexInv

-----------------------------------------------------------------------------
(* Usage                                                                   *)

LEMMA BilledStep ==
    ASSUME IndexInv, ChunksAreBilled, [Next]_vars
    PROVE  ChunksAreBilled'
<1>1. CASE Quiet
  BY <1>1 DEF Quiet, ChunksAreBilled
<1>2. ASSUME NEW d \in Docs, DeleteDocument(d) PROVE ChunksAreBilled'
  BY <1>2 DEF DeleteDocument, ChunksAreBilled, IndexInv, TypeOK
<1>3. ASSUME NEW w \in Workers, InsertChunks(w) PROVE ChunksAreBilled'
  BY <1>3 DEF InsertChunks, ChunksAreBilled, dbVars
<1>4. ASSUME NEW w \in Workers, CommitChunks(w) PROVE ChunksAreBilled'
  <2> DEFINE d == job[w]
             B == Batch(d, run[w])
  <2>1. d \in Docs /\ run[w] \in Nat /\ ChunkCount[d] \in Nat
    BY DEF IndexInv, TypeOK
  <2>2. \/ UNCHANGED dbVars
        \/ /\ chunks' = [chunks EXCEPT ![d] = (chunks[d] \ snap[w]) \cup B]
           /\ billed' = billed \cup IF ChunkCount[d] > 0 THEN {run[w]} ELSE {}
    BY <1>4 DEF CommitChunks, UsageOf
  <2>3. \A c \in B : c.run = run[w] /\ ChunkCount[d] # 0
    BY <2>1, BatchFacts
  <2> HIDE DEF B, d
  <2> QED
    BY <2>1, <2>2, <2>3 DEF IndexInv, TypeOK, ChunksAreBilled, dbVars
<1>5. CASE UNCHANGED vars
  BY <1>5 DEF vars, ChunksAreBilled
<1>6. ASSUME NEW d \in Docs,
             Request(d) \/ Client(d) \/ Redeliver(d) \/ AbandonUpload(d)
      PROVE  ChunksAreBilled'
  BY <1>1, <1>2, <1>6, ApiSteps DEF IndexInv
<1>7. ASSUME NEW w \in Workers,
             Step(w) \/ DatabaseFails(w) \/ Crash(w)
               \/ \E d \in Docs : TakeTask(w, d)
      PROVE  ChunksAreBilled'
  BY <1>1, <1>3, <1>4, <1>7, WorkerSteps DEF IndexInv
<1> QED
  BY <1>5, <1>6, <1>7 DEF Next, Fault

\* No chunk is in the index whose embedding was not recorded as usage.
THEOREM EveryChunkIsBilled == Spec => []ChunksAreBilled
<1>1. Init => ChunksAreBilled
  BY DEF Init, ChunksAreBilled
<1> QED
  BY <1>1, BilledStep, IndexInductive, PTL DEF Spec

-----------------------------------------------------------------------------
(* The upload request                                                      *)

\* The request of d has not committed its transaction.
Uncommitted(d) ==
    upload[d] \in {"new", "open", "put", "answered", "enqueued"}

\* What is true of a document while its request is on its way.
UploadInv ==
    /\ \A d \in Docs : Uncommitted(d) => row[d] = NoRow
    /\ \A d \in Docs :
           upload[d] \in {"put", "answered", "enqueued"} => d \in objects
    /\ StoredKeyResolves
    /\ \A d \in told : upload[d] \in {"answered", "enqueued", "end", "dead"}
    /\ \A d \in Docs : upload[d] = "end" => row[d] # NoRow \/ d \in deleted
    /\ \A d \in Docs : upload[d] = "dead" => faults > 0

\* What a worker's step does to the tables.
LEMMA WorkerTables ==
    ASSUME TypeOK, NEW w \in Workers,
           Step(w) \/ DatabaseFails(w) \/ Crash(w) \/ \E d \in Docs : TakeTask(w, d)
    PROVE  \/ UNCHANGED <<row, chunks>>
           \/ chunks' = chunks /\ RowStep(w, "processing")
           \/ chunks' = chunks /\ RowStep(w, "failed")
           \/ CommitChunks(w) /\ RowStep(w, "ready")
<1> USE DEF dbVars
<1>1. MarkProcessing(w) => chunks' = chunks /\ RowStep(w, "processing")
  BY WorkerRowSteps DEF MarkProcessing
<1>2. CommitFailed(w) => chunks' = chunks /\ RowStep(w, "failed")
  BY WorkerRowSteps DEF CommitFailed
<1>3. CommitChunks(w) => RowStep(w, "ready")
  BY WorkerRowSteps
<1>4. \/ OpenDocument(w) \/ Process(w) \/ ClearChunks(w) \/ InsertChunks(w)
      \/ OpenFailed(w) \/ Notify(w) \/ DatabaseFails(w) \/ Crash(w)
      \/ \E d \in Docs : TakeTask(w, d)
      => UNCHANGED <<row, chunks>>
  BY DEF OpenDocument, Process, ClearChunks, InsertChunks, OpenFailed, Notify,
         DatabaseFails, Crash, TakeTask
<1> QED
  BY <1>1, <1>2, <1>3, <1>4 DEF Step

LEMMA WorkerLeavesUpload ==
    ASSUME NEW w \in Workers,
           Step(w) \/ DatabaseFails(w) \/ Crash(w) \/ \E d \in Docs : TakeTask(w, d)
    PROVE  UNCHANGED apiVars
BY DEF Step, OpenDocument, MarkProcessing, Process, ClearChunks, InsertChunks,
       CommitChunks, OpenFailed, CommitFailed, Notify, DatabaseFails, Crash,
       TakeTask, apiVars

LEMMA UploadStep ==
    ASSUME TypeOK, UploadInv, [Next]_vars
    PROVE  UploadInv'
<1> USE DEF TypeOK, UploadInv, Uncommitted, StoredKeyResolves
<1>1. CASE UNCHANGED vars
  BY <1>1 DEF vars
<1>2. ASSUME NEW d \in Docs, PutObject(d) PROVE UploadInv'
  BY <1>2 DEF PutObject, dbVars
<1>3. ASSUME NEW d \in Docs, CommitUpload(d) PROVE UploadInv'
  BY <1>3 DEF CommitUpload, NoRow
<1>4. ASSUME NEW d \in Docs, Respond(d) PROVE UploadInv'
  BY <1>4 DEF Respond, dbVars
<1>5. ASSUME NEW d \in Docs, EnqueueIngest(d) PROVE UploadInv'
  BY <1>5 DEF EnqueueIngest, dbVars
<1>6. ASSUME NEW d \in Docs, ReceiveUpload(d) PROVE UploadInv'
  BY <1>6 DEF ReceiveUpload, dbVars
<1>7. ASSUME NEW d \in Docs, CreateDocument(d) PROVE UploadInv'
  BY <1>7 DEF CreateDocument, NoRow
<1>8. ASSUME NEW d \in Docs, DeleteDocument(d) PROVE UploadInv'
  BY <1>8 DEF DeleteDocument, NoRow
<1>9. ASSUME NEW d \in Docs, Redeliver(d) PROVE UploadInv'
  BY <1>9 DEF Redeliver, apiVars, dbVars
<1>10. ASSUME NEW d \in Docs, AbandonUpload(d) PROVE UploadInv'
  BY <1>10 DEF AbandonUpload, dbVars
<1>11. ASSUME NEW w \in Workers,
              Step(w) \/ DatabaseFails(w) \/ Crash(w)
                \/ \E d \in Docs : TakeTask(w, d)
       PROVE  UploadInv'
  <2>1. UNCHANGED apiVars
    BY <1>11, WorkerLeavesUpload
  <2>2. \A d \in Docs : /\ row'[d] = NoRow <=> row[d] = NoRow
                        /\ row'[d].key = row[d].key
    BY <1>11, WorkerTables DEF RowStep
  <2>3. faults' = faults \/ faults' = faults + 1
    BY <1>11 DEF Step, OpenDocument, MarkProcessing, Process, ClearChunks, InsertChunks,
                 CommitChunks, OpenFailed, CommitFailed, Notify, DatabaseFails, Crash,
                 TakeTask
  <2> QED
    BY <2>1, <2>2, <2>3 DEF apiVars
<1> QED
  BY <1>1, <1>2, <1>3, <1>4, <1>5, <1>6, <1>7, <1>8, <1>9, <1>10, <1>11
  DEF Next, Fault, Request, Client

LEMMA UploadInductive == Spec => []UploadInv
<1>1. Init => UploadInv
  BY DEF Init, UploadInv, Uncommitted, StoredKeyResolves, NoRow
<1> QED
  BY <1>1, UploadStep, TypeCorrect, PTL DEF Spec

\* A storage_key in the table always names an object that was stored.
THEOREM KeysResolve == Spec => []StoredKeyResolves
  BY UploadInductive, PTL DEF UploadInv

\* An answered upload is lost only with a request that died between its answer
\* and its commit: no delivery, worker or later failure takes the row away.
THEOREM AnsweredUploadsAreDurable == Spec => []AckedIsDurable
<1>1. TypeOK /\ UploadInv => AckedIsDurable
  BY DEF TypeOK, UploadInv, AckedIsDurable
<1> QED
  BY <1>1, TypeCorrect, UploadInductive, PTL

-----------------------------------------------------------------------------
(* Ingestion implements DocumentLifecycle                                  *)

\* The refinement mapping: what of the tables the abstract state shows.
Shown == [d \in Docs |-> row[d].status]
Index == {d \in Docs : chunks[d] # {}}

\* A step that shows nothing above.
Unseen == Shown' = Shown /\ Index' = Index

LEMMA StatusOfRow == \A r \in Row \cup {NoRow} : r.status = "none" <=> r = NoRow
  BY DEF Row, NoRow, Status

\* A worker's write of status s, seen from above, sets that status or nothing.
LEMMA RowStepShows ==
    ASSUME TypeOK, NEW w \in Workers, NEW s, RowStep(w, s)
    PROVE  \/ Shown' = Shown
           \/ /\ Shown[job[w]] # "none"
              /\ Shown' = [Shown EXCEPT ![job[w]] = s]
<1>1. job[w] \in Docs
  BY DEF TypeOK
<1>2. \A d \in Docs : d # job[w] => Shown'[d] = Shown[d]
  BY DEF RowStep, Shown
<1>3. Shown'[job[w]] \in {Shown[job[w]], s}
  BY <1>1 DEF RowStep, Shown
<1>4. Shown[job[w]] = "none" => Shown'[job[w]] = "none"
  BY <1>1, StatusOfRow DEF RowStep, Shown, TypeOK
<1> QED
  BY <1>1, <1>2, <1>3, <1>4 DEF Shown

LEMMA CommitPublishes ==
    ASSUME IndexInv, NEW w \in Workers, CommitChunks(w), RowStep(w, "ready"),
           NEW d \in Docs, d = job[w]
    PROVE  Unseen \/ Lifecycle!Publish(d)
<1>1. d \in Docs /\ run[w] \in Nat /\ ChunkCount[d] \in Nat
  BY DEF IndexInv, TypeOK
<1>2. CASE UNCHANGED dbVars
  BY <1>2 DEF dbVars, Shown, Index, Unseen
<1>3. CASE chunks' = [chunks EXCEPT ![d] = Batch(d, run[w])]
  <2>1. \A e \in Docs : e # d => chunks'[e] = chunks[e]
    BY <1>1, <1>3 DEF IndexInv, TypeOK
  <2>2. chunks'[d] = Batch(d, run[w])
    BY <1>1, <1>3 DEF IndexInv, TypeOK
  <2>3. CASE ChunkCount[d] = 0
    <3>1. Index' = Index
      BY <1>1, <2>1, <2>2, <2>3, BatchFacts, CommitInstallsBatch DEF Index
    <3> QED
      BY <1>1, <2>3, <3>1, RowStepShows
      DEF IndexInv, Lifecycle!Publish, Lifecycle!Become, Shown, Index, Unseen
  <2>4. CASE ChunkCount[d] > 0
    <3>1. Batch(d, run[w]) # {}
      <4>1. [run |-> run[w], index |-> 0] \in Batch(d, run[w])
        BY <1>1, <2>4 DEF Batch
      <4> QED
        BY <4>1
    <3>2. Index' = Index \cup {d}
      BY <1>1, <2>1, <2>2, <3>1 DEF Index
    <3>3. Shown[d] # "none"
      BY <1>1, <2>4, CommitInstallsBatch, StatusOfRow DEF IndexInv, TypeOK, Shown
    <3> QED
      BY <1>1, <2>4, <3>2, <3>3, RowStepShows
      DEF IndexInv, Lifecycle!Publish, Lifecycle!Become, Shown, Index, Unseen
  <2> QED
    BY <1>1, <2>3, <2>4
<1> QED
  BY <1>2, <1>3, CommitInstallsBatch

LEMMA AbstractSteps ==
    ASSUME NEW d \in Docs,
           Lifecycle!Begin(d) \/ Lifecycle!Publish(d) \/ Lifecycle!Fail(d)
    PROVE  Lifecycle!Next
  BY Zenon DEF Lifecycle!Next

LEMMA WorkerRefines ==
    ASSUME IndexInv, NEW w \in Workers,
           Step(w) \/ DatabaseFails(w) \/ Crash(w) \/ \E d \in Docs : TakeTask(w, d)
    PROVE  Lifecycle!Next \/ Unseen
<1> PICK d \in Docs : d = job[w]
  BY DEF IndexInv, TypeOK
<1>1. TypeOK
  BY DEF IndexInv
<1>2. CASE UNCHANGED <<row, chunks>>
  BY <1>2 DEF Shown, Index, Unseen
<1>3. CASE chunks' = chunks /\ RowStep(w, "processing")
  <2>1. Lifecycle!Begin(d) \/ Unseen
    BY <1>1, <1>3, RowStepShows DEF Lifecycle!Begin, Lifecycle!Become, Shown, Index, Unseen
  <2> QED
    BY <1>1, <2>1, AbstractSteps, Zenon
<1>4. CASE chunks' = chunks /\ RowStep(w, "failed")
  <2>1. Lifecycle!Fail(d) \/ Unseen
    BY <1>1, <1>4, RowStepShows DEF Lifecycle!Fail, Lifecycle!Become, Shown, Index, Unseen
  <2> QED
    BY <1>1, <2>1, AbstractSteps, Zenon
<1>5. CASE CommitChunks(w) /\ RowStep(w, "ready")
  BY <1>1, <1>5, CommitPublishes, AbstractSteps, Zenon
<1> QED
  BY <1>1, <1>2, <1>3, <1>4, <1>5, WorkerTables

LEMMA ApiRefines ==
    ASSUME IndexInv, UploadInv, NEW d \in Docs,
           Request(d) \/ Client(d) \/ Redeliver(d) \/ AbandonUpload(d)
    PROVE  Lifecycle!Next \/ Unseen
<1> USE DEF IndexInv, TypeOK
<1>1. CASE UNCHANGED <<row, chunks>>
  BY <1>1 DEF Shown, Index, Unseen
<1>2. CASE CommitUpload(d) \/ CreateDocument(d)
  <2>1. row[d] = NoRow
    BY <1>2 DEF CommitUpload, CreateDocument, UploadInv, Uncommitted
  <2>2. chunks' = chunks
    BY <1>2 DEF CommitUpload, CreateDocument
  <2>3. Shown[d] = "none" /\ Shown' = [Shown EXCEPT ![d] = "pending"]
    <3>1. row' = [row EXCEPT ![d] = [status |-> "pending", key |-> TRUE, error |-> FALSE]]
          \/ row' = [row EXCEPT ![d] = [status |-> "pending", key |-> FALSE, error |-> FALSE]]
      BY <1>2 DEF CommitUpload, CreateDocument
    <3>2. row'[d].status = "pending" /\ \A e \in Docs : e # d => row'[e] = row[e]
      BY <3>1
    <3>3. Shown[d] = "none" /\ Shown'[d] = "pending"
      BY <2>1, <3>2 DEF Shown, NoRow
    <3>4. \A e \in Docs : e # d => Shown'[e] = Shown[e]
      BY <3>2 DEF Shown
    <3> QED
      BY <3>3, <3>4 DEF Shown
  <2>4. Lifecycle!Create(d)
    BY <2>2, <2>3 DEF Lifecycle!Create, Lifecycle!Become, Shown, Index, Unseen
  <2> QED
    BY <2>4 DEF Lifecycle!Next
<1>3. CASE DeleteDocument(d)
  <2>1. Shown[d] # "none" /\ Shown' = [Shown EXCEPT ![d] = "none"]
    BY <1>3, StatusOfRow DEF DeleteDocument, Shown, NoRow
  <2>2. Index' = Index \ {d}
    BY <1>3 DEF DeleteDocument, Index
  <2>3. Lifecycle!Remove(d)
    BY <2>1, <2>2 DEF Lifecycle!Remove, Lifecycle!Become, Shown, Index, Unseen
  <2> QED
    BY <2>3 DEF Lifecycle!Next
<1>4. \/ PutObject(d) \/ Respond(d) \/ EnqueueIngest(d) \/ ReceiveUpload(d)
      \/ Redeliver(d) \/ AbandonUpload(d)
      => UNCHANGED <<row, chunks>>
  BY DEF PutObject, Respond, EnqueueIngest, ReceiveUpload, Redeliver,
         AbandonUpload, dbVars
<1> QED
  BY <1>1, <1>2, <1>3, <1>4 DEF Request, Client

\* The pipeline, with its transactions, redeliveries, crashes and races,
\* implements the document life cycle its users see.
THEOREM Implementation == Spec => ImplementsLifecycle
<1>1. Init => Lifecycle!Init
  BY DEF Init, Lifecycle!Init, NoRow
<1>2. IndexInv /\ UploadInv /\ [Next]_vars
        => Lifecycle!Next \/ Unseen
  <2>1. CASE UNCHANGED vars
    BY <2>1 DEF vars, Shown, Index, Unseen
  <2> QED
    BY <2>1, WorkerRefines, ApiRefines DEF Next, Fault
<1>3. IndexInv /\ UploadInv /\ [Next]_vars => [Lifecycle!Next]_(Lifecycle!vars)
  BY <1>2 DEF Lifecycle!vars, Shown, Index, Unseen
<1> QED
  BY <1>1, <1>3, IndexInductive, UploadInductive, PTL
  DEF Spec, ImplementsLifecycle, Lifecycle!Spec

-----------------------------------------------------------------------------
(* The status of a document whose task is delivered once                   *)

\* The request has enqueued the task, or never will.
Sent(d) == upload[d] \in {"enqueued", "end", "dead"}

Works(w, d) == stage[w] # "idle" /\ job[w] = d

\* The task of d was not taken yet.
Fresh(d) == queue[d] > 0 \/ ~Sent(d)

\* What a worker's stage says of the row and of what its session loaded.
Fits(w) ==
    LET is == row[job[w]].status
        was == loaded[w].status
    IN
    /\ stage[w] \in {"opening", "marking"} => is \in {"none", "pending"}
    /\ stage[w] \in {"working", "clearing", "inserting", "committing", "failing",
                     "failCommit"} => is \in {"none", "processing"}
    /\ stage[w] = "marking" => was = "pending"
    /\ stage[w] = "committing" => was \in {"none", "processing"}
    /\ stage[w] = "failCommit" => was = "processing"

\* While nothing was redelivered a document has one task at most, waiting or in
\* one worker, and its status is the one that worker has left it with.
OneTask ==
    /\ \A d \in Docs : queue[d] \in {0, 1} /\ (~Sent(d) => queue[d] = 0)
    /\ \A d \in Docs : Fresh(d) => \A w \in Workers : ~Works(w, d)
    /\ \A d \in Docs, v, w \in Workers : Works(v, d) /\ Works(w, d) => v = w

StatusFits ==
    /\ \A d \in Docs : Fresh(d) => row[d].status \in {"none", "pending"}
    /\ \A w \in Workers : Fits(w)
    /\ \A w \in Workers : Uncommitted(job[w]) =>
           stage[w] \in {"idle", "opening", "notifyAbsent", "notifyFailed"}

StatusInv == redelivered = 0 => OneTask /\ StatusFits

\* What a transaction of worker w does to the row when the status it assigns
\* is not the one it loaded.
LEMMA FlushSetsStatus ==
    ASSUME TypeOK, NEW w \in Workers, NEW new \in Row,
           loaded[w].status # new.status, Flush(w, new), ~Stale(w, new)
    PROVE  /\ row[job[w]] # NoRow
           /\ row'[job[w]].status = new.status
           /\ \A d \in Docs : d # job[w] => row'[d] = row[d]
<1>1. Dirty(loaded[w], new) /\ job[w] \in Docs /\ row \in [Docs -> Row \cup {NoRow}]
  BY DEF Dirty, TypeOK
<1>2. row' = [row EXCEPT ![job[w]] = Write(@, loaded[w], new)]
  BY <1>1 DEF Flush
<1>3. Write(row[job[w]], loaded[w], new).status = new.status
  BY DEF Write
<1> QED
  BY <1>1, <1>2, <1>3 DEF Stale

\* The row's status is set as the worker goes on from a stage, or nothing is.
Sets(w, from, to, status) ==
    /\ stage[w] = from /\ stage'[w] = to
    /\ row'[job[w]].status = status
    /\ \A d \in Docs : d # job[w] => row'[d] = row[d]
    /\ job' = job /\ loaded' = loaded

LEMMA WorkerSetsStatus ==
    ASSUME TypeOK, NEW w \in Workers, Fits(w)
    PROVE  /\ MarkProcessing(w) =>
                \/ Sets(w, "marking", "working", "processing")
                \/ row' = row /\ stage'[w] = "notifyFailed"
           /\ CommitChunks(w) =>
                \/ Sets(w, "committing", "notifyReady", "ready")
                \/ row' = row /\ stage'[w] \in {"failing", "notifyReady"}
           /\ CommitFailed(w) =>
                \/ Sets(w, "failCommit", "notifyFailed", "failed")
                \/ row' = row /\ stage'[w] = "notifyFailed"
<1> DEFINE old == loaded[w]
<1>0. stage \in [Workers -> Stage] /\ old \in Row \cup {NoRow}
  BY DEF TypeOK
<1>1. /\ AsProcessing(old) \in Row /\ AsProcessing(old).status = "processing"
      /\ AsReady(old) \in Row /\ AsReady(old).status = "ready"
      /\ AsFailed(old) \in Row /\ AsFailed(old).status = "failed"
  BY RowsOfTheRun DEF TypeOK, AsProcessing, AsReady, AsFailed
<1> HIDE DEF old
<1>2. ASSUME MarkProcessing(w)
      PROVE  \/ Sets(w, "marking", "working", "processing")
             \/ row' = row /\ stage'[w] = "notifyFailed"
  <2>1. stage[w] = "marking" /\ old.status # "processing" /\ job' = job /\ loaded' = loaded
    BY <1>2 DEF MarkProcessing, Fits, old
  <2>2. CASE Stale(w, AsProcessing(old))
    BY <1>0, <1>2, <2>2 DEF MarkProcessing, Goto, old
  <2>3. CASE ~Stale(w, AsProcessing(old))
    <3>1. stage'[w] = "working" /\ Flush(w, AsProcessing(old))
      BY <1>0, <1>2, <2>3 DEF MarkProcessing, Goto, old
    <3> QED
      BY <1>1, <2>1, <2>3, <3>1, FlushSetsStatus DEF Sets, old
  <2> QED
    BY <2>2, <2>3
<1>3. ASSUME CommitChunks(w)
      PROVE  \/ Sets(w, "committing", "notifyReady", "ready")
             \/ row' = row /\ stage'[w] \in {"failing", "notifyReady"}
  <2>1. stage[w] = "committing" /\ old.status # "ready" /\ job' = job /\ loaded' = loaded
    BY <1>3 DEF CommitChunks, Fits, old
  <2>2. CASE row' = row /\ stage'[w] \in {"failing", "notifyReady"}
    BY <2>2
  <2>3. CASE ~(row' = row /\ stage'[w] \in {"failing", "notifyReady"})
    <3>1. /\ stage'[w] = "notifyReady" /\ Flush(w, AsReady(old))
          /\ ~Stale(w, AsReady(old))
      BY <1>0, <1>3, <2>3 DEF CommitChunks, Goto, dbVars, old
    <3> QED
      BY <1>1, <2>1, <3>1, FlushSetsStatus DEF Sets, old
  <2> QED
    BY <2>2, <2>3
<1>4. ASSUME CommitFailed(w)
      PROVE  \/ Sets(w, "failCommit", "notifyFailed", "failed")
             \/ row' = row /\ stage'[w] = "notifyFailed"
  <2>1. /\ stage[w] = "failCommit" /\ old.status # "failed" /\ job' = job
        /\ loaded' = loaded /\ stage'[w] = "notifyFailed"
    BY <1>0, <1>4 DEF CommitFailed, Fits, Goto, old
  <2>2. CASE Stale(w, AsFailed(old))
    BY <1>4, <2>1, <2>2 DEF CommitFailed, old
  <2>3. CASE ~Stale(w, AsFailed(old))
    <3>1. Flush(w, AsFailed(old))
      BY <1>4, <2>3 DEF CommitFailed, old
    <3> QED
      BY <1>1, <2>1, <2>3, <3>1, FlushSetsStatus DEF Sets, old
  <2> QED
    BY <2>2, <2>3
<1> QED
  BY <1>2, <1>3, <1>4

\* A worker's step concerns its own document.
Own(w) ==
    /\ \A d \in Docs : d # job[w] => row'[d] = row[d]
    /\ \A v \in Workers : v # w =>
           stage'[v] = stage[v] /\ job'[v] = job[v] /\ loaded'[v] = loaded[v]
    /\ stage[w] # "idle"
    /\ stage'[w] = "idle" \/ job'[w] = job[w]
    /\ UNCHANGED <<queue, upload, redelivered>>

LEMMA WorkerOwns ==
    ASSUME TypeOK, NEW w \in Workers, Step(w) \/ DatabaseFails(w) \/ Crash(w)
    PROVE  Own(w)
<1>0. /\ stage \in [Workers -> Stage] /\ job \in [Workers -> Docs]
      /\ loaded \in [Workers -> Row \cup {NoRow}]
  BY DEF TypeOK
<1>1. \A d \in Docs : d # job[w] => row'[d] = row[d]
  BY WorkerTables DEF RowStep
<1> DEFINE Rest == /\ \A v \in Workers : v # w =>
                          stage'[v] = stage[v] /\ job'[v] = job[v] /\ loaded'[v] = loaded[v]
                   /\ stage[w] # "idle"
                   /\ stage'[w] = "idle" \/ job'[w] = job[w]
                   /\ UNCHANGED <<queue, upload, redelivered>>
<1> USE <1>0 DEF Goto, apiVars
<1>2. OpenDocument(w) => Rest
  BY DEF OpenDocument
<1>3. MarkProcessing(w) => Rest
  BY DEF MarkProcessing
<1>4. Process(w) => Rest
  BY DEF Process
<1>5. ClearChunks(w) => Rest
  BY DEF ClearChunks
<1>6. InsertChunks(w) => Rest
  BY DEF InsertChunks
<1>7. CommitChunks(w) => Rest
  BY DEF CommitChunks
<1>8. OpenFailed(w) => Rest
  BY DEF OpenFailed
<1>9. CommitFailed(w) => Rest
  BY DEF CommitFailed
<1>10. Notify(w) => Rest
  BY DEF Notify, Release
<1>11. DatabaseFails(w) => Rest
  BY DEF DatabaseFails
<1>12. Crash(w) => Rest
  BY DEF Crash, Release
<1> QED
  BY <1>1, <1>2, <1>3, <1>4, <1>5, <1>6, <1>7, <1>8, <1>9, <1>10, <1>11, <1>12
  DEF Step, Own

\* A worker's step leaves its stage, its row and what it loaded fitting, and
\* moves the status on if it changes the row.
LEMMA WorkerFits ==
    ASSUME TypeOK, NEW w \in Workers, Fits(w), Step(w) \/ DatabaseFails(w) \/ Crash(w)
    PROVE  /\ Fits(w)'
           /\ row'[job[w]] # row[job[w]] /\ row[job[w]] # NoRow =>
                Rank(row'[job[w]].status) > Rank(row[job[w]].status)
<1>0. /\ stage \in [Workers -> Stage] /\ job \in [Workers -> Docs]
      /\ loaded \in [Workers -> Row \cup {NoRow}]
      /\ row \in [Docs -> Row \cup {NoRow}]
  BY DEF TypeOK
<1> DEFINE Moves == row'[job[w]] # row[job[w]] /\ row[job[w]] # NoRow =>
                      Rank(row'[job[w]].status) > Rank(row[job[w]].status)
<1>1. row' = row => Moves
  OBVIOUS
<1>2. row[job[w]] # NoRow => row[job[w]].status # "none"
  BY <1>0, StatusOfRow
<1> USE DEF Goto, dbVars
<1>3. CASE OpenDocument(w)
  <2>1. /\ row' = row /\ job' = job /\ loaded'[w] = row[job[w]]
        /\ stage[w] = "opening"
        /\ stage'[w] \in {"notifyAbsent", "notifyFailed"}
             \/ (stage'[w] = "marking" /\ row[job[w]] # NoRow)
    BY <1>0, <1>3 DEF OpenDocument
  <2> QED
    BY <1>1, <1>2, <2>1 DEF Fits
<1>4. CASE MarkProcessing(w)
  <2>1. CASE Sets(w, "marking", "working", "processing")
    BY <1>2, <2>1 DEF Fits, Sets, Rank
  <2>2. CASE row' = row /\ stage'[w] = "notifyFailed"
    BY <1>1, <2>2 DEF Fits
  <2> QED
    BY <1>4, <2>1, <2>2, WorkerSetsStatus
<1>5. CASE Process(w) \/ ClearChunks(w)
  <2>1. /\ row' = row /\ job' = job /\ loaded' = loaded
        /\ stage[w] \in {"working", "clearing"}
        /\ stage'[w] \in {"clearing", "failing", "inserting"}
    BY <1>0, <1>5 DEF Process, ClearChunks
  <2> QED
    BY <1>1, <2>1 DEF Fits
<1>6. CASE InsertChunks(w)
  <2>1. /\ row' = row /\ job' = job
        /\ stage[w] = "inserting"
        /\ \/ stage'[w] = "failing" /\ loaded' = loaded
           \/ stage'[w] = "committing" /\ loaded'[w] = row[job[w]]
    BY <1>0, <1>6 DEF InsertChunks
  <2> QED
    BY <1>1, <2>1 DEF Fits
<1>7. CASE CommitChunks(w)
  <2>1. CASE Sets(w, "committing", "notifyReady", "ready")
    BY <1>2, <2>1 DEF Fits, Sets, Rank
  <2>2. CASE row' = row /\ stage'[w] \in {"failing", "notifyReady"}
    <3>1. stage[w] = "committing" /\ job' = job /\ loaded' = loaded
      BY <1>7 DEF CommitChunks
    <3> QED
      BY <1>1, <2>2, <3>1 DEF Fits
  <2> QED
    BY <1>7, <2>1, <2>2, WorkerSetsStatus
<1>8. CASE OpenFailed(w)
  <2>1. /\ row' = row /\ job' = job /\ loaded'[w] = row[job[w]]
        /\ stage[w] = "failing"
        /\ stage'[w] = "notifyFailed"
             \/ (stage'[w] = "failCommit" /\ row[job[w]] # NoRow)
    BY <1>0, <1>8 DEF OpenFailed
  <2> QED
    BY <1>1, <1>2, <2>1 DEF Fits
<1>9. CASE CommitFailed(w)
  <2>1. CASE Sets(w, "failCommit", "notifyFailed", "failed")
    BY <1>2, <2>1 DEF Fits, Sets, Rank
  <2>2. CASE row' = row /\ stage'[w] = "notifyFailed"
    BY <1>1, <2>2 DEF Fits
  <2> QED
    BY <1>9, <2>1, <2>2, WorkerSetsStatus
<1>10. CASE Notify(w) \/ Crash(w)
  <2>1. row' = row /\ stage'[w] = "idle"
    BY <1>0, <1>10 DEF Notify, Crash, Release
  <2> QED
    BY <1>1, <2>1 DEF Fits
<1>11. CASE DatabaseFails(w)
  <2>1. /\ row' = row /\ job' = job /\ loaded' = loaded
        /\ \/ stage'[w] = "notifyFailed"
           \/ /\ stage[w] \in {"clearing", "inserting", "committing"}
              /\ stage'[w] = "failing"
    BY <1>0, <1>11 DEF DatabaseFails
  <2> QED
    BY <1>1, <2>1 DEF Fits
<1> QED
  BY <1>3, <1>4, <1>5, <1>6, <1>7, <1>8, <1>9, <1>10, <1>11 DEF Step

\* Workers keep the invariant.
LEMMA WorkerKeepsStatus ==
    ASSUME TypeOK, UploadInv, OneTask, StatusFits,
           NEW w \in Workers, Step(w) \/ DatabaseFails(w) \/ Crash(w)
    PROVE  OneTask' /\ StatusFits'
<1>0. Own(w) /\ Fits(w) /\ Fits(w)' /\ job \in [Workers -> Docs]
  BY WorkerOwns, WorkerFits DEF StatusFits, TypeOK
<1>1. \A v \in Workers, d \in Docs : Works(v, d)' => Works(v, d)
  BY <1>0 DEF Own, Works
<1>2. \A d \in Docs : (Fresh(d)' <=> Fresh(d)) /\ (Sent(d)' <=> Sent(d))
                      /\ (Uncommitted(d)' <=> Uncommitted(d))
  BY <1>0 DEF Own, Fresh, Sent, Uncommitted
<1>3. OneTask'
  BY <1>0, <1>1, <1>2 DEF OneTask, Own
<1>4. ASSUME NEW d \in Docs, Fresh(d)' PROVE row'[d].status \in {"none", "pending"}
  <2>1. d # job[w]
    BY <1>0, <1>2, <1>4 DEF OneTask, Works, Own
  <2> QED
    BY <1>0, <1>2, <1>4, <2>1 DEF Own, StatusFits
<1>5. ASSUME NEW v \in Workers PROVE Fits(v)'
  <2>1. CASE v = w
    BY <1>0, <2>1
  <2>2. CASE v # w /\ stage[v] = "idle"
    BY <1>0, <2>2 DEF Own, Fits
  <2>3. CASE v # w /\ stage[v] # "idle"
    <3>1. job[v] # job[w] /\ job[v] \in Docs
      BY <1>0, <2>3 DEF OneTask, Works, Own
    <3>2. /\ row'[job[v]] = row[job[v]] /\ job'[v] = job[v]
          /\ stage'[v] = stage[v] /\ loaded'[v] = loaded[v]
      BY <1>0, <2>3, <3>1 DEF Own
    <3> QED
      BY <3>2 DEF StatusFits, Fits
  <2> QED
    BY <2>1, <2>2, <2>3
<1>6. ASSUME NEW v \in Workers, Uncommitted(job[v])'
      PROVE  stage'[v] \in {"idle", "opening", "notifyAbsent", "notifyFailed"}
  <2>1. CASE v # w
    BY <1>0, <1>2, <1>6, <2>1 DEF Own, StatusFits
  <2>2. CASE v = w /\ stage'[w] # "idle"
    <3>1. /\ job'[w] = job[w] /\ Uncommitted(job[w]) /\ row[job[w]] = NoRow
          /\ stage[w] \in {"opening", "notifyAbsent", "notifyFailed"}
      BY <1>0, <1>2, <1>6, <2>2 DEF Own, StatusFits, UploadInv
    <3>2. stage \in [Workers -> Stage]
      BY DEF TypeOK
    <3>3. OpenDocument(w) \/ Notify(w) \/ DatabaseFails(w) \/ Crash(w)
      BY <3>1 DEF Step, MarkProcessing, Process, ClearChunks, InsertChunks,
                  CommitChunks, OpenFailed, CommitFailed
    <3> QED
      BY <2>2, <3>1, <3>2, <3>3 DEF OpenDocument, Notify, DatabaseFails, Crash, Release, Goto
  <2> QED
    BY <2>1, <2>2
<1> QED
  BY <1>3, <1>4, <1>5, <1>6 DEF StatusFits

\* A task that is taken was the only one of its document.
LEMMA TakeKeepsStatus ==
    ASSUME TypeOK, OneTask, StatusFits, NEW w \in Workers, NEW d \in Docs, TakeTask(w, d)
    PROVE  OneTask' /\ StatusFits'
<1>1. /\ stage[w] = "idle" /\ queue[d] > 0
      /\ queue' = [queue EXCEPT ![d] = @ - 1]
      /\ stage' = [stage EXCEPT ![w] = "opening"]
      /\ job' = [job EXCEPT ![w] = d]
      /\ UNCHANGED <<upload, row, loaded, redelivered>>
      /\ queue \in [Docs -> Nat] /\ stage \in [Workers -> Stage] /\ job \in [Workers -> Docs]
  BY DEF TakeTask, apiVars, dbVars, TypeOK
<1>2. queue[d] = 1 /\ queue'[d] = 0 /\ Sent(d) /\ Fresh(d)
  BY <1>1 DEF OneTask, Fresh
<1>3. \A e \in Docs : e # d => queue'[e] = queue[e]
  BY <1>1
<1>4. \A e \in Docs : (Sent(e)' <=> Sent(e)) /\ (Uncommitted(e)' <=> Uncommitted(e))
  BY <1>1 DEF Sent, Uncommitted
<1>5. \A e \in Docs : Fresh(e)' => Fresh(e) /\ e # d
  BY <1>2, <1>3, <1>4 DEF Fresh
<1>6. \A v \in Workers : v # w => /\ stage'[v] = stage[v] /\ job'[v] = job[v]
                                  /\ \A e \in Docs : Works(v, e)' <=> Works(v, e)
  BY <1>1 DEF Works
<1>7. stage'[w] = "opening" /\ job'[w] = d /\ \A e \in Docs : Works(w, e)' <=> e = d
  BY <1>1 DEF Works
<1>8. OneTask'
  <2>1. \A e \in Docs : queue'[e] \in {0, 1} /\ (~Sent(e)' => queue'[e] = 0)
    BY <1>2, <1>3, <1>4 DEF OneTask
  <2>2. \A e \in Docs : Fresh(e)' => \A v \in Workers : ~Works(v, e)'
    BY <1>5, <1>6, <1>7 DEF OneTask
  <2>3. \A v \in Workers : ~Works(v, d)
    BY <1>2 DEF OneTask
  <2>4. ASSUME NEW e \in Docs, NEW u \in Workers, NEW v \in Workers, Works(u, e)', Works(v, e)'
        PROVE  u = v
    BY <1>6, <1>7, <2>3, <2>4 DEF OneTask
  <2> QED
    BY <2>1, <2>2, <2>4 DEF OneTask
<1>9. \A e \in Docs : Fresh(e)' => row'[e].status \in {"none", "pending"}
  BY <1>1, <1>5 DEF StatusFits
<1>10. ASSUME NEW v \in Workers PROVE Fits(v)'
  <2>1. CASE v = w
    BY <1>1, <1>2, <1>7, <2>1 DEF Fits, StatusFits
  <2>2. CASE v # w
    BY <1>1, <1>6, <2>2 DEF Fits, StatusFits
  <2> QED
    BY <2>1, <2>2
<1>11. ASSUME NEW v \in Workers, Uncommitted(job[v])'
       PROVE  stage'[v] \in {"idle", "opening", "notifyAbsent", "notifyFailed"}
  BY <1>1, <1>4, <1>6, <1>7, <1>11 DEF StatusFits
<1> QED
  BY <1>8, <1>9, <1>10, <1>11 DEF StatusFits

\* The api keeps it: it enqueues once, and its row is new.
LEMMA ApiKeepsStatus ==
    ASSUME TypeOK, UploadInv, OneTask, StatusFits, NEW d \in Docs,
           Request(d) \/ Client(d) \/ AbandonUpload(d)
    PROVE  OneTask' /\ StatusFits'
<1> DEFINE
      Pending == [status |-> "pending", key |-> row'[d].key, error |-> FALSE]
      Kept == row' = row \/ row'[d].status = "none"
      Made == row'[d].status = "pending" /\ Uncommitted(d)
<1>0. UNCHANGED <<stage, job, loaded>>
  BY DEF Request, Client, PutObject, CommitUpload, Respond, EnqueueIngest, ReceiveUpload,
         CreateDocument, DeleteDocument, AbandonUpload, workerVars
<1>1. /\ upload \in [Docs -> UploadStage] /\ queue \in [Docs -> Nat]
      /\ row \in [Docs -> Row \cup {NoRow}] /\ job \in [Workers -> Docs]
  BY DEF TypeOK
<1>2. /\ \A e \in Docs : e # d =>
             row'[e] = row[e] /\ queue'[e] = queue[e] /\ upload'[e] = upload[e]
      /\ row'[d] = row[d] \/ row'[d].status = "none" \/ Made
      /\ Uncommitted(d)' => Uncommitted(d)
      /\ Sent(d) => Sent(d)'
      /\ \/ queue'[d] = queue[d]
         \/ ~Sent(d) /\ Sent(d)' /\ queue'[d] = queue[d] + 1
  <2> USE <1>1 DEF Uncommitted, Sent, dbVars
  <2>1. CASE PutObject(d)
    BY <2>1 DEF PutObject
  <2>2. CASE CommitUpload(d)
    BY <2>2 DEF CommitUpload
  <2>3. CASE Respond(d)
    BY <2>3 DEF Respond
  <2>4. CASE EnqueueIngest(d)
    BY <2>4 DEF EnqueueIngest
  <2>5. CASE ReceiveUpload(d)
    BY <2>5 DEF ReceiveUpload
  <2>6. CASE CreateDocument(d)
    BY <2>6 DEF CreateDocument
  <2>7. CASE DeleteDocument(d)
    BY <2>7 DEF DeleteDocument, NoRow
  <2>8. CASE AbandonUpload(d)
    BY <2>8 DEF AbandonUpload
  <2> QED
    BY <2>1, <2>2, <2>3, <2>4, <2>5, <2>6, <2>7, <2>8 DEF Request, Client
<1>3. \A e \in Docs : /\ e # d => (Sent(e)' <=> Sent(e)) /\ (Fresh(e)' <=> Fresh(e))
                      /\ Uncommitted(e)' => Uncommitted(e)
  BY <1>2 DEF Sent, Fresh, Uncommitted
<1>4. /\ queue'[d] \in {0, 1} /\ (~Sent(d)' => queue'[d] = 0)
      /\ Fresh(d)' => Fresh(d)
  BY <1>1, <1>2 DEF OneTask, Fresh
<1>5. \A v \in Workers, e \in Docs : Works(v, e)' <=> Works(v, e)
  BY <1>0 DEF Works
<1>6. OneTask'
  BY <1>2, <1>3, <1>4, <1>5 DEF OneTask
<1>7. ASSUME NEW e \in Docs, Fresh(e)' PROVE row'[e].status \in {"none", "pending"}
  BY <1>2, <1>3, <1>4, <1>7 DEF StatusFits
<1>8. ASSUME NEW v \in Workers PROVE Fits(v)'
  <2>1. CASE job[v] # d \/ row'[d] = row[d]
    BY <1>0, <1>1, <1>2, <2>1 DEF StatusFits, Fits
  <2>2. CASE job[v] = d /\ row'[d].status = "none"
    BY <1>0, <2>2 DEF StatusFits, Fits
  <2>3. CASE job[v] = d /\ Made
    <3>1. stage[v] \in {"idle", "opening", "notifyAbsent", "notifyFailed"}
      BY <2>3 DEF StatusFits
    <3> QED
      BY <1>0, <2>3, <3>1 DEF Fits
  <2> QED
    BY <1>2, <2>1, <2>2, <2>3
<1>9. ASSUME NEW v \in Workers, Uncommitted(job[v])'
      PROVE  stage'[v] \in {"idle", "opening", "notifyAbsent", "notifyFailed"}
  <2>1. Uncommitted(job[v])
    BY <1>0, <1>1, <1>3, <1>9
  <2> QED
    BY <1>0, <2>1 DEF StatusFits
<1> QED
  BY <1>6, <1>7, <1>8, <1>9 DEF StatusFits

LEMMA RedeliveredGrows ==
    ASSUME TypeOK, [Next]_vars, redelivered' = 0
    PROVE  redelivered = 0 /\ ~\E d \in Docs : Redeliver(d)
<1>0. redelivered \in Nat
  BY DEF TypeOK
<1>1. ASSUME NEW d \in Docs, Redeliver(d) PROVE FALSE
  BY <1>0, <1>1 DEF Redeliver
<1>2. CASE UNCHANGED vars
  BY <1>1, <1>2 DEF vars
<1>3. ASSUME NEW d \in Docs, Request(d) \/ Client(d) \/ AbandonUpload(d)
      PROVE  redelivered' = redelivered
  BY <1>3 DEF Request, Client, PutObject, CommitUpload, Respond, EnqueueIngest,
              ReceiveUpload, CreateDocument, DeleteDocument, AbandonUpload
<1>4. ASSUME NEW w \in Workers, Step(w) \/ DatabaseFails(w) \/ Crash(w)
      PROVE  redelivered' = redelivered
  BY <1>4, WorkerOwns DEF Own
<1>5. ASSUME NEW w \in Workers, NEW d \in Docs, TakeTask(w, d)
      PROVE  redelivered' = redelivered
  BY <1>5 DEF TakeTask
<1> QED
  BY <1>1, <1>2, <1>3, <1>4, <1>5 DEF Next, Fault

LEMMA StatusInductive == Spec => []StatusInv
<1>1. Init => StatusInv
  <2> SUFFICES ASSUME Init PROVE OneTask /\ StatusFits
    BY DEF StatusInv
  <2>1. OneTask
    BY DEF Init, OneTask, Sent, Fresh, Works
  <2>2. StatusFits
    BY AnyDocType DEF Init, StatusFits, Fits, NoRow
  <2> QED
    BY <2>1, <2>2
<1>2. TypeOK /\ UploadInv /\ StatusInv /\ [Next]_vars => StatusInv'
  <2> SUFFICES ASSUME TypeOK, UploadInv, OneTask, StatusFits, [Next]_vars,
                      ~\E d \in Docs : Redeliver(d)
               PROVE  OneTask' /\ StatusFits'
    BY RedeliveredGrows DEF StatusInv
  <2>1. CASE UNCHANGED vars
    <3>1. UNCHANGED <<row, upload, queue, stage, job, loaded>>
      BY <2>1 DEF vars
    <3>2. OneTask'
      BY <3>1 DEF OneTask, Sent, Fresh, Works
    <3>3. StatusFits'
      BY <3>1 DEF StatusFits, Sent, Fresh, Fits, Uncommitted
    <3> QED
      BY <3>2, <3>3
  <2> QED
    BY <2>1, ApiKeepsStatus, WorkerKeepsStatus, TakeKeepsStatus DEF Next, Fault
<1> QED
  BY <1>1, <1>2, TypeCorrect, UploadInductive, PTL DEF Spec

\* While no task was delivered twice, a status only moves on.
THEOREM StatusesAdvance == Spec => StatusAdvances
<1> DEFINE Advances == \A d \in Docs :
              row[d] # NoRow /\ row'[d] # NoRow /\ row'[d] # row[d] /\ redelivered' = 0
                => Rank(row'[d].status) > Rank(row[d].status)
<1>1. TypeOK /\ UploadInv /\ StatusInv /\ [Next]_vars => [Advances]_vars
  <2> SUFFICES ASSUME TypeOK, UploadInv, StatusInv, Next,
                      NEW d \in Docs, row[d] # NoRow, row'[d] # NoRow,
                      row'[d] # row[d], redelivered' = 0
               PROVE  Rank(row'[d].status) > Rank(row[d].status)
    OBVIOUS
  <2>1. OneTask /\ StatusFits /\ ~\E e \in Docs : Redeliver(e)
    BY RedeliveredGrows DEF StatusInv
  <2>2. ASSUME NEW e \in Docs, Request(e) \/ Client(e) \/ AbandonUpload(e) PROVE FALSE
    <3>1. row \in [Docs -> Row \cup {NoRow}] /\ row[d] # NoRow
      BY DEF TypeOK
    <3>2. \/ row' = row
          \/ Uncommitted(e) /\ \A f \in Docs : f # e => row'[f] = row[f]
          \/ row' = [row EXCEPT ![e] = NoRow]
      BY <2>2, <3>1 DEF Request, Client, PutObject, CommitUpload, Respond, EnqueueIngest,
                   ReceiveUpload, CreateDocument, DeleteDocument, AbandonUpload,
                   Uncommitted, dbVars
    <3> QED
      BY <3>1, <3>2 DEF UploadInv
  <2>3. ASSUME NEW w \in Workers, Step(w) \/ DatabaseFails(w) \/ Crash(w)
        PROVE  Rank(row'[d].status) > Rank(row[d].status)
    <3>1. d = job[w]
      BY <2>3, WorkerOwns DEF Own
    <3> QED
      BY <2>1, <2>3, <3>1, WorkerFits DEF StatusFits
  <2>4. ASSUME NEW w \in Workers, NEW e \in Docs, TakeTask(w, e) PROVE FALSE
    BY <2>4 DEF TakeTask, dbVars
  <2> QED
    BY <2>1, <2>2, <2>3, <2>4 DEF Next, Fault
<1> QED
  BY <1>1, TypeCorrect, UploadInductive, StatusInductive, PTL DEF Spec, StatusAdvances

-----------------------------------------------------------------------------
(* The error of a document whose task is delivered once                    *)

\* A row shows an error as its status says.
Honest(r) == r.error <=> r.status = "failed"

\* A session that is about to write has loaded a row without an error.
LoadedClean(w) ==
    stage[w] \in {"marking", "committing", "failCommit"} => ~loaded[w].error

\* ErrorMeansFailed, and what the sessions have loaded.
ErrorInv ==
    redelivered = 0 =>
        /\ \A d \in Docs : Honest(row[d])
        /\ \A w \in Workers : LoadedClean(w)

LEMMA RowsAreHonest ==
    /\ \A r \in Row \cup {NoRow} :
           /\ Honest(AsProcessing(r)) /\ AsProcessing(r) \in Row
           /\ Honest(AsReady(r)) /\ AsReady(r) \in Row
           /\ Honest(AsFailed(r)) /\ AsFailed(r) \in Row
    /\ Honest(NoRow)
<1>1. ASSUME NEW r \in Row \cup {NoRow}
      PROVE  AsProcessing(r) \in Row /\ AsReady(r) \in Row /\ AsFailed(r) \in Row
  BY <1>1, RowsOfTheRun
<1>2. ASSUME NEW r \in Row \cup {NoRow}
      PROVE  Honest(AsProcessing(r)) /\ Honest(AsReady(r)) /\ Honest(AsFailed(r))
  BY DEF Honest, AsProcessing, AsReady, AsFailed
<1>3. Honest(NoRow)
  BY DEF Honest, NoRow
<1> QED
  BY <1>1, <1>2, <1>3

\* An error that neither the row nor what was loaded shows is set as the
\* transaction sets it.
LEMMA FlushIsHonest ==
    ASSUME TypeOK, NEW w \in Workers, NEW new \in Row, Honest(new),
           loaded[w].status # new.status, ~loaded[w].error, ~row[job[w]].error,
           Flush(w, new)
    PROVE  Honest(row'[job[w]])
<1>1. Dirty(loaded[w], new) /\ job[w] \in Docs /\ row \in [Docs -> Row \cup {NoRow}]
  BY DEF Dirty, TypeOK
<1>2. row'[job[w]] = Write(row[job[w]], loaded[w], new)
  BY <1>1 DEF Flush
<1>3. Write(row[job[w]], loaded[w], new).status = new.status
  BY DEF Write
<1>4. Write(row[job[w]], loaded[w], new).error <=> new.error
  <2>1. CASE loaded[w].error = new.error
    BY <2>1 DEF Write
  <2>2. CASE loaded[w].error # new.error
    BY <2>2 DEF Write
  <2> QED
    BY <2>1, <2>2
<1> QED
  BY <1>2, <1>3, <1>4 DEF Honest

\* A worker's step leaves its row honest and what it loaded clean.
LEMMA WorkerIsHonest ==
    ASSUME TypeOK, NEW w \in Workers, Fits(w), Honest(row[job[w]]), LoadedClean(w),
           Step(w) \/ DatabaseFails(w) \/ Crash(w)
    PROVE  Honest(row'[job[w]]) /\ LoadedClean(w)'
<1>0. /\ stage \in [Workers -> Stage] /\ job \in [Workers -> Docs]
      /\ loaded \in [Workers -> Row \cup {NoRow}]
      /\ row \in [Docs -> Row \cup {NoRow}]
      /\ loaded[w] \in Row \cup {NoRow}
  BY DEF TypeOK
<1> USE DEF Goto, dbVars
<1>1. CASE MarkProcessing(w)
  <2>1. /\ loaded[w].status = "pending" /\ ~loaded[w].error /\ ~row[job[w]].error
        /\ stage'[w] \in {"notifyFailed", "working"}
        /\ row' = row \/ Flush(w, AsProcessing(loaded[w]))
    BY <1>0, <1>1 DEF MarkProcessing, Fits, LoadedClean, Honest
  <2>2. AsProcessing(loaded[w]).status = "processing"
    BY DEF AsProcessing
  <2>3. Honest(row'[job[w]])
    BY <1>0, <2>1, <2>2, RowsAreHonest, FlushIsHonest
  <2> QED
    BY <2>1, <2>3 DEF LoadedClean
<1>2. CASE CommitChunks(w)
  <2>1. /\ loaded[w].status # "ready" /\ ~loaded[w].error /\ ~row[job[w]].error
        /\ stage'[w] \in {"failing", "notifyReady"}
        /\ row' = row \/ Flush(w, AsReady(loaded[w]))
    BY <1>0, <1>2 DEF CommitChunks, Fits, LoadedClean, Honest
  <2>2. AsReady(loaded[w]).status = "ready"
    BY DEF AsReady
  <2>3. Honest(row'[job[w]])
    BY <1>0, <2>1, <2>2, RowsAreHonest, FlushIsHonest
  <2> QED
    BY <2>1, <2>3 DEF LoadedClean
<1>3. CASE CommitFailed(w)
  <2>1. /\ loaded[w].status # "failed" /\ ~loaded[w].error /\ ~row[job[w]].error
        /\ stage'[w] = "notifyFailed"
        /\ row' = row \/ Flush(w, AsFailed(loaded[w]))
    BY <1>0, <1>3 DEF CommitFailed, Fits, LoadedClean, Honest
  <2>2. AsFailed(loaded[w]).status = "failed"
    BY DEF AsFailed
  <2>3. Honest(row'[job[w]])
    BY <1>0, <2>1, <2>2, RowsAreHonest, FlushIsHonest
  <2> QED
    BY <2>1, <2>3 DEF LoadedClean
<1>4. CASE OpenDocument(w) \/ InsertChunks(w) \/ OpenFailed(w)
  <2>1. /\ row' = row
        /\ row[job[w]].status \in {"none", "pending", "processing"}
        /\ \/ stage'[w] \notin {"marking", "committing", "failCommit"}
           \/ loaded'[w] = row[job[w]]
    BY <1>0, <1>4 DEF OpenDocument, InsertChunks, OpenFailed, Fits
  <2> QED
    BY <2>1 DEF Honest, LoadedClean
<1>5. CASE Process(w) \/ ClearChunks(w) \/ Notify(w) \/ DatabaseFails(w) \/ Crash(w)
  <2>1. row' = row /\ stage'[w] \notin {"marking", "committing", "failCommit"}
    BY <1>0, <1>5 DEF Process, ClearChunks, Notify, DatabaseFails, Crash, Release
  <2> QED
    BY <2>1 DEF LoadedClean
<1> QED
  BY <1>1, <1>2, <1>3, <1>4, <1>5 DEF Step

\* The api writes rows without an error, and none that a worker has loaded.
LEMMA ApiIsHonest ==
    ASSUME TypeOK, \A d \in Docs : Honest(row[d]), NEW d \in Docs,
           Request(d) \/ Client(d) \/ AbandonUpload(d)
    PROVE  (\A e \in Docs : Honest(row[e]))' /\ UNCHANGED <<stage, loaded>>
<1>1. UNCHANGED <<stage, loaded>>
  BY DEF Request, Client, PutObject, CommitUpload, Respond, EnqueueIngest, ReceiveUpload,
         CreateDocument, DeleteDocument, AbandonUpload, workerVars
<1>2. \/ row' = row
      \/ row' = [row EXCEPT ![d] = NoRow]
      \/ \E k \in BOOLEAN : row' = [row EXCEPT ![d] =
                                [status |-> "pending", key |-> k, error |-> FALSE]]
  BY DEF Request, Client, PutObject, CommitUpload, Respond, EnqueueIngest, ReceiveUpload,
         CreateDocument, DeleteDocument, AbandonUpload, dbVars
<1>3. \A k \in BOOLEAN : Honest([status |-> "pending", key |-> k, error |-> FALSE])
  BY DEF Honest
<1>4. \A e \in Docs : Honest(row'[e])
  <2> row \in [Docs -> Row \cup {NoRow}]
    BY DEF TypeOK
  <2> QED
    BY <1>2, <1>3, RowsAreHonest
<1> QED
  BY <1>1, <1>4

LEMMA ErrorStep ==
    ASSUME TypeOK, StatusInv, ErrorInv, [Next]_vars
    PROVE  ErrorInv'
<1> SUFFICES ASSUME redelivered' = 0
             PROVE  (\A d \in Docs : Honest(row'[d])) /\ \A w \in Workers : LoadedClean(w)'
  BY DEF ErrorInv
<1>1. /\ ~\E d \in Docs : Redeliver(d)
      /\ \A d \in Docs : Honest(row[d])
      /\ \A w \in Workers : LoadedClean(w) /\ Fits(w)
  BY RedeliveredGrows DEF ErrorInv, StatusInv, StatusFits
<1>2. CASE UNCHANGED vars
  BY <1>1, <1>2 DEF vars, LoadedClean
<1>3. ASSUME NEW d \in Docs, Request(d) \/ Client(d) \/ AbandonUpload(d)
      PROVE  (\A e \in Docs : Honest(row'[e])) /\ \A w \in Workers : LoadedClean(w)'
  BY <1>1, <1>3, ApiIsHonest DEF LoadedClean
<1>4. ASSUME NEW w \in Workers, Step(w) \/ DatabaseFails(w) \/ Crash(w)
      PROVE  (\A d \in Docs : Honest(row'[d])) /\ \A v \in Workers : LoadedClean(v)'
  <2>1. Own(w) /\ job[w] \in Docs
    BY <1>4, WorkerOwns DEF TypeOK
  <2>2. Honest(row'[job[w]]) /\ LoadedClean(w)'
    BY <1>1, <1>4, <2>1, WorkerIsHonest
  <2>3. \A d \in Docs : Honest(row'[d])
    BY <1>1, <2>1, <2>2 DEF Own
  <2>4. \A v \in Workers : v # w => LoadedClean(v)'
    BY <1>1, <2>1 DEF Own, LoadedClean
  <2> QED
    BY <2>2, <2>3, <2>4
<1>5. ASSUME NEW w \in Workers, NEW d \in Docs, TakeTask(w, d)
      PROVE  (\A e \in Docs : Honest(row'[e])) /\ \A v \in Workers : LoadedClean(v)'
  <2>1. /\ row' = row /\ loaded' = loaded /\ stage'[w] = "opening"
        /\ \A v \in Workers : v # w => stage'[v] = stage[v]
    BY <1>5 DEF TakeTask, dbVars, TypeOK
  <2> QED
    BY <1>1, <2>1 DEF LoadedClean
<1> QED
  BY <1>1, <1>2, <1>3, <1>4, <1>5 DEF Next, Fault

\* While no task was delivered twice, a document shows an error exactly while
\* it is failed; so it takes a second delivery to leave one on a document that
\* is ready.
THEOREM ErrorsAreHonest == Spec => []ErrorMeansFailed
<1>1. Init => ErrorInv
  BY RowsAreHonest DEF Init, ErrorInv, LoadedClean
<1>2. ErrorInv => ErrorMeansFailed
  BY DEF ErrorInv, ErrorMeansFailed, Honest
<1> QED
  BY <1>1, <1>2, ErrorStep, TypeCorrect, StatusInductive, PTL DEF Spec
=============================================================================
