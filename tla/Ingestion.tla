----------------------------- MODULE Ingestion -----------------------------
(***************************************************************************)
(* Document ingestion: IngestDocumentUseCase.execute in the API process,   *)
(* the ARQ job it enqueues, process_document_task in a worker process and  *)
(* ProcessDocumentUseCase.execute inside that task, over PostgreSQL        *)
(* (documents), Redis (queue, dead-letter set) and Qdrant (vectors).       *)
(*                                                                         *)
(* Every step ends at an await of the code, so all the interleavings of    *)
(* requests and jobs, and a failure or a crash at every await, are         *)
(* behaviours.  "The call took effect and then raised" is the step that    *)
(* takes effect followed by the failure step at the next await.            *)
(*                                                                         *)
(* Document(...) draws a fresh uuid4, so the document of request r, its    *)
(* row and its job are all named r.                                        *)
(***************************************************************************)
EXTENDS Naturals, FiniteSets

CONSTANTS
    Requests,       \* POST /documents requests, and the documents they create
    Tenants,
    Contents,       \* document texts
    NChunks,        \* NChunks[c]: the chunks chunk() makes of c; 0 iff c is blank
    Workers,        \* ARQ worker processes
    NoWorker,
    MaxTries,       \* settings.worker.max_retries
    MaxJobs,        \* settings.worker.max_jobs
    BatchSize,      \* _EMBEDDING_BATCH_SIZE
    TaskCallFits,   \* execute() accepts the keyword arguments the task passes
    ChunkBuilds     \* Chunk(...) is given every field the entity requires

(***************************************************************************)
(* Both Booleans are FALSE in the code as committed: the task passes       *)
(* tenant_id= to an execute that has no such parameter, and Chunk requires *)
(* a tenant_id it is not given.  With TRUE the model is the pipeline       *)
(* behind the two mismatches.                                              *)
(***************************************************************************)
ASSUME ConstantsAssumption ==
    /\ NChunks \in [Contents -> Nat]
    /\ NoWorker \notin Workers
    /\ MaxTries \in Nat \ {0}
    /\ MaxJobs \in Nat \ {0}
    /\ BatchSize \in Nat \ {0}
    /\ TaskCallFits \in BOOLEAN
    /\ ChunkBuilds \in BOOLEAN

VARIABLES
    reqPc,      \* where execute(request, tenant_id) of each request is
    tenant,     \* the tenant and the content each request carries
    content,
    seen,       \* history: the rows there were when it ran find_duplicate
    answer,     \* what the client was told: status and document_id
    status,     \* the documents table: status, chunk_count,
    chunkCount, \*   and whether error_message is set
    hasError,
    jobState,   \* the ARQ job of the document, and its job_try
    jobTry,
    pc,         \* where the running attempt at the job is
    host,       \* the worker process it runs in
    stage,      \* its IngestionJob: status, total_chunks, processed_chunks
    total,
    done,
    dlq,        \* documents in dlq:document_processing
    vectors,    \* points in Qdrant
    chunkStore  \* InMemoryChunkRepository._store of each worker process

inputs  == <<tenant, content, seen>>
reqVars == <<reqPc, inputs, answer>>
rowVars == <<status, chunkCount, hasError>>
jobVars == <<jobState, jobTry>>
ingJob  == <<stage, total, done>>
attVars == <<pc, host, ingJob>>
stores  == <<dlq, vectors, chunkStore>>
workVars == <<jobVars, attVars, stores>>
vars    == <<reqVars, rowVars, workVars>>

-----------------------------------------------------------------------------
Tries == 1 .. MaxTries

\* DocumentStatus; "absent" is a document with no row.
DocumentStatus == {"absent", "pending", "processing", "completed", "failed"}

IngestionStatus == {"queued", "extracting", "chunking", "embedding",
                    "storing", "completed", "failed"}

\* _VALID_TRANSITIONS of the IngestionJob.
ValidTransitions == [s \in IngestionStatus |->
    CASE s = "queued"     -> {"extracting", "failed"}
      [] s = "extracting" -> {"chunking", "failed"}
      [] s = "chunking"   -> {"embedding", "failed"}
      [] s = "embedding"  -> {"storing", "failed"}
      [] s = "storing"    -> {"completed", "failed"}
      [] s = "completed"  -> {}
      [] s = "failed"     -> {"queued"}]

ReqPcs == {"idle", "find", "save", "mark", "enqueue", "respond", "ended"}

\* The awaits of an attempt: the task's call, execute's own, its except block's.
PipelinePcs == {"get", "blank", "chunk", "embed", "store", "update", "finish"}
ExceptPcs   == {"exceptGet", "exceptUpdate"}
TaskPcs     == {"call", "return", "taskExcept", "raise"}
AttemptPcs  == PipelinePcs \cup ExceptPcs \cup TaskPcs

\* chunk_id is a fresh uuid4 per Chunk: it identifies the attempt and the index.
ChunkIdsOf(d, t, n) == {d} \X {t} \X (1 .. n)

DocChunks(d) == NChunks[content[d]]
MinOf(a, b) == IF a <= b THEN a ELSE b

-----------------------------------------------------------------------------
Init ==
    /\ reqPc = [r \in Requests |-> "idle"]
    /\ tenant \in [Requests -> Tenants]
    /\ content \in [Requests -> Contents]
    /\ seen = [r \in Requests |-> {}]
    /\ answer = [r \in Requests |-> [kind |-> "none", doc |-> r]]
    /\ status = [d \in Requests |-> "absent"]
    /\ chunkCount = [d \in Requests |-> 0]
    /\ hasError = [d \in Requests |-> FALSE]
    /\ jobState = [d \in Requests |-> "none"]
    /\ jobTry = [d \in Requests |-> 0]
    /\ pc = [d \in Requests |-> "none"]
    /\ host = [d \in Requests |-> NoWorker]
    /\ stage = [d \in Requests |-> "queued"]
    /\ total = [d \in Requests |-> 0]
    /\ done = [d \in Requests |-> 0]
    /\ dlq = {}
    /\ vectors = {}
    /\ chunkStore = [w \in Workers |-> {}]

-----------------------------------------------------------------------------
(* The API side: IngestDocumentUseCase.execute                             *)

ReqGoto(r, l) == reqPc' = [reqPc EXCEPT ![r] = l]

\* The request reaches execute(); it runs up to the find_duplicate query.
Submit(r) ==
    /\ reqPc[r] = "idle"
    /\ ReqGoto(r, "find")
    /\ UNCHANGED <<inputs, answer, rowVars, workVars>>

\* Mutant of Duplicates: a document whose processing failed does not count.
DuplicatesNotFailed(r) == {d \in Requests : /\ status[d] \notin {"absent", "failed"}
                                            /\ tenant[d] = tenant[r]
                                            /\ content[d] = content[r]}

\* SELECT ... WHERE tenant_id = $1 AND content_hash = $2 LIMIT 1
Duplicates(r) == {d \in Requests : /\ status[d] # "absent"
                                   /\ tenant[d] = tenant[r]
                                   /\ content[d] = content[r]}

FindDuplicate(r) ==
    /\ reqPc[r] = "find"
    /\ \/ \E d \in Duplicates(r) :
            /\ answer' = [answer EXCEPT ![r] = [kind |-> "duplicate", doc |-> d]]
            /\ ReqGoto(r, "ended")
       \/ /\ Duplicates(r) = {}
          /\ ReqGoto(r, "save")
          /\ UNCHANGED answer
    /\ seen' = [seen EXCEPT ![r] = {d \in Requests : status[d] # "absent"}]
    /\ UNCHANGED <<tenant, content, rowVars, workVars>>

\* Mutant of Save: the document is enqueued without mark_processing.
SaveWithoutMark(r) ==
    /\ reqPc[r] = "save"
    /\ ReqGoto(r, "enqueue")
    /\ status' = [status EXCEPT ![r] = "pending"]
    /\ UNCHANGED <<inputs, answer, chunkCount, hasError, workVars>>

\* INSERT with the entity's defaults.  The document_id is fresh, so the
\* ON CONFLICT (document_id) clause never applies.
Save(r) ==
    /\ reqPc[r] = "save"
    /\ ReqGoto(r, "mark")
    /\ status' = [status EXCEPT ![r] = "pending"]
    /\ chunkCount' = [chunkCount EXCEPT ![r] = 0]
    /\ hasError' = [hasError EXCEPT ![r] = FALSE]
    /\ UNCHANGED <<inputs, answer, workVars>>

\* UPDATE documents SET ... WHERE document_id = d: no row, no effect.
UpdateRow(d, s, n, e) ==
    IF status[d] = "absent"
    THEN UNCHANGED rowVars
    ELSE /\ status' = [status EXCEPT ![d] = s]
         /\ chunkCount' = [chunkCount EXCEPT ![d] = n]
         /\ hasError' = [hasError EXCEPT ![d] = e]

\* Mutant of MarkCompleted: the error_message of an earlier attempt stays.
MarkCompletedKeepsError(d) == UpdateRow(d, "completed", total[d], hasError[d])

\* mark_completed and mark_failed, each with the update that follows it.
MarkCompleted(d) == UpdateRow(d, "completed", total[d], FALSE)
MarkFailed(d) == UpdateRow(d, "failed", chunkCount[d], TRUE)

\* document.mark_processing(), then update(document).
MarkProcessing(r) ==
    /\ reqPc[r] = "mark"
    /\ ReqGoto(r, "enqueue")
    /\ UpdateRow(r, "processing", 0, FALSE)
    /\ UNCHANGED <<inputs, answer, workVars>>

\* Mutant of Enqueue: the update to PROCESSING comes after the enqueue.
EnqueueThenMark(r) ==
    /\ reqPc[r] = "enqueue"
    /\ ReqGoto(r, IF jobState[r] = "none" THEN "mark" ELSE "respond")
    /\ jobState' = [jobState EXCEPT ![r] = IF @ = "none" THEN "queued" ELSE @]
    /\ UNCHANGED <<inputs, answer, rowVars, jobTry, attVars, stores>>

\* arq.enqueue_job("process_document_task", ...): a new job, not yet tried.
Enqueue(r) ==
    /\ reqPc[r] = "enqueue"
    /\ ReqGoto(r, "respond")
    /\ jobState' = [jobState EXCEPT ![r] = "queued"]
    /\ UNCHANGED <<inputs, answer, rowVars, jobTry, attVars, stores>>

Respond(r) ==
    /\ reqPc[r] = "respond"
    /\ ReqGoto(r, "ended")
    /\ answer' = [answer EXCEPT ![r] = [kind |-> "processing", doc |-> r]]
    /\ UNCHANGED <<inputs, rowVars, workVars>>

\* An await of execute raises, or the API process dies: no cleanup is made and
\* the client has no answer.
RequestFails(r) ==
    /\ reqPc[r] \in {"find", "save", "mark", "enqueue", "respond"}
    /\ ReqGoto(r, "ended")
    /\ answer' = [answer EXCEPT ![r] = [kind |-> "error", doc |-> r]]
    /\ UNCHANGED <<inputs, rowVars, workVars>>

\* PostgresDocumentRepository.delete: the row goes, jobs and vectors stay.
DeleteDocument(d) ==
    /\ status[d] # "absent"
    /\ status' = [status EXCEPT ![d] = "absent"]
    /\ chunkCount' = [chunkCount EXCEPT ![d] = 0]
    /\ hasError' = [hasError EXCEPT ![d] = FALSE]
    /\ UNCHANGED <<reqVars, workVars>>

-----------------------------------------------------------------------------
(* ARQ: claiming a job, and what it does when an attempt ends              *)

Running(w) == {d \in Requests : host[d] = w}

\* The attempt starts in worker w, at the task's call of execute().
StartAttempt(d, w) ==
    /\ jobState' = [jobState EXCEPT ![d] = "running"]
    /\ jobTry' = [jobTry EXCEPT ![d] = @ + 1]
    /\ pc' = [pc EXCEPT ![d] = "call"]
    /\ host' = [host EXCEPT ![d] = w]
    /\ UNCHANGED <<reqVars, rowVars, stores>>

\* Mutant of FreshJob: the IngestionJob of the previous try is used again.
FreshJobReused(d) == UNCHANGED ingJob

\* The IngestionJob(...) the task makes: QUEUED, no progress.
FreshJob(d) ==
    /\ stage' = [stage EXCEPT ![d] = "queued"]
    /\ total' = [total EXCEPT ![d] = 0]
    /\ done' = [done EXCEPT ![d] = 0]

\* A worker with a free slot claims the job and starts its next try.
WorkerTakes(d, w) ==
    /\ jobState[d] = "queued"
    /\ jobTry[d] < MaxTries
    /\ Cardinality(Running(w)) < MaxJobs
    /\ StartAttempt(d, w)
    /\ FreshJob(d)

\* max_tries used up by crashed attempts: the job fails without running.
ArqExhausted(d) ==
    /\ jobState[d] = "queued"
    /\ jobTry[d] = MaxTries
    /\ jobState' = [jobState EXCEPT ![d] = "failed"]
    /\ UNCHANGED <<reqVars, rowVars, jobTry, attVars, stores>>

\* The attempt at d is over and ARQ leaves the job in s.  stage, total and done
\* keep the last values of its IngestionJob until the next attempt makes one.
EndAttempt(d, s) ==
    /\ jobState' = [jobState EXCEPT ![d] = s]
    /\ pc' = [pc EXCEPT ![d] = "none"]
    /\ host' = [host EXCEPT ![d] = NoWorker]
    /\ UNCHANGED <<reqVars, rowVars, jobTry, ingJob, stores>>

\* A raised exception, or a cancelled task, either puts the job back on the
\* queue while tries are left or fails it.
AfterRaise(d) ==
    \/ EndAttempt(d, "failed")
    \/ jobTry[d] < MaxTries /\ EndAttempt(d, "queued")

\* job_timeout: the task is cancelled at its await.  CancelledError is not an
\* Exception, so neither except block runs.
JobTimeout(d) ==
    /\ pc[d] \in AttemptPcs
    /\ AfterRaise(d)

\* The worker process dies: its attempts stop where they are, its in-memory
\* chunks are lost, and ARQ makes its jobs available again.
WorkerCrash(w) ==
    LET lost == Running(w) IN
    /\ lost # {}
    /\ jobState' = [d \in Requests |-> IF d \in lost THEN "queued" ELSE jobState[d]]
    /\ pc' = [d \in Requests |-> IF d \in lost THEN "none" ELSE pc[d]]
    /\ host' = [d \in Requests |-> IF d \in lost THEN NoWorker ELSE host[d]]
    /\ chunkStore' = [chunkStore EXCEPT ![w] = {}]
    /\ UNCHANGED <<reqVars, rowVars, jobTry, ingJob, dlq, vectors>>

-----------------------------------------------------------------------------
(* process_document_task                                                   *)

Goto(d, l) == pc' = [pc EXCEPT ![d] = l]

\* job.advance_status(s): rejected (a ValueError) unless the transition is valid.
Advance(d, s) ==
    /\ s \in ValidTransitions[stage[d]]
    /\ stage' = [stage EXCEPT ![d] = s]

\* job.record_progress(processed, n), job.fail(...) and job.complete(): none of
\* them looks at the status the job has.
RecordProgress(d, processed, n) ==
    /\ done' = [done EXCEPT ![d] = processed]
    /\ total' = [total EXCEPT ![d] = n]

JobFails(d) == stage' = [stage EXCEPT ![d] = "failed"]
JobCompletes(d) == stage' = [stage EXCEPT ![d] = "completed"]

\* container.process_document().execute(...) starts and enters EXTRACTING.
CallExecute(d) ==
    /\ pc[d] = "call"
    /\ TaskCallFits
    /\ Advance(d, "extracting")
    /\ Goto(d, "get")
    /\ UNCHANGED <<reqVars, rowVars, jobVars, host, total, done, stores>>

\* The call itself raises: a TypeError when it does not fit execute's
\* signature, or a failure to build the use case.
CallRaises(d) ==
    /\ pc[d] = "call"
    /\ Goto(d, "taskExcept")
    /\ UNCHANGED <<reqVars, rowVars, jobVars, host, ingJob, stores>>

TaskReturns(d) ==
    /\ pc[d] = "return"
    /\ EndAttempt(d, "complete")

\* Mutant of WriteDlq: off by one in the test for the final try.
WriteDlqEarly(d) ==
    /\ pc[d] = "taskExcept"
    /\ jobTry[d] >= MaxTries - 1
    /\ dlq' \in {dlq, dlq \cup {d}}
    /\ Goto(d, "raise")
    /\ UNCHANGED <<reqVars, rowVars, jobVars, host, ingJob, vectors, chunkStore>>

\* The final try is written to the dead-letter set; _write_to_dlq swallows
\* its own failures, so the write may also be missing.
WriteDlq(d) ==
    /\ pc[d] = "taskExcept"
    /\ jobTry[d] >= MaxTries
    /\ dlq' \in {dlq, dlq \cup {d}}
    /\ Goto(d, "raise")
    /\ UNCHANGED <<reqVars, rowVars, jobVars, host, ingJob, vectors, chunkStore>>

\* Mutant of SkipDlq: the task does not raise but enqueues itself anew, as a job
\* that has not been tried.
SkipDlqReenqueues(d) ==
    /\ pc[d] = "taskExcept"
    /\ jobTry[d] < MaxTries
    /\ jobState' = [jobState EXCEPT ![d] = "queued"]
    /\ jobTry' = [jobTry EXCEPT ![d] = 0]
    /\ Goto(d, "none")
    /\ host' = [host EXCEPT ![d] = NoWorker]
    /\ UNCHANGED <<reqVars, rowVars, ingJob, stores>>

\* Tries are left: the dead-letter set is not written.
SkipDlq(d) ==
    /\ pc[d] = "taskExcept"
    /\ jobTry[d] < MaxTries
    /\ Goto(d, "raise")
    /\ UNCHANGED <<reqVars, rowVars, jobVars, host, ingJob, stores>>

\* The exception goes on to ARQ, which schedules the retry.
TaskRaises(d) ==
    /\ pc[d] = "raise"
    /\ AfterRaise(d)

-----------------------------------------------------------------------------
(* ProcessDocumentUseCase.execute                                          *)

\* get_by_id finds the row.
HasRow(d) == status[d] # "absent"

\* get_by_id: no row and a blank document end the run, otherwise CHUNKING.
\* The status of the row is not looked at.
GetDocument(d) ==
    /\ pc[d] = "get"
    /\ \/ /\ ~HasRow(d)
          /\ JobFails(d)
          /\ Goto(d, "return")
       \/ /\ HasRow(d) /\ DocChunks(d) = 0
          /\ JobFails(d)
          /\ Goto(d, "blank")
       \/ /\ HasRow(d) /\ DocChunks(d) > 0
          /\ Advance(d, "chunking")
          /\ Goto(d, "chunk")
    /\ UNCHANGED <<reqVars, rowVars, jobVars, host, total, done, stores>>

\* mark_failed("Document content is empty") and update(document).
BlankUpdate(d) ==
    /\ pc[d] = "blank"
    /\ MarkFailed(d)
    /\ Goto(d, "return")
    /\ UNCHANGED <<reqVars, jobVars, host, ingJob, stores>>

\* save_many of the worker's chunk repository; upsert_many of Qdrant.
SaveMany(w, chunks) == chunkStore' = [chunkStore EXCEPT ![w] = @ \cup chunks]
UpsertMany(points) == vectors' = vectors \cup points

\* chunk(), the Chunk entities, save_many, record_progress(0, n), EMBEDDING.
Chunk(d) ==
    /\ pc[d] = "chunk"
    /\ ChunkBuilds
    /\ SaveMany(host[d], ChunkIdsOf(d, jobTry[d], DocChunks(d)))
    /\ RecordProgress(d, 0, DocChunks(d))
    /\ Advance(d, "embedding")
    /\ Goto(d, "embed")
    /\ UNCHANGED <<reqVars, rowVars, jobVars, host, dlq, vectors>>

\* Mutant of EmbedBatch: the loop ends after the first batch.
EmbedOneBatch(d) ==
    /\ pc[d] = "embed"
    /\ done' = [done EXCEPT ![d] = MinOf(done[d] + BatchSize, total[d])]
    /\ Advance(d, "storing")
    /\ Goto(d, "store")
    /\ UNCHANGED <<reqVars, rowVars, jobVars, host, total, stores>>

\* One embed_batch call and its record_progress; the last one enters STORING.
EmbedBatch(d) ==
    LET processed == MinOf(done[d] + BatchSize, total[d]) IN
    /\ pc[d] = "embed"
    /\ done' = [done EXCEPT ![d] = processed]
    /\ IF processed < total[d]
       THEN UNCHANGED <<stage, pc>>
       ELSE Advance(d, "storing") /\ Goto(d, "store")
    /\ UNCHANGED <<reqVars, rowVars, jobVars, host, total, stores>>

\* upsert_many of the chunks that have an embedding; then job.complete() and
\* document.mark_completed(), both in memory.
Store(d) ==
    /\ pc[d] = "store"
    /\ UpsertMany(ChunkIdsOf(d, jobTry[d], done[d]))
    /\ JobCompletes(d)
    /\ Goto(d, "update")
    /\ UNCHANGED <<reqVars, rowVars, jobVars, host, total, done, dlq, chunkStore>>

\* Mutant of UpdateCompleted: the update is not made.
UpdateCompletedSkipped(d) ==
    /\ pc[d] = "update"
    /\ Goto(d, "finish")
    /\ UNCHANGED <<reqVars, rowVars, jobVars, host, ingJob, stores>>

UpdateCompleted(d) ==
    /\ pc[d] = "update"
    /\ MarkCompleted(d)
    /\ Goto(d, "finish")
    /\ UNCHANGED <<reqVars, jobVars, host, ingJob, stores>>

Finish(d) ==
    /\ pc[d] = "finish"
    /\ Goto(d, "return")
    /\ UNCHANGED <<reqVars, rowVars, jobVars, host, ingJob, stores>>

\* Anything in the try block raises: job.fail(), whatever its status was.
StageRaises(d) ==
    /\ pc[d] \in PipelinePcs
    /\ JobFails(d)
    /\ Goto(d, "exceptGet")
    /\ UNCHANGED <<reqVars, rowVars, jobVars, host, total, done, stores>>

\* The except block re-reads the row; a failure of the read is swallowed.
ExceptGet(d) ==
    /\ pc[d] = "exceptGet"
    /\ \/ HasRow(d) /\ Goto(d, "exceptUpdate")
       \/ Goto(d, "return")
    /\ UNCHANGED <<reqVars, rowVars, jobVars, host, ingJob, stores>>

\* mark_failed and update; a failure of the update is swallowed.  Only this
\* attempt writes the row, so the fields it read are the ones it writes back.
ExceptUpdate(d) ==
    /\ pc[d] = "exceptUpdate"
    /\ \/ MarkFailed(d)
       \/ UNCHANGED rowVars
    /\ Goto(d, "return")
    /\ UNCHANGED <<reqVars, jobVars, host, ingJob, stores>>

-----------------------------------------------------------------------------
RequestStep(r) ==
    \/ Submit(r) \/ FindDuplicate(r) \/ Save(r) \/ MarkProcessing(r)
    \/ Enqueue(r) \/ Respond(r) \/ RequestFails(r)

Pipeline(d) ==
    \/ GetDocument(d) \/ BlankUpdate(d) \/ Chunk(d) \/ EmbedBatch(d)
    \/ Store(d) \/ UpdateCompleted(d) \/ Finish(d) \/ StageRaises(d)
    \/ ExceptGet(d) \/ ExceptUpdate(d)

Task(d) ==
    \/ CallExecute(d) \/ CallRaises(d) \/ TaskReturns(d)
    \/ WriteDlq(d) \/ SkipDlq(d) \/ TaskRaises(d)

Claim(d) == ArqExhausted(d) \/ \E w \in Workers : WorkerTakes(d, w)

Next ==
    \/ \E r \in Requests : RequestStep(r) \/ DeleteDocument(r)
    \/ \E d \in Requests : Claim(d) \/ Task(d) \/ Pipeline(d) \/ JobTimeout(d)
    \/ \E w \in Workers : WorkerCrash(w)

Spec == Init /\ [][Next]_vars

\* A running attempt moves on and the workers keep polling the queue; nothing
\* is assumed of clients, of failures or of timeouts.
Fairness == \A d \in Requests : WF_vars(Claim(d)) /\ WF_vars(Task(d) \/ Pipeline(d))

FairSpec == Spec /\ Fairness

-----------------------------------------------------------------------------
(* Properties that hold                                                    *)

Answers == [kind : {"none", "processing", "duplicate", "error"}, doc : Requests]

JobStates == {"none", "queued", "running", "complete", "failed"}

\* Every variable has its type; job_try stays within max_tries.
TypeOK ==
    /\ reqPc \in [Requests -> ReqPcs]
    /\ tenant \in [Requests -> Tenants]
    /\ content \in [Requests -> Contents]
    /\ seen \in [Requests -> SUBSET Requests]
    /\ answer \in [Requests -> Answers]
    /\ status \in [Requests -> DocumentStatus]
    /\ chunkCount \in [Requests -> Nat]
    /\ hasError \in [Requests -> BOOLEAN]
    /\ jobState \in [Requests -> JobStates]
    /\ jobTry \in [Requests -> 0 .. MaxTries]
    /\ pc \in [Requests -> AttemptPcs \cup {"none"}]
    /\ host \in [Requests -> Workers \cup {NoWorker}]
    /\ stage \in [Requests -> IngestionStatus]
    /\ total \in [Requests -> Nat]
    /\ done \in [Requests -> Nat]
    /\ dlq \in SUBSET Requests
    /\ vectors \in SUBSET (Requests \X Tries \X (Nat \ {0}))
    /\ chunkStore \in [Workers -> SUBSET (Requests \X Tries \X (Nat \ {0}))]

\* A document whose row says COMPLETED is not blank, has the chunk_count of its
\* content, and for some attempt every one of those chunks is in Qdrant: whatever crashes,
\* retries and timeouts came between embed_batch, upsert_many and update.
\* (knowledge-base/05-concurrency-and-consistency.md:171 expects less: COMPLETED
\* while the chunks are not yet searchable.  Up to the visibility of an
\* acknowledged upsert inside Qdrant, the code gives more.)
CompletedIsSearchable ==
    \A d \in Requests : status[d] = "completed" =>
        /\ DocChunks(d) > 0
        /\ chunkCount[d] = DocChunks(d)
        /\ \E t \in Tries : ChunkIdsOf(d, t, DocChunks(d)) \subseteq vectors

\* error_message is set on exactly the FAILED rows, also when the worker dies
\* after the except block and the next try completes the document, or dies
\* after the update to COMPLETED and the next try fails.
ErrorIffFailed == \A d \in Requests : hasError[d] <=> status[d] = "failed"

\* One tenant has two rows with one content only if their requests overlapped:
\* neither row was there, in whatever status, when the other's request looked.
DuplicatesOverlap ==
    \A d, e \in Requests :
        /\ d # e /\ status[d] # "absent" /\ status[e] # "absent"
        /\ tenant[d] = tenant[e] /\ content[d] = content[e]
        => d \notin seen[e]

\* A client that was answered "processing" has a job in ARQ, and from then on
\* its document is not PENDING.
ProcessingAnswerIsBacked ==
    \A r \in Requests : answer[r].kind = "processing" =>
        jobState[r] # "none" /\ status[r] # "pending"

\* A dead-lettered document has used its last try and its job never counts as
\* complete: nothing in the dead-letter set is still to be run.
DeadLetterIsFinal ==
    \A d \in dlq : jobTry[d] = MaxTries /\ jobState[d] # "complete"

\* No advance_status of the pipeline is ever rejected: each attempt starts from
\* a fresh QUEUED job and reaches each stage from the one before it.
NoRejectedAdvance ==
    \A d \in Requests :
        /\ pc[d] = "call"  => "extracting" \in ValidTransitions[stage[d]]
        /\ pc[d] = "get"   => "chunking" \in ValidTransitions[stage[d]]
        /\ pc[d] = "chunk" => "embedding" \in ValidTransitions[stage[d]]
        /\ pc[d] = "embed" => "storing" \in ValidTransitions[stage[d]]

\* A job ARQ records as complete whose IngestionJob says COMPLETED left its row
\* COMPLETED, unless the row was deleted.
CompletedJobTold ==
    \A d \in Requests :
        jobState[d] = "complete" /\ stage[d] = "completed" =>
            status[d] \in {"completed", "absent"}

\* The documents a search can find whole.
Searchable == {d \in Requests :
    /\ DocChunks(d) > 0
    /\ \E t \in Tries : ChunkIdsOf(d, t, DocChunks(d)) \subseteq vectors}

Lifecycle == INSTANCE DocumentLifecycle WITH Docs <- Requests, searchable <- Searchable

\* The API, ARQ and the workers together implement the lifecycle a client is
\* promised.  In particular the API's update to PROCESSING comes before the
\* enqueue, so it never overwrites what a worker wrote, and a row becomes
\* COMPLETED only after the upsert of all its chunks.
ImplementsLifecycle == Lifecycle!Spec

\* A job that was enqueued is eventually complete or failed in ARQ: crashes
\* and timeouts use up tries, every other path of the task comes to an end.
JobsSettle ==
    \A d \in Requests :
        jobState[d] \in {"queued", "running"} ~> jobState[d] \in {"complete", "failed"}
=============================================================================
