--------------------------- MODULE IngestionProofs ---------------------------
(***************************************************************************)
(* Proofs, for any number of requests, tenants, contents and workers and   *)
(* any settings, of the safety properties of Ingestion.                    *)
(***************************************************************************)
EXTENDS Ingestion, TLAPS

USE DEF inputs, reqVars, rowVars, jobVars, ingJob, attVars, stores, workVars,
        MarkCompleted, MarkFailed, HasRow, RecordProgress, JobFails, JobCompletes,
        SaveMany, UpsertMany

\* A job is running exactly while an attempt at it has a place in the code.
AttemptInv ==
    \A d \in Requests :
        /\ pc[d] # "none" <=> jobState[d] = "running"
        /\ pc[d] # "none" => jobTry[d] \in Tries
        /\ pc[d] # "none" <=> host[d] \in Workers

\* The API has written the row for the last time before there is a job.
RequestInv ==
    \A r \in Requests :
        /\ reqPc[r] \in {"idle", "find", "save", "mark", "enqueue"} => jobState[r] = "none"
        /\ reqPc[r] \in {"idle", "find", "save"} => status[r] = "absent"
        /\ reqPc[r] = "mark" => status[r] \in {"absent", "pending"}
        /\ reqPc[r] = "enqueue" => status[r] # "pending"
        /\ reqPc[r] = "respond" => jobState[r] # "none"
        /\ jobState[r] = "none" => status[r] \notin {"completed", "failed"}
        /\ jobState[r] # "none" => status[r] # "pending"

\* How far the chunks of the running attempt have got.
ProgressInv ==
    \A d \in Requests :
        /\ pc[d] \in {"chunk", "embed", "store", "update"} => DocChunks(d) > 0
        /\ pc[d] = "embed" => total[d] = DocChunks(d) /\ done[d] <= total[d]
        /\ pc[d] = "store" => total[d] = DocChunks(d) /\ done[d] = total[d]
        /\ pc[d] = "update" =>
              total[d] = DocChunks(d) /\ ChunkIdsOf(d, jobTry[d], DocChunks(d)) \subseteq vectors

\* The status of the IngestionJob at each await.
StageInv ==
    \A d \in Requests :
        /\ pc[d] = "call"   => stage[d] = "queued"
        /\ pc[d] = "get"    => stage[d] = "extracting"
        /\ pc[d] = "chunk"  => stage[d] = "chunking"
        /\ pc[d] = "embed"  => stage[d] = "embedding"
        /\ pc[d] = "store"  => stage[d] = "storing"
        /\ pc[d] \in {"blank"} \cup ExceptPcs => stage[d] = "failed"
        /\ pc[d] \in {"finish", "return"} /\ stage[d] = "completed" =>
              status[d] \in {"completed", "absent"}

\* A dead-lettered job is raising, waits to be given up, or has failed.
DeadLetterInv ==
    \A d \in dlq : /\ jobTry[d] = MaxTries
                   /\ pc[d] \in {"raise", "none"}
                   /\ jobState[d] # "complete"

IndInv ==
    /\ TypeOK
    /\ AttemptInv
    /\ RequestInv
    /\ ProgressInv
    /\ StageInv
    /\ DeadLetterInv
    /\ CompletedIsSearchable
    /\ ErrorIffFailed
    /\ ProcessingAnswerIsBacked
    /\ CompletedJobTold

\* Init gives the values of all variables, so every part holds by inspection.
LEMMA InitInv == Init => IndInv
<1> SUFFICES ASSUME Init PROVE IndInv
  OBVIOUS
<1> USE ConstantsAssumption DEF Init
<1>1. TypeOK
  BY DEF TypeOK, ReqPcs, Answers, JobStates, DocumentStatus, IngestionStatus
<1>2. AttemptInv /\ RequestInv /\ ProgressInv /\ StageInv /\ DeadLetterInv
  BY DEF AttemptInv, RequestInv, ProgressInv, StageInv, DeadLetterInv, ExceptPcs
<1>3. CompletedIsSearchable /\ ErrorIffFailed
  BY DEF CompletedIsSearchable, ErrorIffFailed
<1>4. ProcessingAnswerIsBacked /\ CompletedJobTold
  BY DEF ProcessingAnswerIsBacked, CompletedJobTold
<1> QED
  BY <1>1, <1>2, <1>3, <1>4 DEF IndInv

\* The steps of the API that only move on, and the deletion of a row.
LEMMA RequestSteps ==
    ASSUME IndInv, NEW r \in Requests,
           Submit(r) \/ Save(r) \/ Enqueue(r) \/ Respond(r) \/ RequestFails(r) \/ DeleteDocument(r)
    PROVE  IndInv'
<1> USE ConstantsAssumption
    DEF IndInv, TypeOK, AttemptInv, RequestInv, ProgressInv, StageInv, DeadLetterInv,
        CompletedIsSearchable, ErrorIffFailed, 
        ProcessingAnswerIsBacked, CompletedJobTold, ReqGoto, ReqPcs, Answers, JobStates,
        DocumentStatus, DocChunks, ExceptPcs
<1>1. CASE Submit(r)
  BY <1>1 DEF Submit
<1>2. CASE Save(r)
  BY <1>2 DEF Save
<1>3. CASE Enqueue(r)
  BY <1>3 DEF Enqueue
<1>4. CASE Respond(r)
  BY <1>4 DEF Respond
<1>5. CASE RequestFails(r)
  BY <1>5 DEF RequestFails
<1>6. CASE DeleteDocument(r)
  BY <1>6 DEF DeleteDocument
<1> QED
  BY <1>1, <1>2, <1>3, <1>4, <1>5, <1>6

\* find_duplicate answers only with a document that matches tenant and content.
LEMMA FindDuplicateStep ==
    ASSUME IndInv, NEW r \in Requests, FindDuplicate(r) PROVE IndInv'
<1> USE DEF IndInv, TypeOK, FindDuplicate, ReqGoto
<1>1. TypeOK'
  <2>1. \A d \in Duplicates(r) : [kind |-> "duplicate", doc |-> d] \in Answers
    BY DEF Answers, Duplicates
  <2>2. reqPc' \in [Requests -> ReqPcs]
    BY DEF ReqPcs
  <2>3. answer' \in [Requests -> Answers]
    BY <2>1
  <2> QED
    BY <2>2, <2>3
<1>2. AttemptInv' /\ RequestInv' /\ ProgressInv' /\ StageInv' /\ DeadLetterInv'
  BY DEF AttemptInv, RequestInv, ProgressInv, StageInv, DeadLetterInv, DocChunks
<1>3. CompletedIsSearchable' /\ ErrorIffFailed' /\ CompletedJobTold'
  BY DEF CompletedIsSearchable, ErrorIffFailed, CompletedJobTold, DocChunks
<1>4. ProcessingAnswerIsBacked'
  <2>1. CASE Duplicates(r) = {} /\ UNCHANGED answer
    BY <2>1 DEF ProcessingAnswerIsBacked
  <2>2. ASSUME NEW d \in Duplicates(r),
               answer' = [answer EXCEPT ![r] = [kind |-> "duplicate", doc |-> d]]
        PROVE  ProcessingAnswerIsBacked'
    BY <2>2 DEF ProcessingAnswerIsBacked, Duplicates
  <2> QED
    BY <2>1, <2>2
<1> QED
  BY <1>1, <1>2, <1>3, <1>4

\* An UPDATE of row d that keeps what the row is known to satisfy.  The four
\* writers of the table differ in the status they write and in where they are.
LEMMA UpdateRowType ==
    ASSUME TypeOK, NEW d \in Requests, NEW s \in DocumentStatus, NEW n \in Nat,
           NEW e \in BOOLEAN, UpdateRow(d, s, n, e)
    PROVE  /\ status' \in [Requests -> DocumentStatus]
           /\ chunkCount' \in [Requests -> Nat]
           /\ hasError' \in [Requests -> BOOLEAN]
           /\ \A x \in Requests : x # d =>
                 /\ status'[x] = status[x]
                 /\ chunkCount'[x] = chunkCount[x]
                 /\ hasError'[x] = hasError[x]
           /\ status[d] = "absent" =>
                 status'[d] = "absent" /\ hasError'[d] = hasError[d]
           /\ status[d] # "absent" =>
                 status'[d] = s /\ chunkCount'[d] = n /\ hasError'[d] = e
<1>1. CASE status[d] = "absent"
  BY <1>1 DEF UpdateRow, TypeOK
<1>2. CASE status[d] # "absent"
  BY <1>2 DEF UpdateRow, TypeOK
<1> QED
  BY <1>1, <1>2

\* The API's own update, made while there is no job.
LEMMA MarkProcessingStep ==
    ASSUME IndInv, NEW r \in Requests, MarkProcessing(r) PROVE IndInv'
<1> USE DEF IndInv, MarkProcessing, ReqGoto
<1>1. /\ status' \in [Requests -> DocumentStatus]
      /\ chunkCount' \in [Requests -> Nat]
      /\ hasError' \in [Requests -> BOOLEAN]
      /\ \A x \in Requests : x # r =>
            status'[x] = status[x] /\ chunkCount'[x] = chunkCount[x] /\ hasError'[x] = hasError[x]
      /\ status'[r] \in {"absent", "processing"}
      /\ status[r] = "absent" => status'[r] = "absent"
      /\ hasError'[r] = FALSE
  BY UpdateRowType DEF DocumentStatus, ErrorIffFailed, TypeOK
<1>2. TypeOK'
  BY <1>1 DEF TypeOK, ReqPcs
<1>3. AttemptInv' /\ RequestInv' /\ ProgressInv' /\ StageInv' /\ DeadLetterInv'
  BY <1>1 DEF TypeOK, AttemptInv, RequestInv, ProgressInv, StageInv, DeadLetterInv, DocChunks, ExceptPcs
<1>4. CompletedIsSearchable' /\ ErrorIffFailed' /\ CompletedJobTold'
  BY <1>1 DEF TypeOK, CompletedIsSearchable, ErrorIffFailed, CompletedJobTold, RequestInv, DocChunks
<1>5. ProcessingAnswerIsBacked'
  BY <1>1 DEF TypeOK, ProcessingAnswerIsBacked
<1> QED
  BY <1>2, <1>3, <1>4, <1>5

\* The worker's updates: FAILED from the blank check and the except block,
\* COMPLETED once the vectors are stored.
LEMMA WorkerUpdateStep ==
    ASSUME IndInv, NEW d \in Requests, NEW s \in {"completed", "failed"}, NEW n \in Nat,
           NEW e \in BOOLEAN, e <=> s = "failed", NEW l \in {"return", "finish"},
           UpdateRow(d, s, n, e), Goto(d, l),
           UNCHANGED <<reqVars, jobVars, host, ingJob, stores>>,
           \/ s = "failed" /\ pc[d] \in {"blank", "exceptUpdate"}
           \/ s = "completed" /\ pc[d] = "update" /\ n = DocChunks(d)
    PROVE  IndInv'
<1> USE DEF IndInv, Goto
<1>1. /\ status' \in [Requests -> DocumentStatus]
      /\ chunkCount' \in [Requests -> Nat]
      /\ hasError' \in [Requests -> BOOLEAN]
      /\ \A x \in Requests : x # d =>
            status'[x] = status[x] /\ chunkCount'[x] = chunkCount[x] /\ hasError'[x] = hasError[x]
      /\ status'[d] \in {"absent", s}
      /\ status'[d] = s => chunkCount'[d] = n
      /\ hasError'[d] <=> status'[d] = "failed"
  <2>1. CASE status[d] = "absent"
    BY <2>1, UpdateRowType DEF DocumentStatus, ErrorIffFailed, TypeOK
  <2>2. CASE status[d] # "absent"
    BY <2>2, UpdateRowType DEF DocumentStatus
  <2> QED
    BY <2>1, <2>2
<1>2. TypeOK'
  BY <1>1 DEF TypeOK, AttemptPcs, PipelinePcs, ExceptPcs, TaskPcs
<1>3. AttemptInv' /\ RequestInv' /\ ProgressInv' /\ DeadLetterInv'
  BY <1>1 DEF TypeOK, AttemptInv, RequestInv, ProgressInv, DeadLetterInv, DocChunks
<1>4. StageInv' /\ CompletedJobTold'
  BY <1>1 DEF TypeOK, StageInv, CompletedJobTold, AttemptInv, ExceptPcs
<1>5. CompletedIsSearchable'
  BY <1>1 DEF TypeOK, CompletedIsSearchable, ProgressInv, AttemptInv, DocChunks
<1>6. ErrorIffFailed'
  <2>1. \A x \in Requests : x # d => (hasError'[x] <=> status'[x] = "failed")
    BY <1>1 DEF ErrorIffFailed
  <2> QED
    BY <1>1, <2>1 DEF ErrorIffFailed
<1>7. ProcessingAnswerIsBacked'
  BY <1>1 DEF TypeOK, ProcessingAnswerIsBacked, AttemptInv
<1> QED
  BY <1>2, <1>3, <1>4, <1>5, <1>6, <1>7

LEMMA UpdateSteps ==
    ASSUME IndInv, NEW d \in Requests,
           BlankUpdate(d) \/ UpdateCompleted(d) \/ ExceptUpdate(d)
    PROVE  IndInv'
<1> USE DEF IndInv
<1>1. CASE BlankUpdate(d)
  BY <1>1, WorkerUpdateStep DEF BlankUpdate, TypeOK
<1>2. CASE UpdateCompleted(d)
  <2>1. total[d] \in Nat /\ total[d] = DocChunks(d)
    BY <1>2 DEF UpdateCompleted, TypeOK, ProgressInv
  <2> QED
    BY <1>2, <2>1, WorkerUpdateStep DEF UpdateCompleted
<1>3. CASE ExceptUpdate(d) /\ UpdateRow(d, "failed", chunkCount[d], TRUE)
  BY <1>3, WorkerUpdateStep DEF ExceptUpdate, TypeOK
<1>4. CASE ExceptUpdate(d) /\ UNCHANGED rowVars
  <2> USE <1>4 DEF ExceptUpdate, Goto, TypeOK
  <2>1. TypeOK' /\ AttemptInv' /\ RequestInv' /\ ProgressInv' /\ DeadLetterInv'
    BY DEF AttemptInv, RequestInv, ProgressInv, DeadLetterInv, DocChunks,
           AttemptPcs, PipelinePcs, ExceptPcs, TaskPcs
  <2>2. StageInv' /\ CompletedJobTold' /\ CompletedIsSearchable' /\ ErrorIffFailed'
    BY DEF StageInv, CompletedJobTold, CompletedIsSearchable, ErrorIffFailed, DocChunks, ExceptPcs
  <2>3. ProcessingAnswerIsBacked'
    BY DEF ProcessingAnswerIsBacked
  <2> QED
    BY <2>1, <2>2, <2>3
<1> QED
  BY <1>1, <1>2, <1>3, <1>4 DEF ExceptUpdate

\* Ending an attempt: only TaskReturns, from "return", leaves the job complete.
LEMMA EndAttemptStep ==
    ASSUME IndInv, NEW d \in Requests, NEW s \in {"queued", "failed", "complete"},
           EndAttempt(d, s), pc[d] \in AttemptPcs, s = "complete" => pc[d] = "return"
    PROVE  IndInv'
<1> USE ConstantsAssumption DEF IndInv, TypeOK, EndAttempt
<1>1. TypeOK' /\ AttemptInv' /\ RequestInv'
  BY DEF AttemptInv, RequestInv, JobStates, AttemptPcs, PipelinePcs, ExceptPcs, TaskPcs
<1>2. ProgressInv' /\ CompletedIsSearchable'
  BY DEF ProgressInv, CompletedIsSearchable, DocChunks
<1>3. StageInv' /\ CompletedJobTold'
  BY DEF StageInv, CompletedJobTold, ExceptPcs
<1>4. DeadLetterInv'
  BY DEF DeadLetterInv
<1>5. ErrorIffFailed' /\ ProcessingAnswerIsBacked'
  BY DEF ErrorIffFailed, ProcessingAnswerIsBacked
<1> QED
  BY <1>1, <1>2, <1>3, <1>4, <1>5

LEMMA EndSteps ==
    ASSUME IndInv, NEW d \in Requests, JobTimeout(d) \/ TaskReturns(d) \/ TaskRaises(d)
    PROVE  IndInv'
BY EndAttemptStep DEF JobTimeout, TaskReturns, TaskRaises, AfterRaise, AttemptPcs, TaskPcs

\* Claiming a job, giving it up, and losing a whole worker process.
LEMMA ArqSteps ==
    ASSUME IndInv,
           \/ \E d \in Requests : Claim(d)
           \/ \E w \in Workers : WorkerCrash(w)
    PROVE  IndInv'
<1> USE ConstantsAssumption DEF IndInv, TypeOK
<1>1. ASSUME NEW d \in Requests, NEW w \in Workers, WorkerTakes(d, w) PROVE IndInv'
  <2> USE <1>1 DEF WorkerTakes, StartAttempt, FreshJob
  <2>1. TypeOK' /\ AttemptInv' /\ RequestInv'
    BY DEF AttemptInv, RequestInv, JobStates, IngestionStatus, Tries,
           AttemptPcs, PipelinePcs, ExceptPcs, TaskPcs
  <2>2. ProgressInv' /\ CompletedIsSearchable' /\ DeadLetterInv'
    BY DEF AttemptInv, ProgressInv, CompletedIsSearchable, DeadLetterInv, DocChunks
  <2>3. StageInv' /\ CompletedJobTold'
    BY DEF StageInv, CompletedJobTold, ExceptPcs
  <2>4. ErrorIffFailed' /\ ProcessingAnswerIsBacked'
    BY DEF ErrorIffFailed, ProcessingAnswerIsBacked
  <2> QED
    BY <2>1, <2>2, <2>3, <2>4
<1>2. ASSUME NEW d \in Requests, ArqExhausted(d) PROVE IndInv'
  <2> USE <1>2 DEF ArqExhausted
  <2>1. TypeOK' /\ AttemptInv' /\ RequestInv'
    BY DEF AttemptInv, RequestInv, JobStates
  <2>2. ProgressInv' /\ CompletedIsSearchable' /\ DeadLetterInv' /\ StageInv'
    BY DEF ProgressInv, CompletedIsSearchable, DeadLetterInv, StageInv, DocChunks
  <2>3. CompletedJobTold' /\ ErrorIffFailed' /\ ProcessingAnswerIsBacked'
    BY DEF CompletedJobTold, ErrorIffFailed, ProcessingAnswerIsBacked
  <2> QED
    BY <2>1, <2>2, <2>3
<1>3. ASSUME NEW w \in Workers, WorkerCrash(w) PROVE IndInv'
  <2> USE <1>3 DEF WorkerCrash, Running
  <2>1. TypeOK' /\ AttemptInv' /\ RequestInv'
    BY DEF AttemptInv, RequestInv, JobStates, AttemptPcs
  <2>2. ProgressInv' /\ CompletedIsSearchable' /\ DeadLetterInv' /\ StageInv'
    BY DEF ProgressInv, CompletedIsSearchable, DeadLetterInv, StageInv, DocChunks, ExceptPcs
  <2>3. CompletedJobTold' /\ ErrorIffFailed' /\ ProcessingAnswerIsBacked'
    BY DEF CompletedJobTold, ErrorIffFailed, ProcessingAnswerIsBacked
  <2> QED
    BY <2>1, <2>2, <2>3
<1> QED
  BY <1>1, <1>2, <1>3 DEF Claim

\* The task around the pipeline: the call, and the dead-letter write.
LEMMA TaskSteps ==
    ASSUME IndInv, NEW d \in Requests,
           CallExecute(d) \/ CallRaises(d) \/ WriteDlq(d) \/ SkipDlq(d)
    PROVE  IndInv'
<1> USE ConstantsAssumption
    DEF IndInv, TypeOK, Goto, Advance, CallExecute, CallRaises, WriteDlq, SkipDlq
<1>1. TypeOK'
  BY DEF IngestionStatus, AttemptPcs, PipelinePcs, ExceptPcs, TaskPcs
<1>2. AttemptInv' /\ RequestInv' /\ ProgressInv' /\ CompletedIsSearchable'
  BY DEF AttemptInv, RequestInv, ProgressInv, CompletedIsSearchable, DocChunks
<1>3. StageInv' /\ CompletedJobTold'
  BY DEF AttemptInv, StageInv, CompletedJobTold, ExceptPcs
<1>4. DeadLetterInv'
  BY DEF AttemptInv, DeadLetterInv
<1>5. ErrorIffFailed' /\ ProcessingAnswerIsBacked'
  BY DEF ErrorIffFailed, ProcessingAnswerIsBacked
<1> QED
  BY <1>1, <1>2, <1>3, <1>4, <1>5

LEMMA MinOfBound ==
    ASSUME NEW a \in Nat, NEW b \in Nat
    PROVE  MinOf(a, b) <= b /\ (MinOf(a, b) < b \/ MinOf(a, b) = b)
BY DEF MinOf

\* The stages of execute() that leave the documents table alone.
LEMMA StageSteps ==
    ASSUME IndInv, NEW d \in Requests,
           \/ GetDocument(d) \/ Chunk(d) \/ EmbedBatch(d) \/ Store(d)
           \/ Finish(d) \/ StageRaises(d) \/ ExceptGet(d)
    PROVE  IndInv'
<1> USE ConstantsAssumption DEF IndInv, TypeOK, Goto, Advance
<1>1. /\ pc[d] \in PipelinePcs \cup {"exceptGet"}
      /\ \E l \in AttemptPcs : pc' = [pc EXCEPT ![d] = l]
      /\ UNCHANGED <<reqVars, rowVars, jobVars, host, dlq>>
  BY DEF GetDocument, Chunk, EmbedBatch, Store, Finish, StageRaises, ExceptGet,
         AttemptPcs, PipelinePcs, ExceptPcs, TaskPcs
<1>2. DocChunks(d) \in Nat /\ jobTry[d] \in Tries /\ host[d] \in Workers
  BY <1>1 DEF AttemptInv, DocChunks, PipelinePcs
<1>3. TypeOK'
  <2>1. stage' \in [Requests -> IngestionStatus]
    BY DEF GetDocument, Chunk, EmbedBatch, Store, Finish, StageRaises, ExceptGet, IngestionStatus
  <2>2. total' \in [Requests -> Nat] /\ done' \in [Requests -> Nat]
    BY <1>2 DEF GetDocument, Chunk, EmbedBatch, Store, Finish, StageRaises, ExceptGet, MinOf
  <2>3. /\ vectors' \in SUBSET (Requests \X Tries \X (Nat \ {0}))
        /\ chunkStore' \in [Workers -> SUBSET (Requests \X Tries \X (Nat \ {0}))]
    BY <1>2 DEF GetDocument, Chunk, EmbedBatch, Store, Finish, StageRaises, ExceptGet, ChunkIdsOf
  <2>4. pc' \in [Requests -> AttemptPcs \cup {"none"}]
    BY <1>1
  <2> QED
    BY <1>1, <2>1, <2>2, <2>3, <2>4
<1>4. AttemptInv' /\ RequestInv' /\ DeadLetterInv'
  BY <1>1 DEF AttemptInv, RequestInv, DeadLetterInv, AttemptPcs, PipelinePcs, ExceptPcs, TaskPcs
<1>5. ProgressInv'
  <2> USE <1>1 DEF ProgressInv, DocChunks
  <2>1. CASE GetDocument(d) \/ Finish(d) \/ StageRaises(d) \/ ExceptGet(d)
    BY <2>1 DEF GetDocument, Finish, StageRaises, ExceptGet
  <2>2. CASE Chunk(d)
    BY <2>2, <1>2 DEF Chunk
  <2>3. CASE EmbedBatch(d)
    <3>1. /\ UNCHANGED <<total, content, vectors, jobTry>>
          /\ total[d] = DocChunks(d) /\ total[d] \in Nat /\ total[d] > 0
          /\ done' = [done EXCEPT ![d] = MinOf(done[d] + BatchSize, total[d])]
      BY <2>3 DEF EmbedBatch
    <3>2. /\ done'[d] = MinOf(done[d] + BatchSize, total[d])
          /\ done'[d] <= total[d] /\ (done'[d] < total[d] \/ done'[d] = total[d])
      <4>1. done'[d] = MinOf(done[d] + BatchSize, total[d])
        BY <3>1
      <4>2. done[d] + BatchSize \in Nat
        OBVIOUS
      <4> QED
        BY <3>1, <4>1, <4>2, MinOfBound
    <3>3. \A x \in Requests : x # d => pc'[x] = pc[x] /\ done'[x] = done[x]
      BY <3>1
    <3>4. CASE done'[d] < total[d]
      <4>1. UNCHANGED <<stage, pc>> /\ pc[d] = "embed"
        BY <2>3, <3>2, <3>4 DEF EmbedBatch
      <4> QED
        BY <3>1, <3>2, <3>3, <4>1
    <3>5. CASE done'[d] = total[d]
      <4>1. pc'[d] = "store"
        BY <2>3, <3>2, <3>5 DEF EmbedBatch
      <4> QED
        BY <3>1, <3>3, <3>5, <4>1
    <3> QED
      BY <3>2, <3>4, <3>5
  <2>4. CASE Store(d)
    BY <2>4 DEF Store
  <2> QED
    BY <2>1, <2>2, <2>3, <2>4
<1>6. StageInv' /\ CompletedJobTold'
  BY <1>1 DEF GetDocument, Chunk, EmbedBatch, Store, Finish, StageRaises, ExceptGet,
              AttemptInv, StageInv, CompletedJobTold, ExceptPcs
<1>7. CompletedIsSearchable'
  <2>1. vectors \subseteq vectors'
    BY DEF GetDocument, Chunk, EmbedBatch, Store, Finish, StageRaises, ExceptGet
  <2> QED
    BY <1>1, <2>1 DEF CompletedIsSearchable, DocChunks
<1>8. ErrorIffFailed' /\ ProcessingAnswerIsBacked'
  BY <1>1 DEF ErrorIffFailed, ProcessingAnswerIsBacked
<1> QED
  BY <1>3, <1>4, <1>5, <1>6, <1>7, <1>8

LEMMA NextInv == IndInv /\ [Next]_vars => IndInv'
<1> SUFFICES ASSUME IndInv, [Next]_vars PROVE IndInv'
  OBVIOUS
<1>1. ASSUME NEW r \in Requests, RequestStep(r) \/ DeleteDocument(r) PROVE IndInv'
  BY <1>1, RequestSteps, FindDuplicateStep, MarkProcessingStep DEF RequestStep
<1>2. ASSUME NEW d \in Requests, Task(d) \/ Pipeline(d) \/ JobTimeout(d) PROVE IndInv'
  BY <1>2, UpdateSteps, EndSteps, TaskSteps, StageSteps DEF Task, Pipeline
<1>3. CASE (\E d \in Requests : Claim(d)) \/ (\E w \in Workers : WorkerCrash(w))
  BY <1>3, ArqSteps
<1>4. CASE UNCHANGED vars
  <2> USE <1>4 DEF IndInv, vars
  <2>1. TypeOK' /\ AttemptInv' /\ RequestInv' /\ ProgressInv' /\ StageInv' /\ DeadLetterInv'
    BY DEF TypeOK, AttemptInv, RequestInv, ProgressInv, StageInv, DeadLetterInv, DocChunks
  <2>2. /\ CompletedIsSearchable' /\ ErrorIffFailed'
        /\ ProcessingAnswerIsBacked' /\ CompletedJobTold'
    BY DEF CompletedIsSearchable, ErrorIffFailed, 
           ProcessingAnswerIsBacked, CompletedJobTold, DocChunks
  <2> QED
    BY <2>1, <2>2
<1> QED
  BY <1>1, <1>2, <1>3, <1>4 DEF Next

\* The inductive invariant holds in every reachable state.
THEOREM Invariance == Spec => []IndInv
BY InitInv, NextInv, PTL DEF Spec

\* Type correctness, and that no job is tried more than max_tries times.
THEOREM TypeCorrect == Spec => []TypeOK
<1>1. IndInv => TypeOK
  BY DEF IndInv
<1> QED
  BY <1>1, Invariance, PTL

\* COMPLETED in PostgreSQL implies that all the chunks are in Qdrant, for any
\* interleaving of workers, crashes, timeouts and retries.
THEOREM CompletionIsSearchable == Spec => []CompletedIsSearchable
<1>1. IndInv => CompletedIsSearchable
  BY DEF IndInv
<1> QED
  BY <1>1, Invariance, PTL

\* The steps that write the documents table.
RowWriter(d) ==
    \/ Save(d) \/ MarkProcessing(d) \/ DeleteDocument(d)
    \/ BlankUpdate(d) \/ UpdateCompleted(d) \/ ExceptUpdate(d)

LEMMA OnlyWriters ==
    ASSUME [Next]_vars, status' # status
    PROVE  \E d \in Requests : RowWriter(d)
BY DEF RowWriter, Next, RequestStep, Task, Pipeline, Claim, vars,
       Submit, FindDuplicate, Enqueue, Respond, RequestFails,
       WorkerTakes, StartAttempt, ArqExhausted, EndAttempt, AfterRaise, JobTimeout, WorkerCrash,
       CallExecute, CallRaises, TaskReturns, WriteDlq, SkipDlq, TaskRaises,
       GetDocument, Chunk, EmbedBatch, Store, Finish, StageRaises, ExceptGet

\* The rows of one tenant and content that a request met put an end to it.
SeenInv ==
    \A r, d \in Requests :
        d \in seen[r] /\ tenant[d] = tenant[r] /\ content[d] = content[r] =>
            reqPc[r] = "ended" /\ status[r] = "absent"

\* A request that is over writes its row only where there is one.
LEMMA SeenStep ==
    ASSUME IndInv, SeenInv, [Next]_vars
    PROVE  SeenInv'
<1> USE DEF IndInv, TypeOK
<1>1. CASE \E r \in Requests : FindDuplicate(r)
  <2> PICK r \in Requests : FindDuplicate(r)
    BY <1>1
  <2>1. /\ UNCHANGED <<tenant, content, status>>
        /\ seen' = [seen EXCEPT ![r] = {d \in Requests : status[d] # "absent"}]
        /\ \E l \in ReqPcs : reqPc' = [reqPc EXCEPT ![r] = l]
        /\ reqPc[r] = "find"
    BY DEF FindDuplicate, ReqGoto, ReqPcs
  <2>2. reqPc'[r] = "ended" \/ Duplicates(r) = {}
    BY DEF FindDuplicate, ReqGoto
  <2>3. status[r] = "absent"
    BY <2>1 DEF RequestInv
  <2>4. ASSUME NEW d \in Requests, d \in seen'[r], tenant[d] = tenant[r], content[d] = content[r]
        PROVE  reqPc'[r] = "ended"
    BY <2>1, <2>2, <2>4 DEF Duplicates
  <2>5. ASSUME NEW x \in Requests, x # r
        PROVE  seen'[x] = seen[x] /\ reqPc'[x] = reqPc[x]
    BY <2>1, <2>5
  <2> QED
    BY <2>1, <2>3, <2>4, <2>5 DEF SeenInv
<1>2. CASE ~\E r \in Requests : FindDuplicate(r)
  <2>1. /\ UNCHANGED <<tenant, content, seen>>
        /\ \A r \in Requests : reqPc[r] = "ended" => reqPc'[r] = "ended"
    BY <1>2 DEF Next, RequestStep, Task, Pipeline, Claim, vars, ReqGoto,
         Submit, Save, MarkProcessing, Enqueue, Respond, RequestFails,
         DeleteDocument, WorkerTakes, StartAttempt, ArqExhausted, EndAttempt, AfterRaise, JobTimeout,
         WorkerCrash, CallExecute, CallRaises, TaskReturns, WriteDlq, SkipDlq, TaskRaises,
         GetDocument, BlankUpdate, Chunk, EmbedBatch, Store, UpdateCompleted, Finish,
         StageRaises, ExceptGet, ExceptUpdate
  <2>2. \A r \in Requests : reqPc[r] = "ended" /\ status[r] = "absent" => status'[r] = "absent"
    <3>1. CASE status' # status
      <4> PICK d \in Requests : RowWriter(d)
        BY <3>1, OnlyWriters
      <4> QED
        BY DEF RowWriter, Save, MarkProcessing, DeleteDocument, BlankUpdate, UpdateCompleted,
               ExceptUpdate, UpdateRow
    <3> QED
      BY <3>1
  <2> QED
    BY <2>1, <2>2 DEF SeenInv
<1> QED
  BY <1>1, <1>2

\* Only overlapping requests store one content twice: a row that is there when
\* find_duplicate runs keeps the request from saving another.
THEOREM DuplicatesOnlyOverlap == Spec => []DuplicatesOverlap
<1>1. Init => SeenInv
  BY DEF Init, SeenInv
<1>2. SeenInv => DuplicatesOverlap
  BY DEF SeenInv, DuplicatesOverlap
<1> QED
  BY <1>1, <1>2, SeenStep, Invariance, PTL DEF Spec

\* error_message is set on exactly the FAILED rows.
THEOREM ErrorsMatch == Spec => []ErrorIffFailed
<1>1. IndInv => ErrorIffFailed
  BY DEF IndInv
<1> QED
  BY <1>1, Invariance, PTL

\* A "processing" answer is backed by a job and a row past PENDING.
THEOREM AnswersAreBacked == Spec => []ProcessingAnswerIsBacked
<1>1. IndInv => ProcessingAnswerIsBacked
  BY DEF IndInv
<1> QED
  BY <1>1, Invariance, PTL

\* A dead-lettered document has used all its tries and is never run again.
THEOREM DeadLettersAreFinal == Spec => []DeadLetterIsFinal
<1>1. IndInv => DeadLetterIsFinal
  BY DEF IndInv, DeadLetterInv, DeadLetterIsFinal
<1> QED
  BY <1>1, Invariance, PTL

\* The pipeline never meets the ValueError of advance_status.
THEOREM AdvancesAreValid == Spec => []NoRejectedAdvance
<1>1. IndInv => NoRejectedAdvance
  BY DEF IndInv, StageInv, NoRejectedAdvance, ValidTransitions, IngestionStatus
<1> QED
  BY <1>1, Invariance, PTL

\* A completed job with a COMPLETED IngestionJob has a COMPLETED row.
THEOREM CompletionIsTold == Spec => []CompletedJobTold
<1>1. IndInv => CompletedJobTold
  BY DEF IndInv
<1> QED
  BY <1>1, Invariance, PTL

\* Only Store makes a document searchable.
LEMMA SearchableStep ==
    ASSUME IndInv, [Next]_vars, ~\E d \in Requests : Store(d)
    PROVE  UNCHANGED Searchable
<1>1. UNCHANGED <<content, vectors>>
  BY DEF Next, RequestStep, Task, Pipeline, Claim, vars,
         Submit, FindDuplicate, Save, MarkProcessing, Enqueue, Respond, RequestFails,
         DeleteDocument, WorkerTakes, StartAttempt, ArqExhausted, EndAttempt, AfterRaise, JobTimeout,
         WorkerCrash, CallExecute, CallRaises, TaskReturns, WriteDlq, SkipDlq, TaskRaises,
         GetDocument, BlankUpdate, Chunk, EmbedBatch, UpdateCompleted, Finish,
         StageRaises, ExceptGet, ExceptUpdate
<1> QED
  BY <1>1 DEF Searchable, DocChunks

\* Each writer of the table is one step of the lifecycle.
LEMMA WriterStep ==
    ASSUME IndInv, NEW d \in Requests, RowWriter(d), UNCHANGED Searchable, status' # status
    PROVE  Lifecycle!Next
<1> USE DEF IndInv, TypeOK, UpdateRow, DocumentStatus, Lifecycle!Move
<1>1. CASE Save(d)
  <2>1. Lifecycle!Create(d)
    BY <1>1 DEF Save, RequestInv, Lifecycle!Create
  <2> QED
    BY <2>1 DEF Lifecycle!Next
<1>2. CASE MarkProcessing(d)
  <2>1. Lifecycle!Start(d)
    BY <1>2 DEF MarkProcessing, RequestInv, Lifecycle!Start
  <2> QED
    BY <2>1 DEF Lifecycle!Next
<1>3. CASE DeleteDocument(d)
  <2>1. Lifecycle!Remove(d)
    BY <1>3 DEF DeleteDocument, Lifecycle!Remove
  <2> QED
    BY <2>1 DEF Lifecycle!Next
<1>4. CASE BlankUpdate(d) \/ ExceptUpdate(d)
  <2>1. Lifecycle!Fail(d)
    BY <1>4 DEF BlankUpdate, ExceptUpdate, AttemptInv, RequestInv, Lifecycle!Fail
  <2> QED
    BY <2>1 DEF Lifecycle!Next
<1>5. CASE UpdateCompleted(d)
  <2>1. d \in Searchable
    BY <1>5 DEF UpdateCompleted, Searchable, ProgressInv, AttemptInv
  <2>2. Lifecycle!Complete(d)
    BY <1>5, <2>1 DEF UpdateCompleted, AttemptInv, RequestInv, Lifecycle!Complete
  <2> QED
    BY <2>2 DEF Lifecycle!Next
<1> QED
  BY <1>1, <1>2, <1>3, <1>4, <1>5 DEF RowWriter

\* upsert_many publishes the document and leaves the table alone.
LEMMA StoreStep ==
    ASSUME IndInv, NEW d \in Requests, Store(d)
    PROVE  Lifecycle!Next
<1> USE ConstantsAssumption DEF IndInv, TypeOK, Store
<1>1. DocChunks(d) > 0 /\ done[d] = DocChunks(d) /\ jobTry[d] \in Tries
  BY DEF ProgressInv, AttemptInv
<1>2. vectors' = vectors \cup ChunkIdsOf(d, jobTry[d], DocChunks(d)) /\ content' = content
  BY <1>1
<1>3. d \in Searchable'
  BY <1>1, <1>2 DEF Searchable, DocChunks
<1>4. ASSUME NEW x \in Requests, x # d PROVE x \in Searchable' <=> x \in Searchable
  <2>1. \A t \in Tries : ChunkIdsOf(x, t, DocChunks(x)) \subseteq vectors'
                            <=> ChunkIdsOf(x, t, DocChunks(x)) \subseteq vectors
    BY <1>2, <1>4 DEF ChunkIdsOf
  <2> QED
    BY <1>2, <2>1 DEF Searchable, DocChunks
<1>5. Searchable' = Searchable \cup {d}
  BY <1>3, <1>4 DEF Searchable
<1>6. Lifecycle!Publish(d)
  BY <1>5 DEF Lifecycle!Publish
<1> QED
  BY <1>6 DEF Lifecycle!Next

\* Ingestion implements the document lifecycle: no crash, retry, timeout or
\* concurrent request makes a status move that a client is not promised.
THEOREM Refinement == Spec => ImplementsLifecycle
<1>1. Init => Lifecycle!Init
  <2>1. ASSUME Init, NEW d \in Requests, NEW t \in Tries, DocChunks(d) > 0
        PROVE  ~(ChunkIdsOf(d, t, DocChunks(d)) \subseteq vectors)
    <3>1. DocChunks(d) \in Nat
      BY <2>1, ConstantsAssumption DEF Init, DocChunks
    <3>2. <<d, t, 1>> \in ChunkIdsOf(d, t, DocChunks(d))
      BY <2>1, <3>1 DEF ChunkIdsOf
    <3> QED
      BY <2>1, <3>2 DEF Init
  <2> QED
    BY <2>1 DEF Init, Searchable, Lifecycle!Init
<1>2. ASSUME IndInv, [Next]_vars PROVE [Lifecycle!Next]_(Lifecycle!vars)
  <2>1. CASE \E d \in Requests : Store(d)
    BY <1>2, <2>1, StoreStep
  <2>2. CASE ~\E d \in Requests : Store(d)
    <3>1. UNCHANGED Searchable
      BY <1>2, <2>2, SearchableStep
    <3>2. CASE status' # status
      BY <1>2, <3>1, <3>2, OnlyWriters, WriterStep
    <3> QED
      BY <3>1, <3>2 DEF Lifecycle!vars
  <2> QED
    BY <2>1, <2>2
<1> QED
  BY <1>1, <1>2, Invariance, PTL DEF Spec, ImplementsLifecycle, Lifecycle!Spec

-----------------------------------------------------------------------------
(* The rank behind JobsSettle                                              *)

\* How many awaits may still come before the attempt is over.
AwaitsAhead(l) ==
    CASE l = "call"   -> 10
      [] l = "get"    -> 9
      [] l = "chunk"  -> 8
      [] l = "embed"  -> 7
      [] l = "store"  -> 6
      [] l = "update" -> 5
      [] l \in {"finish", "blank"} -> 4
      [] l = "exceptGet" -> 3
      [] l \in {"exceptUpdate", "taskExcept"} -> 2
      [] l \in {"return", "raise"} -> 1
      [] OTHER -> 0

JobAt(d) == <<jobState[d], jobTry[d], pc[d], total[d], done[d]>>

\* The job is settled, or closer to it: in its next try, or in the same try
\* with fewer awaits, or with fewer chunks to embed, ahead of it.
JobMoves(d) ==
    \/ jobState'[d] \in {"complete", "failed"}
    \/ /\ jobState'[d] = "running"
       /\ jobTry'[d] = jobTry[d] + 1 /\ jobTry'[d] <= MaxTries
    \/ /\ jobState'[d] \in {"queued", "running"}
       /\ jobTry'[d] = jobTry[d]
       /\ \/ AwaitsAhead(pc'[d]) < AwaitsAhead(pc[d])
          \/ /\ pc[d] = "embed" /\ pc'[d] = "embed"
             /\ total'[d] = total[d] /\ done[d] < done'[d] /\ done'[d] < total[d]

\* Every step of ARQ, of the task and of the pipeline, the ones that are assumed
\* fair, brings its job closer to its end.  No step of anybody, be it a crash, a
\* timeout, a deletion or another request, sets a job back, and a job that is
\* complete or failed stays so.
JobsMoveOn ==
    [][\A d \in Requests :
        /\ Claim(d) \/ Task(d) \/ Pipeline(d) => JobMoves(d)
        /\ jobState[d] \in {"queued", "running"} => UNCHANGED JobAt(d) \/ JobMoves(d)
        /\ jobState[d] \in {"complete", "failed"} => UNCHANGED JobAt(d)]_vars

\* An attempt that ends leaves its job settled, or queued with nothing ahead in
\* this try.
LEMMA EndMoves ==
    ASSUME IndInv, NEW d \in Requests, pc[d] \in AttemptPcs,
           NEW s \in {"complete", "failed", "queued"}, EndAttempt(d, s)
    PROVE  JobMoves(d) /\ \A e \in Requests \ {d} : UNCHANGED JobAt(e)
<1>1. /\ jobState' = [jobState EXCEPT ![d] = s] /\ pc' = [pc EXCEPT ![d] = "none"]
      /\ jobTry' = jobTry /\ total' = total /\ done' = done
  BY DEF EndAttempt
<1>2. jobState'[d] = s /\ pc'[d] = "none" /\ \A e \in Requests \ {d} : UNCHANGED JobAt(e)
  BY <1>1 DEF IndInv, TypeOK, JobAt
<1>3. AwaitsAhead("none") = 0 /\ AwaitsAhead(pc[d]) > 0
  BY DEF AwaitsAhead, AttemptPcs, PipelinePcs, ExceptPcs, TaskPcs
<1> QED
  BY <1>1, <1>2, <1>3 DEF JobMoves

\* A step within an attempt has fewer awaits ahead.
LEMMA GotoMoves ==
    ASSUME IndInv, NEW d \in Requests, pc[d] \in AttemptPcs, NEW l, Goto(d, l),
           AwaitsAhead(l) < AwaitsAhead(pc[d]), UNCHANGED jobVars,
           \A e \in Requests \ {d} : total'[e] = total[e] /\ done'[e] = done[e]
    PROVE  JobMoves(d) /\ \A e \in Requests \ {d} : UNCHANGED JobAt(e)
<1>1. pc'[d] = l /\ \A e \in Requests \ {d} : pc'[e] = pc[e]
  BY DEF Goto, IndInv, TypeOK
<1>2. jobState'[d] = "running" /\ jobTry'[d] = jobTry[d]
  BY DEF IndInv, AttemptInv, AttemptPcs, PipelinePcs, ExceptPcs, TaskPcs
<1>3. JobMoves(d)
  BY <1>1, <1>2 DEF JobMoves
<1> QED
  BY <1>1, <1>3 DEF JobAt

\* The task and the pipeline take a step only while an attempt runs.
LEMMA InAttempt ==
    ASSUME NEW d \in Requests, Task(d) \/ Pipeline(d)
    PROVE  pc[d] \in AttemptPcs
BY DEF Task, Pipeline, CallExecute, CallRaises, TaskReturns, WriteDlq, SkipDlq, TaskRaises,
         GetDocument, BlankUpdate, Chunk, EmbedBatch, Store, UpdateCompleted, Finish, StageRaises,
         ExceptGet, ExceptUpdate, AttemptPcs, PipelinePcs, ExceptPcs, TaskPcs

\* The steps of the task and of the pipeline.
LEMMA AttemptMoves ==
    ASSUME IndInv, NEW d \in Requests, Task(d) \/ Pipeline(d)
    PROVE  JobMoves(d) /\ \A e \in Requests \ {d} : UNCHANGED JobAt(e)
<1>1. pc[d] \in AttemptPcs
  BY InAttempt
<1>2. CASE TaskReturns(d) \/ TaskRaises(d)
  BY <1>1, <1>2, EndMoves DEF TaskReturns, TaskRaises, AfterRaise
<1>3. CASE CallExecute(d)
  <2>1. Goto(d, "get") /\ AwaitsAhead("get") < AwaitsAhead(pc[d])
    BY <1>3 DEF CallExecute, AwaitsAhead
  <2> QED
    BY <1>1, <1>3, <2>1, GotoMoves DEF CallExecute
<1>4. CASE CallRaises(d)
  <2>1. Goto(d, "taskExcept") /\ AwaitsAhead("taskExcept") < AwaitsAhead(pc[d])
    BY <1>4 DEF CallRaises, AwaitsAhead
  <2> QED
    BY <1>1, <1>4, <2>1, GotoMoves DEF CallRaises
<1>5. CASE WriteDlq(d) \/ SkipDlq(d)
  <2>1. Goto(d, "raise") /\ AwaitsAhead("raise") < AwaitsAhead(pc[d])
    BY <1>5 DEF WriteDlq, SkipDlq, AwaitsAhead
  <2> QED
    BY <1>1, <1>5, <2>1, GotoMoves DEF WriteDlq, SkipDlq
<1>6. CASE GetDocument(d)
  <2>1. PICK l \in {"return", "blank", "chunk"} : Goto(d, l)
    BY <1>6 DEF GetDocument
  <2>2. AwaitsAhead(l) < AwaitsAhead(pc[d])
    BY <1>6 DEF GetDocument, AwaitsAhead
  <2> QED
    BY <1>1, <1>6, <2>1, <2>2, GotoMoves DEF GetDocument
<1>7. CASE BlankUpdate(d) \/ Finish(d) \/ ExceptUpdate(d)
  <2>1. Goto(d, "return") /\ pc[d] \in {"blank", "finish", "exceptUpdate"}
    BY <1>7 DEF BlankUpdate, Finish, ExceptUpdate
  <2>2. AwaitsAhead("return") < AwaitsAhead(pc[d])
    BY <2>1 DEF AwaitsAhead
  <2> QED
    BY <1>1, <1>7, <2>1, <2>2, GotoMoves DEF BlankUpdate, Finish, ExceptUpdate
<1>8. CASE Chunk(d)
  <2>1. Goto(d, "embed") /\ AwaitsAhead("embed") < AwaitsAhead(pc[d])
    BY <1>8 DEF Chunk, AwaitsAhead
  <2>2. \A e \in Requests \ {d} : total'[e] = total[e] /\ done'[e] = done[e]
    BY <1>8 DEF Chunk, IndInv, TypeOK
  <2> QED
    BY <1>1, <1>8, <2>1, <2>2, GotoMoves DEF Chunk
<1>9. CASE EmbedBatch(d)
  <2> DEFINE processed == MinOf(done[d] + BatchSize, total[d])
  <2>1. /\ pc[d] = "embed" /\ done' = [done EXCEPT ![d] = processed] /\ total' = total
        /\ jobState' = jobState /\ jobTry' = jobTry
        /\ IF processed < total[d] THEN pc' = pc ELSE Goto(d, "store")
    BY <1>9 DEF EmbedBatch
  <2>2. \A e \in Requests \ {d} : total'[e] = total[e] /\ done'[e] = done[e]
    BY <2>1 DEF IndInv, TypeOK
  <2>3. CASE processed < total[d]
    <3>1. done[d] \in Nat /\ total[d] \in Nat /\ done'[d] = processed
      BY <2>1 DEF IndInv, TypeOK
    <3>2. done[d] < processed
      BY <2>3, <3>1, ConstantsAssumption DEF MinOf
    <3>3. jobState[d] = "running" /\ pc' = pc
      BY <2>1, <2>3 DEF IndInv, AttemptInv
    <3> QED
      BY <2>1, <2>2, <2>3, <3>1, <3>2, <3>3 DEF JobMoves, JobAt
  <2>4. CASE ~(processed < total[d])
    <3>1. Goto(d, "store") /\ AwaitsAhead("store") < AwaitsAhead(pc[d])
      BY <2>1, <2>4 DEF AwaitsAhead
    <3> QED
      BY <1>1, <2>1, <2>2, <3>1, GotoMoves
  <2> QED
    BY <2>3, <2>4
<1>10. CASE Store(d)
  <2>1. Goto(d, "update") /\ AwaitsAhead("update") < AwaitsAhead(pc[d])
    BY <1>10 DEF Store, AwaitsAhead
  <2> QED
    BY <1>1, <1>10, <2>1, GotoMoves DEF Store
<1>11. CASE UpdateCompleted(d)
  <2>1. Goto(d, "finish") /\ AwaitsAhead("finish") < AwaitsAhead(pc[d])
    BY <1>11 DEF UpdateCompleted, AwaitsAhead
  <2> QED
    BY <1>1, <1>11, <2>1, GotoMoves DEF UpdateCompleted
<1>12. CASE StageRaises(d)
  <2>1. Goto(d, "exceptGet") /\ AwaitsAhead("exceptGet") < AwaitsAhead(pc[d])
    BY <1>12 DEF StageRaises, AwaitsAhead, PipelinePcs
  <2> QED
    BY <1>1, <1>12, <2>1, GotoMoves DEF StageRaises
<1>13. CASE ExceptGet(d)
  <2>1. PICK l \in {"exceptUpdate", "return"} : Goto(d, l)
    BY <1>13 DEF ExceptGet
  <2>2. AwaitsAhead(l) < AwaitsAhead(pc[d])
    BY <1>13 DEF ExceptGet, AwaitsAhead
  <2> QED
    BY <1>1, <1>13, <2>1, <2>2, GotoMoves DEF ExceptGet
<1> QED
  BY <1>2, <1>3, <1>4, <1>5, <1>6, <1>7, <1>8, <1>9, <1>10, <1>11, <1>12, <1>13 DEF Task, Pipeline

\* ARQ starts the next try of a queued job, or gives it up.
LEMMA ClaimMoves ==
    ASSUME IndInv, NEW d \in Requests, Claim(d)
    PROVE  /\ jobState[d] = "queued" /\ JobMoves(d)
           /\ \A e \in Requests \ {d} : UNCHANGED JobAt(e)
<1>1. CASE ArqExhausted(d)
  BY <1>1 DEF ArqExhausted, JobMoves, JobAt, IndInv, TypeOK
<1>2. ASSUME NEW w \in Workers, WorkerTakes(d, w)
      PROVE  /\ jobState[d] = "queued" /\ JobMoves(d)
             /\ \A e \in Requests \ {d} : UNCHANGED JobAt(e)
  <2>1. /\ jobState[d] = "queued" /\ jobTry[d] < MaxTries
        /\ jobState' = [jobState EXCEPT ![d] = "running"]
        /\ jobTry' = [jobTry EXCEPT ![d] = jobTry[d] + 1]
        /\ pc' = [pc EXCEPT ![d] = "call"]
        /\ total' = [total EXCEPT ![d] = 0] /\ done' = [done EXCEPT ![d] = 0]
    BY <1>2 DEF WorkerTakes, StartAttempt, FreshJob
  <2>2. jobTry[d] \in Nat /\ MaxTries \in Nat /\ jobTry'[d] = jobTry[d] + 1 /\ jobState'[d] = "running"
    BY <2>1, ConstantsAssumption DEF IndInv, TypeOK
  <2>3. JobMoves(d)
    BY <2>1, <2>2 DEF JobMoves
  <2>4. \A e \in Requests \ {d} : UNCHANGED JobAt(e)
    BY <2>1 DEF JobAt, IndInv, TypeOK
  <2> QED
    BY <2>1, <2>3, <2>4
<1> QED
  BY <1>1, <1>2 DEF Claim

\* Jobs come closer to their end at every step of theirs, and at no step get
\* further from it: each can only take a bounded number of steps.
THEOREM JobsDescend == Spec => JobsMoveOn
<1> DEFINE Moves(d) ==
        /\ Claim(d) \/ Task(d) \/ Pipeline(d) => JobMoves(d)
        /\ jobState[d] \in {"queued", "running"} => UNCHANGED JobAt(d) \/ JobMoves(d)
        /\ jobState[d] \in {"complete", "failed"} => UNCHANGED JobAt(d)
<1>1. ASSUME IndInv, Next, NEW d \in Requests PROVE Moves(d)
  <2>1. Claim(d) \/ Task(d) \/ Pipeline(d) => JobMoves(d)
    BY <1>1, ClaimMoves, AttemptMoves
  <2>2. pc[d] \in AttemptPcs => jobState[d] = "running"
    BY <1>1 DEF IndInv, AttemptInv, AttemptPcs, PipelinePcs, ExceptPcs, TaskPcs
  <2>3. CASE \E r \in Requests : RequestStep(r) \/ DeleteDocument(r)
    <3>1. PICK r \in Requests : RequestStep(r) \/ DeleteDocument(r)
      BY <2>3
    <3>2. CASE Enqueue(r)
      <4>1. jobState[r] = "none"
        BY <1>1, <3>2 DEF Enqueue, IndInv, RequestInv
      <4>2. d # r => UNCHANGED JobAt(d)
        BY <1>1, <3>2 DEF Enqueue, JobAt, IndInv, TypeOK
      <4> QED
        BY <2>1, <4>1, <4>2
    <3>3. CASE ~Enqueue(r)
      <4>1. UNCHANGED workVars
        BY <3>1, <3>3 DEF RequestStep, Submit, FindDuplicate, Save, MarkProcessing, Respond,
                          RequestFails, DeleteDocument
      <4> QED
        BY <2>1, <4>1 DEF JobAt
    <3> QED
      BY <3>2, <3>3
  <2>4. CASE \E e \in Requests : Claim(e)
    <3>1. PICK e \in Requests : Claim(e)
      BY <2>4
    <3>2. jobState[e] = "queued" /\ JobMoves(e) /\ (d # e => UNCHANGED JobAt(d))
      BY <1>1, <3>1, ClaimMoves
    <3> QED
      BY <2>1, <3>2
  <2>5. CASE \E e \in Requests : Task(e) \/ Pipeline(e)
    <3>1. PICK e \in Requests : Task(e) \/ Pipeline(e)
      BY <2>5
    <3>2. JobMoves(e) /\ (d # e => UNCHANGED JobAt(d))
      BY <1>1, <3>1, AttemptMoves
    <3>3. pc[e] \in AttemptPcs
      BY <3>1, InAttempt
    <3> QED
      BY <2>1, <2>2, <3>2, <3>3
  <2>6. CASE \E e \in Requests : JobTimeout(e)
    <3>1. PICK e \in Requests : JobTimeout(e)
      BY <2>6
    <3>2. JobMoves(e) /\ (d # e => UNCHANGED JobAt(d))
      BY <1>1, <3>1, EndMoves DEF JobTimeout, AfterRaise
    <3> QED
      BY <2>1, <2>2, <3>1, <3>2 DEF JobTimeout
  <2>7. CASE \E w \in Workers : WorkerCrash(w)
    <3>1. PICK w \in Workers : WorkerCrash(w)
      BY <2>7
    <3>2. CASE d \in Running(w)
      <4>1. jobState'[d] = "queued" /\ pc'[d] = "none" /\ jobTry' = jobTry
        BY <3>1, <3>2 DEF WorkerCrash
      <4>2. pc[d] \in AttemptPcs
        BY <1>1, <3>2 DEF Running, IndInv, TypeOK, AttemptInv
      <4>3. AwaitsAhead("none") = 0 /\ AwaitsAhead(pc[d]) > 0
        BY <4>2 DEF AwaitsAhead, AttemptPcs, PipelinePcs, ExceptPcs, TaskPcs
      <4> QED
        BY <2>1, <2>2, <4>1, <4>2, <4>3 DEF JobMoves
    <3>3. CASE d \notin Running(w)
      BY <2>1, <3>1, <3>3 DEF WorkerCrash, JobAt
    <3> QED
      BY <3>2, <3>3
  <2> QED
    BY <1>1, <2>3, <2>4, <2>5, <2>6, <2>7 DEF Next
<1>2. IndInv /\ [Next]_vars => [\A d \in Requests : Moves(d)]_vars
  BY <1>1
<1> QED
  BY <1>2, Invariance, PTL DEF Spec, JobsMoveOn
=============================================================================
