# TLA+ models of ai-backend-api

ai-backend-api is a multi-tenant retrieval-augmented-generation service: clients
upload documents, a worker splits, embeds and indexes them, and clients search
them or chat about them. This directory holds TLA+ modules translated from the
code under `app/`, TLC runs over small instances, and TLAPS proofs that hold for
every value of the constants. `PROJECT.json` maps each definition to the lines
it models and lists the runs, hazards, findings and theorems.

## 1. Inventory

    client ── FastAPI process ──────────────── PostgreSQL (documents, tenants)
                │  rate_limit_middleware ───── Redis (sorted set per key)
                │  POST /documents ─────────── PostgreSQL, then ARQ queue (Redis)
                │  POST /chat, /search ─────── Redis (history, embeddings), Qdrant, OpenAI
    ARQ worker ─┴─ process_document_task ───── PostgreSQL, OpenAI, Qdrant, Redis (dead letters)

Everything is asyncio: inside one process a coroutine runs undisturbed from one
`await` to the next, and between awaits anything may happen, in this process or
another. That is the grain of all the models.

| Part | State it keeps | Operations | What is hard | What makes it correct |
|---|---|---|---|---|
| Ingestion, API side (`ingest_document.py`) | a row in `documents`, an ARQ job | find_duplicate, save, update, enqueue | check-then-insert races, failure between two stores | what the client is told is true |
| Worker task and dead-letter set (`arq_worker.py`) | job state, `dlq:document_processing` | call, write DLQ, raise | retries, timeouts, crashes, the last try | jobs settle; dead letters are final |
| Processing pipeline (`process_document.py`) | IngestionJob, row, chunks, points | get, chunk, embed, store, update, except block | a failure at every await, a rerun after a crash | COMPLETED means searchable |
| Document and IngestionJob | status, counts, error | mark_*, advance_status, fail, complete | stale entity written back, rejected transitions | status and error agree |
| Rate limiter | one sorted set per key, with a TTL | script, get_remaining, reset | a clock read before the await that uses it | at most the limit in the window; no denial without cause |
| Token-aware chunking | none (a loop) | chunk | overlap near the size, white space | no token left out, chunks fit, the loop ends |
| Chat and history (`rag_chat.py`, `redis_chat_repo.py`) | a list per user | search, get_history, LLM, save_message ×2 | two requests of one user, failing or abandoned streams, LTRIM | histories ordered, private, whole unless a request breaks off |
| Embedding service and cache | one entry per model and text | lookups, OpenAI, writes | hits and misses mixed, concurrent calls, expiry | the right embeddings in the right order |
| Context and sources | none (two loops) | search parsing, build_context, _build_sources | the token budget, numbering | a citation [n] names source n |
| Tenants (`postgres_tenant_repo.py`, `tenant.py`) | a row, its cached copy | save, lookup, update, delete, quota | cache-aside races, lost updates, a failed invalidation | stale only for a bounded time, updates serial unless stale |
| Startup and shutdown (`main.py` lifespan, worker hooks, `PostgresPool`, `ensure_collection`) | collection, payload indexes, open clients | connect, exists, create, index, close | two processes starting, a crash in between | a serving process has its collection; a shutdown closes what it knows of |
| BackgroundWorker (`queue/worker.py`) | queue, task table, semaphore | enqueue, start, stop, execute | stop() against a task just taken, a place never given back | each task once, in order, within the limit, to an end |
| Simple chunking (`chunking_service.py`) | none (a loop) | chunk | overlap against newline breaks | progress |

All but the last are modelled. Routers, schemas, error handlers, settings,
logging, the API-key comparison, the tokenizer and the deployment files keep no
state of their own and are listed in `PROJECT.json` as not modelled, each with
its reason.

## 2. Modules

| Module | Contents |
|---|---|
| `Ingestion` | requests, jobs, attempts and the stores they share; properties |
| `DocumentLifecycle` | abstract specification: what a polling and searching client is promised |
| `IngestionClaims` | what the repository's documents say and the code does not do |
| `RateLimiter`, `TokenChunking`, `RagChat`, `EmbeddingCache`, `RagContext`, `TenantCache`, `Startup`, `BackgroundWorker` | one component each, with properties |
| `MC*` | small instances for TLC |
| `*Proofs` | inductive invariants, lemmas, theorems |

An operator introduced by "Mutant of X" is a plausible bug put in the place of
X. No specification uses it; it shows that the property it is paired with can
fail.

### Ingestion

*Names.* `Document(...)` draws a fresh uuid4, so a request, its document, its
row and its job share one name `r`.

*State.* `reqPc` is the await at which `IngestDocumentUseCase.execute` stands
and `answer` what its client was told; `status`, `chunkCount`, `hasError` are
the row; `jobState`, `jobTry` are ARQ's; `pc`, `host` say where an attempt is and
in which worker; `stage`, `total`, `done` are its IngestionJob; `dlq`, `vectors`
and `chunkStore` are the dead-letter set, Qdrant and the in-memory chunk
repository of each worker process. A chunk is (document, attempt, index),
because each attempt draws new chunk ids. `seen` is a history variable: the
documents whose row existed when a request looked for a duplicate.

*Actions.* One per await: `Submit`, `FindDuplicate`, `Save`, `MarkProcessing`,
`Enqueue`, `Respond` for the request; `CallExecute`, `WriteDlq`, `SkipDlq`,
`TaskReturns`, `TaskRaises` for the task; `GetDocument` … `Finish` and the except
block `ExceptGet`, `ExceptUpdate` for the pipeline. `RequestFails`, `StageRaises`
and `CallRaises` fail at any of them. "It took effect and then raised" is the
step that takes effect followed by the failure at the next await. `JobTimeout`
cancels an attempt at any await and skips both except blocks, as CancelledError
does. `WorkerCrash` ends all the attempts of a process and empties its chunk
repository. ARQ is external: claiming, the limit on tries and recovery are
modelled from the settings the worker class passes it. Whether a raised attempt
is tried again or fails is left open (`AfterRaise`), so the results do not
depend on that choice.

*The two call mismatches.* In the code as committed, `process_document_task`
passes `tenant_id=` to an `execute` that has no such parameter, and `Chunk`
requires a `tenant_id` that the pipeline does not give it. `TaskCallFits` and
`ChunkBuilds` state this; both are FALSE at this commit. `ingestion_one_document`
sets them TRUE, to check the pipeline behind the mismatches;
`ingestion_two_requests` repairs only the call, so its attempts end in the except
block; `dead_letter_claim` has the code as committed;
the proofs hold for both values. The document
router likewise calls `IngestDocumentUseCase.execute` without its `tenant_id`
argument; the model starts at `execute`.

*Abstract specification.* `DocumentLifecycle` has only the status a client reads
and the set of documents that can be found whole. `Ingestion` implements it with
`searchable <- Searchable`, the non-blank documents all of whose chunks some
attempt stored.

### RateLimiter

One rate key; keys do not interact. `TakeNow` reads the clock, `RunScript` is
the Lua script, which Redis runs atomically with the request's own earlier
`now`; `Serve` and `Prune` are `get_remaining`, again with its clock read before
its await. `ScriptError` and `RemainingError` are the fail-open paths, `Reset`
is `reset(key)`, and `Tick` also drops the key when its TTL is over. A tick is
the precision with which Lua prints `now` into the member. Two requests with the
same printed time and the same random number are one member and are counted
once; `DistinctMembers` is the proviso that excludes this. Two things are
idealised: there is one clock, although each API host reads its own `time.time()`
(`rate_limiter.py:94`), so the results hold up to the skew of the hosts; and the
set is not evicted before its TTL is over, although `docker-compose.yml` sets
`allkeys-lru`: an evicted set is a `reset(key)` that nobody asked for.

### TokenChunking

Each pass of the `while` loop is a step. A token is its position, and what
matters of its text is whether it is white space. `ChunkSizes` and `Overlaps`
are arbitrary sets, so every setting the code accepts, and more, is an input.
`EncodeRaises` is tiktoken's ValueError on a text that holds a special token. The
decoding of a window is abstracted to the positions it decodes: a window that
starts or ends inside a multi-byte character decodes the cut character to a
replacement character, so the properties are about tokens, not characters.

### RagChat

One step per await or yield of `execute`, `stream` and `_stream_generator`. A
message is (request, role, length in deltas). `Fails` and `Disconnect` may
happen at every step and leave the request "broken"; one that comes to its end is
"ended". `ClearHistory` is `clear_history` or the expiry of the
key; `forgotten` only records it for the property about remembered answers.

### EmbeddingCache

`embed_batch` of several concurrent calls over one Redis: a lookup per text, one
OpenAI call, a write per uncached text. `embed` is a batch of one. Entries
expire or are evicted at any time (`Expire`); a write may fail without ending
the call (`WriteBack`); a lookup or the OpenAI call that fails ends it
(`Raises`). The key holds the first 16 digits of a SHA-256; the assumption is
that the digests of the texts in use differ.

### RagContext

`Scan` is the parsing loop of `QdrantVectorRepository.search` with the score
test of `build_context`; `AddBlock`, `Break`, `LoopEnds` are its budget loop and
`BuildSources` is `_build_sources`. Points arrive best first, as Qdrant returns
them; the order among equal scores is Qdrant's.

### TenantCache

One tenant; rows and keys of different tenants do not interact. The row is
`is_active` and `tokens_used_this_month`. A lookup is `CacheGet`, `Fetch` and
`WriteBack`, one await each; a change reads an entity by a lookup, mutates it
and writes every column back in `update()`, whose two statements are two steps
(the row, then the delete of the cache entry), either of which may fail.
`delete()` deactivates the row and does nothing else. Time is relative: an entry
counts down its TTL, and a copy counts the ticks since the row was written
again; `MaxDelay` bounds how long a lookup holds a row before it caches it. An
entry that does not parse is treated as a miss by the code; it leads to no state that
a miss does not, and entries in the model parse. Three
history variables say what the properties need: `ledger` is the row if every
change had seen the one before it, `lost` that some `update()` wrote back a
superseded copy, `leftBehind` that nobody is left to delete the present entry.

### Startup

API processes and ARQ workers over one Qdrant. Each has its own Container, so
they share the collection and nothing else. A start is `Boot`, `Connect`, and for
an API process `CollectionExists`, then `CreateCollection` (or `CreateConflict`,
when another process was first and Qdrant refuses) and one `CreateIndex` per
field. `Serve` creates clients at their first use: Redis, Qdrant, and, under the
one name "unclosed", those that no shutdown closes (the AsyncOpenAI clients of the
embedding and the chat service, and the ARQ pools, of which the container's factory
makes one per use case). A shutdown closes the others in the code's order and ends
the process (`Exit` for a worker, `CloseArq` for an API process); what raises in it,
and what crashes, ends it too, and it is then started again. `interrupted` is a history
variable: a process ended inside the loop that makes the indexes.

### BackgroundWorker

`enqueue`, `start`, `stop`, the loop (`Take`) and `_execute` (`Acquire`,
`Completes`, `Raises`, `Aborts`, `Release`). Tasks are numbered in the order in
which they are enqueued. A loop exists exactly while `_running` is set, because
`stop()` clears it, drains the queue and cancels the loop with no await in between,
so it needs no variable. `Aborts` is a coroutine
that ends in CancelledError, which `_execute` does not catch: the semaphore is
released and the status stays RUNNING. Logging is assumed not to raise.

## 3. Runs

The ingestion, rate limiter, chunking, chat, embedding and context runs set
`CHECK_DEADLOCK FALSE`: when every request, call or job is over, these systems
come to rest. The tenant cache, the processes and the background worker can
always go on, and their runs check that.

| Run | Checks |
|---|---|
| `ingestion_one_document` | `CompletedIsSearchable`, `DeadLetterIsFinal`, `NoRejectedAdvance`, `CompletedJobTold`, `ErrorIffFailed`, `ImplementsLifecycle`, `JobsSettle` |
| `ingestion_two_requests` | `ProcessingAnswerIsBacked`, `DuplicatesOverlap`, and `JobsSettle` for two jobs and one slot |
| `rate_limiter` | `RecentBound`, `DeniedForCause` |
| `token_chunking` | `NothingLost`, `ChunksAdvance`, `CountAsExpected`, `Terminates` |
| `rag_chat` | types and the history bound, `QuestionBeforeAnswer`, `HalfTurnsAreBroken`, `AnsweredIsRemembered` |
| `embedding_cache` | `CacheIsSound`, `ReturnedInOrder` |
| `rag_context` | `CitationsMatch`, `BestAreUsed`, `FillsBudget` |
| `tenant_cache` | types, `StaleBound`, `InvalidationWorks`, `SerialUnlessStale`, `EventuallyCurrent` |
| `startup` | `ReadyHasCollection`, `IndexedUnlessInterrupted`, `OnlyUnclosedLeft`, `ComesUp` |
| `background_worker` | types, `ConcurrencyBound`, `EachTaskOnce`, `StartsInOrder`, `TasksSettle` |
| `dead_letter_claim`, `payload_index_claim` | counterexamples, section 6 |

Where `TypeOK` is not among the checks of a run, it is a theorem (section 5);
so are `ChunksFit`, `LoopAdvances` and `OwnHistory`.

### Bounds

- *One document.* A request with a blank text (0 chunks), a text of one batch
  (1 chunk) and one of two batches (3 chunks, `BatchSize` 2, so the last batch is
  partial). Two tries, so an outcome of a first try is overwritten by a second and
  the last-try test is met on both sides. Two workers, so a retry may run in
  another process. All properties of this run are about one document at a time;
  attempts at different documents touch different rows and points.
- *Two requests.* Two requests of one tenant with one content: the races of
  `find_duplicate` with every stage of the other's life, up to FAILED or deleted; that
  a COMPLETED document is found like any other, and that those of other tenants are
  not, is in the theorem only. One worker with one slot and two tries, so a retry of
  one job contends with the other job for the slot.
- *Rate limiter.* Three requests, limit 1, window 2, clock up to 3: one request
  can be in the window, one at its edge and one outside. Two random suffixes, so members may be equal or not.
- *Chunking.* All documents of at most 7 tokens with every placement of white
  space, chunk sizes 1 to 5 around the cap of 4, overlaps 0 to 4: overlap below,
  at and above half of the size, and up to seven windows.
- *Chat.* Two requests of the same user, of two users or of none; answers of 0
  to 2 deltas; a history of 3, so that LTRIM cuts a turn of the 4 messages in two;
  a prompt of 2.
- *Embedding cache.* Two calls, two models, two texts, batches of up to 3 texts,
  which must repeat one.
- *Context.* Up to three points, scores below, at and above the threshold, blocks
  of 0 to 3 tokens and a budget of 4, which is exceeded, filled or left over.
- *Tenant cache.* Two clients, a TTL of 2 and a delay of 1, so that an entry can
  be written back late and still outlive the copy it holds; three writes of the
  row, which a lost update and a later correct one need.
- *Startup.* Two API processes and a worker, three indexed fields, two crashes or
  failing calls in all: one in each of two processes, or two in one.
- *Background worker.* Four tasks and two places: two hold the semaphore while one
  waits and one is queued, across any number of stops and starts.

## 4. Fairness

`JobsSettle` assumes that the workers keep polling the queue (`WF` of `Claim`)
and that a running attempt is resumed when the service it awaits answers (`WF`
of `Task \/ Pipeline`); ARQ's poll loop and the event loop do this. `Terminates`
assumes that a loop that can go on does. `EventuallyCurrent` assumes that time
passes (`WF` of `Tick`) and that a call is resumed when PostgreSQL or Redis has
answered. `ComesUp` assumes that a process that is down is started again
(`restart: unless-stopped` in `docker-compose.yml`) and that the calls it awaits
answer; faults are bounded by `MaxFaults`, so it says that a process comes up
once the faults cease. `TasksSettle` assumes that the event loop resumes what is
ready and that the coroutine of a task ends. Nothing is assumed of clients,
failures, crashes or timeouts: these may or may not happen. Crashes cannot go on
for ever in `JobsSettle`, because each one uses up a try.

## 5. Proofs

Every `*Proofs` module has the same outline: an inductive invariant `IndInv`,
one lemma per action or group of actions, `NextInv`, and a theorem for each
property; `ProcessProofs` has it twice, with `IndInv` for the queue and `StartupInv`
for the processes. The assumptions are the ASSUMEs of the modules and nothing else.

- **Ingestion** (`IngestionProofs`). The properties are not inductive alone. Added
  are `AttemptInv` (an attempt has a host and a positive try exactly while its job
  runs), `RequestInv` (how far the request is determines whether there is a row
  and a job; in particular no job exists while the API may still write the row),
  `ProgressInv` (what total, done and the stored points are at each await),
  `StageInv` (which stage an await belongs to, and that a returning attempt that
  says COMPLETED left the row so) and `DeadLetterInv` (a dead letter comes from
  the last try). For `DuplicatesOnlyOverlap` a second invariant, `SeenInv`, relates
  what each request saw to the rows and to how far the requests are: of two
  documents with one tenant and content neither request can have seen the other's
  row, which is possible only while both were between the lookup and the save.
  `Refinement` is the step simulation of `DocumentLifecycle`: points
  are never removed, so `Searchable` only grows, and a row becomes COMPLETED only
  at `UpdateCompleted`, where `ProgressInv` says that all points are stored.
  `JobsDescend` is the safety half of `JobsSettle`: by `JobsMoveOn` every fair step
  brings its job closer to its end (in the next try, or with fewer awaits or fewer
  chunks ahead), crashes, timeouts, deletions and other requests never set one back,
  and a complete or failed job stays so. Tries, awaits and chunks are bounded, so a job
  takes boundedly many steps; that it takes them is fairness, and TLC's part.
- **RateLimiter**. `TimeInv` (stamps are not in the future), `ExpiryInv` (the key
  outlives the entries still inside the window), `KeptInv` (under `DistinctMembers`
  every allowed request of the last window is still in the set), `SizeInv` (the set
  never exceeds the limit), `ResultInv` (members of the set were allowed). KeptInv
  and SizeInv give `RecentBound`. A late script carries an older `now` and removes
  fewer entries, and a prune removes only what is outside the window of the
  present: this is why the bound holds for the present window and not for others.
- **TokenChunking**. `LoopInv` says that all text before `start` is covered and
  that every chunk so far starts before `start` and ends at most an overlap after
  it; with the cap of the overlap at half the size (`WindowAdvances`) it gives
  progress, coverage and order. `CountInv` is about documents without white space:
  there every window is a chunk, so the pass after k chunks starts at k strides, and
  the last one is the k-th where n - overlap - 1 lies between k strides and k + 1
  (`DivUnique` makes that a quotient). It gives `CountAsExpected`.
- **RagChat**. `PcInv` (where a request can be, given its user, its mode and the
  answer received so far), `AnswersSaved` (an answer is in a history only once its
  request has saved it, so nothing is saved twice), `RespondRemembered` (a turn is
  remembered before the response is sent), `AnswerArrived` (nothing is saved before the
  answer is complete), `QuestionsAnswered` (a stored question is followed by its
  answer, or its request is still about to save it, or broken), and the lemma `LastOfIsSuffix`: LTRIM
  and LRANGE keep a suffix, and with it the order.
- **EmbeddingCache**. `CallsInv`: each text has its embedding as result, or has none
  and is still `Ahead` of the loop that will fill it in: not looked up yet, or
  among the missing ones not written yet. At the return nothing is ahead.
- **RagContext**. `RelevantInv`, `UsedInv`, `SourcesInv`: `relevant` is the filtered
  prefix of the answer, `used` is a prefix of `relevant`, and the numbers on the
  blocks are 1, 2, 3 …. `TotalInv` ties the running total to the recursive
  reference `TokensUpTo`, which gives `FillsBudget`. That the reference satisfies its
  own recursion (`TokensUpToDef`) is proved by induction in the form of a least
  counterexample (`LeastOf`, from the well-foundedness of `<` on Nat): the library's
  induction theorems take an operator, which the provers cannot instantiate, a set
  they can.
- **TenantCache**. `AgeInv` says how old a copy can be: one on its way to the cache
  was superseded while its lookup held it, so at most its delay ago; an entry at
  most that plus what is over of its time to live. It gives `StaleBound`, which alone
  says nothing of the copies that will become entries. `CurrentInv` (a copy or entry
  that nothing superseded is the row) and `UnsavedInv` (before save() nobody holds a
  copy) are what `SerialUnlessStale` needs: a change made to a current copy is a
  change made to the row.
- **BackgroundWorker** (`ProcessProofs`). `LineInv`: `waiting`, and behind it `queue`,
  are in the order of the tasks' numbers, so a task stands in one place only.
  `StatusInv`: a task is PENDING exactly while it stands in that line. The task that
  starts is the first of the line, which gives `StartsInOrder`; the count of
  `holders` changes by one in `Acquire`, under the semaphore's test, and in `Release`.
- **Startup** (`ProcessProofs`, which extends both modules; that is why the
  specification of `BackgroundWorker` is called `BWSpec`). `ApiInv`: only an API
  process is in ensure_collection, and one is past it only when the collection exists.
  `IndexInv`: the loop over the fields is entered by the one process whose
  create_collection succeeded, at field 1 with no index made, and without a collection
  nobody is in it; so it stays alone and the indexes are the fields before its own.
  `OpenInv`: which clients are closed at each step of a shutdown.

Every safety property of the passing runs is a theorem. Only model-checked are the
liveness properties (`JobsSettle`, `Terminates`, `EventuallyCurrent`, `ComesUp`,
`TasksSettle`), because TLAPS does not prove liveness under fairness; of `JobsSettle`
and `Terminates` the safety half is proved (`JobsDescend`, `WindowsMoveOn`).

## 6. Where documents and code disagree

- `dead_letter_claim`: every attempt ends in the TypeError of section 2, so the
  document is dead-lettered with its row still PROCESSING;
  `knowledge-base/03-request-flow.md` promises FAILED.
- `payload_index_claim`: a process ends between `create_collection` and its last
  `create_payload_index`; every later start finds the collection and returns, so
  the remaining indexes are never made, although the adapter says they are created
  on startup. What does hold is `IndexedUnlessInterrupted`.

Four more need no counterexample: a property that passes says something else
than the text. KB 05 is `knowledge-base/05-concurrency-and-consistency.md`.

- KB 05:171: "a document can be `COMPLETED` in PostgreSQL but its chunks not yet
  searchable in Qdrant if the worker is slow. This is expected behavior". The code
  is better than that: `upsert_many` is awaited before the update to COMPLETED, and
  a Qdrant upsert returns when its points can be found. `CompletedIsSearchable` and
  `ImplementsLifecycle` state the stronger promise, and it holds.
- KB 05:181: "Document status FSM prevents double-processing (PROCESSING → can't
  start again)". It does not: the pipeline does not look at the status of the row,
  and a job whose worker died after the update to COMPLETED is processed again.
  `DocumentLifecycle` therefore lets a COMPLETED document be FAILED later.
- `context_service.py:18`: "Fits as many high-quality chunks as possible within the
  token budget". The loop stops at the first block that does not fit, so when the
  best block alone exceeds the budget the context is empty although later blocks
  would fit. `FillsBudget` states what is computed, the longest run of best blocks;
  `CitationsMatch` depends on the loop stopping there.
- KB 05:153: "Tenant lookup: Consistent within 5 minutes (cache TTL)". A lookup that
  reads the row before an update and writes its copy to the cache after the update
  has deleted the entry starts a new TTL for a tenant already superseded. The bound
  that holds is the TTL plus the time such a lookup may take (`StaleBound`); in the
  run, with a TTL of 2 and a delay of 1, entries superseded 2 ticks ago are reached,
  which the documented bound excludes.

## 7. Observations without a run

- With the call repaired, `ProcessDocumentUseCase.execute` swallows every
  exception, so the task returns normally, ARQ records the job as complete and
  neither retries nor dead-letters it. Only a timeout, a crash or a failing call
  leads to a second try.
- A second try draws new chunk ids, so the points of the first stay in Qdrant
  beside the new ones. `CompletedIsSearchable` therefore says "for some attempt".
- A crash after the update to COMPLETED makes the job run again; the pipeline does
  not look at the row's status, so the document may end FAILED while its points
  can be found. `DocumentLifecycle` allows this (`Fail` from COMPLETED).
- `IngestionJob.fail` does not consult the transition table, so a job may go from
  COMPLETED to FAILED; `NoRejectedAdvance` is about `advance_status`. In that case
  `CompletedJobTold`, which is about jobs that are COMPLETED, says nothing.
- Two overlapping requests both find no duplicate and both save: no constraint makes
  (tenant_id, content_hash) unique, although
  `knowledge-base/05-concurrency-and-consistency.md` (line 180) counts on
  deduplication. `DuplicatesOverlap` is what holds: only overlapping requests can.
- An upload that fails after `save` and before `enqueue_job` leaves a row without a
  job; the client that tries again is answered "duplicate" (compare line 114 of
  the same document).
- Deleting a document removes its row only: its points stay searchable, and a
  running job goes on.
- Chunks are never removed from a worker's in-memory repository.
- Two requests with an equal printed time and random number share a member of the
  sorted set and count as one (`DistinctMembers`).
- A script may run with a `now` older than the prune of another request, so a window
  of the past may hold more than the limit (line 152 of the same document);
  `RecentBound` is about the window that ends at present.
- `stream()` yields its last chunk before it saves the turn; a client that leaves
  then is not remembered. `AnsweredIsRemembered` is about `execute()`.
- Two requests of one user that run together each get a prompt without the other's
  turn, and their messages may alternate in the list: `QuestionBeforeAnswer`
  is about the two messages of one turn.
- The two messages of a turn are two writes. A failure of the second, or a client
  that leaves a stream between them, leaves a question without an answer in the
  history, and later prompts contain it. `HalfTurnsAreBroken` says that only such
  a request does.
- LTRIM may keep an answer whose question it cut.
- `chunk` encodes with tiktoken's defaults (`token_aware_chunking.py:73`), so a document
  that contains the text of a special token such as `<|endoftext|>` raises ValueError;
  in the pipeline this is a `StageRaises`, and the document ends FAILED.
- A chunk boundary inside a multi-byte character loses that character in both chunks
  when the overlap is 0 (`token_aware_chunking.py:87`).
- The blank lines that join the context blocks are not counted in the budget.
- `update()` of a tenant writes every column of an entity that may come from the
  cache: it may undo another client's deduction, or make a deactivated tenant
  active again. `SerialUnlessStale` says that nothing else loses a change.
- `delete()` of a tenant leaves the cache entry, so the key works until it expires,
  although `knowledge-base/04-database-redis.md` (line 226) has a deactivation delete it.
- `BackgroundWorker.stop()` does not wait for running tasks, as its docstring says
  it does, and a task already taken from the queue starts after it.
- `container.arq_pool()` in the shutdown of `main.py` is not awaited, so its
  `aclose()` raises AttributeError at every shutdown. It is the last step, so the
  database, Redis and Qdrant clients are closed by then (`OnlyUnclosedLeft`).
- The AsyncOpenAI clients (`openai_embedding.py:47`, `openai_chat.py:41`) and the ARQ
  pools made for the use cases (`container.py:127`) are closed by neither the lifespan
  of `main.py` nor the shutdown of the worker: they last until the process ends.
- A worker does not look for the collection. If it takes a job before any API
  process has created it, `upsert_many` fails (`StageRaises` in `Ingestion`).
- `search` passes no tenant to Qdrant and the points hold none, so results are not
  restricted to the tenant that asks.
- `SimpleChunkingStrategy.chunk` breaks a window at a newline and then steps back by
  the overlap. When the break is at most an overlap after the start, `start` does
  not advance, and the guard marked "Prevent infinite loop" does not stop it. The
  container uses `TokenAwareChunkingStrategy`, whose overlap is capped.

## 8. Not modelled, and the plan

Order of the plan: ingestion first (the only part in which two processes and four
stores must agree), then the parts shared by concurrent requests (rate limiter,
chat history, embedding cache, tenants), the pure algorithms (chunking, context),
and the life of the processes and of the in-process queue. These are done, and their
safety properties are proved. What is left is to prove the safety half of the remaining
liveness properties: a rank for each that the fair steps decrease and no other step
increases.

1. `TasksSettle`: the place of a task in the line and the holders before it.
2. `ComesUp` between crashes: the awaits and fields ahead of a starting process.
3. `EventuallyCurrent`: the time to live left of an entry that is superseded.

Left out for good:

- `SimpleChunkingStrategy` and `InMemoryDocumentRepository`: the application does not
  use them.
- The search filter and the mapping between entities, DTOs and schemas: field by
  field, without state or order.
- The error handlers, the request log and the API-key check: a function of one
  exception or one header, read by no other step.
- The wording of prompts, the tokenizer, Qdrant's ranking, settings and wiring (what
  matters of them are constants of the models), and the deployment files.
