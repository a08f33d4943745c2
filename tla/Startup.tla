------------------------------ MODULE Startup ------------------------------
(***************************************************************************)
(* The life of the processes: the lifespan of an API process and the       *)
(* startup and shutdown hooks of an ARQ worker.  They open the PostgreSQL  *)
(* pool, an API process makes sure that the Qdrant collection exists, and  *)
(* the other clients are created when they are first used.  The processes  *)
(* share nothing but the collection.                                       *)
(*                                                                         *)
(* A step ends at an await.  Whatever raises in the startup or shutdown of *)
(* a process, and whatever kills it, ends the process; docker-compose then *)
(* starts it again (restart: unless-stopped).                              *)
(***************************************************************************)
EXTENDS Naturals

CONSTANTS
    Apis, Workers,  \* the two kinds of processes
    NumFields,      \* the length of _INDEXED_PAYLOAD_FIELDS
    MaxFaults       \* bound on crashes and failing calls, for model checking

ASSUME StartupAssumption ==
    /\ Apis \cap Workers = {}
    /\ NumFields \in Nat \ {0}
    /\ MaxFaults \in Nat

Procs  == Apis \cup Workers
Fields == 1 .. NumFields

VARIABLES
    collection,   \* whether the collection exists in Qdrant
    indexes,      \* the fields that have a payload index
    pc,
    field,        \* the loop of ensure_collection: the next field
    open,         \* the clients that a process holds
    interrupted,  \* history: a process ended inside that loop
    faults

qdrantVars == <<collection, indexes>>
vars == <<qdrantVars, pc, field, open, interrupted, faults>>

\* The clients the container hands out: the PostgreSQL pool, the Redis and the
\* Qdrant client, and under one name those that no shutdown closes, the
\* AsyncOpenAI clients of the two providers and the ARQ pools, one for each
\* IngestDocumentUseCase that is built.
Clients == {"db", "redis", "qdrant", "unclosed"}

\* The ones that a request, a job or the health check creates by using them.
Lazy == {"redis", "qdrant", "unclosed"}

Pcs == {"down", "connect", "exists", "create", "index", "ready",
        "closeDb", "closeRedis", "closeQdrant", "closeArq", "stopped"}

Init ==
    /\ collection = FALSE
    /\ indexes = {}
    /\ pc = [p \in Procs |-> "down"]
    /\ field = [p \in Procs |-> 1]
    /\ open = [p \in Procs |-> {}]
    /\ interrupted = FALSE
    /\ faults = 0

-----------------------------------------------------------------------------
Goto(p, l) == pc' = [pc EXCEPT ![p] = l]

Opens(p, cs)  == open' = [open EXCEPT ![p] = @ \cup cs]
Closes(p, c) == open' = [open EXCEPT ![p] = @ \ {c}]

\* The process ends, and what it holds with it.
Ends(p) ==
    /\ Goto(p, "down")
    /\ open' = [open EXCEPT ![p] = {}]
    /\ interrupted' = (interrupted \/ pc[p] = "index")

\* create_app, or the worker's startup hook, builds a Container of its own.
Boot(p) ==
    /\ pc[p] = "down"
    /\ Goto(p, "connect")
    /\ field' = [field EXCEPT ![p] = 1]
    /\ UNCHANGED <<qdrantVars, open, interrupted, faults>>

\* PostgresPool.connect.  The worker's hook is done.
Connect(p) ==
    /\ pc[p] = "connect"
    /\ Opens(p, {"db"})
    /\ Goto(p, IF p \in Apis THEN "exists" ELSE "ready")
    /\ UNCHANGED <<qdrantVars, field, interrupted, faults>>

-----------------------------------------------------------------------------
(* ensure_collection                                                       *)

\* Mutant of CollectionExists: a missing collection is left to the first write.
CollectionExistsOnly(p) ==
    /\ pc[p] = "exists"
    /\ Opens(p, {"qdrant"})
    /\ Goto(p, "ready")
    /\ UNCHANGED <<qdrantVars, field, interrupted, faults>>

CollectionExists(p) ==
    /\ pc[p] = "exists"
    /\ Opens(p, {"qdrant"})
    /\ Goto(p, IF collection THEN "ready" ELSE "create")
    /\ UNCHANGED <<qdrantVars, field, interrupted, faults>>

CreateCollection(p) ==
    /\ pc[p] = "create" /\ ~collection
    /\ collection' = TRUE
    /\ Goto(p, "index")
    /\ UNCHANGED <<indexes, field, open, interrupted, faults>>

\* Mutant of CreateConflict: the call is repeated for as long as it is refused.
CreateConflictRetries(p) ==
    /\ pc[p] = "create" /\ collection
    /\ UNCHANGED vars

\* Another process has created it since: Qdrant refuses, the client raises,
\* nothing catches it and the startup fails.
CreateConflict(p) ==
    /\ pc[p] = "create" /\ collection
    /\ Ends(p)
    /\ UNCHANGED <<qdrantVars, field, faults>>

\* Mutant of CreateIndex: the last field is left out.
CreateIndexButLast(p) ==
    /\ pc[p] = "index"
    /\ indexes' = IF field[p] < NumFields THEN indexes \cup {field[p]} ELSE indexes
    /\ field' = [field EXCEPT ![p] = @ + 1]
    /\ Goto(p, IF field[p] < NumFields THEN "index" ELSE "ready")
    /\ UNCHANGED <<collection, open, interrupted, faults>>

\* create_payload_index of one field; after the last one the API is up.
CreateIndex(p) ==
    /\ pc[p] = "index"
    /\ indexes' = indexes \cup {field[p]}
    /\ field' = [field EXCEPT ![p] = @ + 1]
    /\ Goto(p, IF field[p] < NumFields THEN "index" ELSE "ready")
    /\ UNCHANGED <<collection, open, interrupted, faults>>

-----------------------------------------------------------------------------
\* A request, a job or the health check uses the clients cs, creating them.
Serve(p, cs) ==
    /\ pc[p] = "ready"
    /\ Opens(p, cs)
    /\ UNCHANGED <<qdrantVars, pc, field, interrupted, faults>>

\* The server is told to stop: requests and jobs are over.
Shutdown(p) ==
    /\ pc[p] = "ready"
    /\ Goto(p, "closeDb")
    /\ UNCHANGED <<qdrantVars, field, open, interrupted, faults>>

CloseDb(p) ==
    /\ pc[p] = "closeDb"
    /\ Closes(p, "db")
    /\ Goto(p, "closeRedis")
    /\ UNCHANGED <<qdrantVars, field, interrupted, faults>>

\* Mutant of CloseRedis: the shutdown does not know of the Redis client.
CloseRedisForgotten(p) ==
    /\ pc[p] = "closeRedis"
    /\ Goto(p, "closeQdrant")
    /\ UNCHANGED <<qdrantVars, field, open, interrupted, faults>>

CloseRedis(p) ==
    /\ pc[p] = "closeRedis"
    /\ Closes(p, "redis")
    /\ Goto(p, "closeQdrant")
    /\ UNCHANGED <<qdrantVars, field, interrupted, faults>>

CloseQdrant(p) ==
    /\ pc[p] = "closeQdrant"
    /\ Closes(p, "qdrant")
    /\ Goto(p, IF p \in Apis THEN "closeArq" ELSE "stopped")
    /\ UNCHANGED <<qdrantVars, field, interrupted, faults>>

\* The provider of arq_pool is called without an await: what it returns has no
\* aclose, and the lifespan raises.
CloseArq(p) ==
    /\ pc[p] = "closeArq"
    /\ Ends(p)
    /\ UNCHANGED <<qdrantVars, field, faults>>

\* The worker's hook has returned and ARQ ends the process.
Exit(p) ==
    /\ pc[p] = "stopped"
    /\ Ends(p)
    /\ UNCHANGED <<qdrantVars, field, faults>>

\* The process is killed, or the call it awaits fails.
Crash(p) ==
    /\ pc[p] # "down"
    /\ faults < MaxFaults
    /\ faults' = faults + 1
    /\ Ends(p)
    /\ UNCHANGED <<qdrantVars, field>>

-----------------------------------------------------------------------------
StartStep(p) ==
    \/ Boot(p) \/ Connect(p)
    \/ CollectionExists(p) \/ CreateCollection(p) \/ CreateConflict(p) \/ CreateIndex(p)

StopStep(p) == CloseDb(p) \/ CloseRedis(p) \/ CloseQdrant(p) \/ CloseArq(p) \/ Exit(p)

Next ==
    \E p \in Procs :
        \/ StartStep(p) \/ StopStep(p) \/ Shutdown(p) \/ Crash(p)
        \/ \E cs \in SUBSET Lazy : Serve(p, cs)

Spec == Init /\ [][Next]_vars

\* A process that is down is started again, and a call that it awaits answers.
FairSpec == Spec /\ \A p \in Procs : WF_vars(StartStep(p)) /\ WF_vars(StopStep(p))

-----------------------------------------------------------------------------
\* Every variable has its type.
TypeOK ==
    /\ collection \in BOOLEAN
    /\ indexes \in SUBSET Fields
    /\ pc \in [Procs -> Pcs]
    /\ field \in [Procs -> 1 .. NumFields + 1]
    /\ open \in [Procs -> SUBSET Clients]
    /\ interrupted \in BOOLEAN
    /\ faults \in 0 .. MaxFaults

Indexing == {p \in Procs : pc[p] = "index"}

\* An API process serves only when the collection exists, whichever process
\* created it.
ReadyHasCollection ==
    \A p \in Apis : pc[p] \in {"ready", "closeDb", "closeRedis", "closeQdrant"} => collection

\* Of the processes that start together one creates the collection, and no
\* other start interferes with its indexes: the fields before the one it has
\* come to are indexed.  Once nobody is at work on them all the indexes exist,
\* unless the process that created the collection ended before it had made them.
IndexedUnlessInterrupted ==
    /\ \A p, q \in Indexing : p = q
    /\ \A p \in Indexing : indexes = 1 .. field[p] - 1
    /\ collection /\ Indexing = {} /\ ~interrupted => indexes = Fields

\* When a shutdown has come to its last step it has closed the PostgreSQL pool
\* and the Redis and Qdrant clients, whichever of them were in use and when
\* they were created.  Only the OpenAI clients and the ARQ pools can still be
\* open: the providers have no close(), and the pool that the lifespan asks for
\* is not one that a request has used.
OnlyUnclosedLeft ==
    \A p \in Procs : pc[p] \in {"closeArq", "stopped"} => open[p] \subseteq {"unclosed"}

\* A process that starts comes up, also one that lost the race to create the
\* collection or crashed.
ComesUp == \A p \in Procs : pc[p] = "connect" ~> pc[p] = "ready"

\* What the adapter says of itself (CRIT-6: payload indexes are created on
\* startup): when an API process is up and none is at work on them, the
\* payload indexes exist.
PayloadIndexesExist ==
    (\E p \in Apis : pc[p] = "ready") /\ Indexing = {} => indexes = Fields
=============================================================================
