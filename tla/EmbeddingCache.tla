--------------------------- MODULE EmbeddingCache ---------------------------
(***************************************************************************)
(* OpenAIEmbeddingService.embed_batch over the embeddings that RedisCache  *)
(* keeps: every search and every worker calls it, all sharing one Redis.   *)
(* A step ends at an await, so calls with common texts interleave between  *)
(* the lookups, the request to OpenAI and the writes, and entries expire   *)
(* or are evicted at any time.                                             *)
(*                                                                         *)
(* An embedding is known by the model and the text it was made from.       *)
(***************************************************************************)
EXTENDS Naturals, Sequences

CONSTANTS
    Calls,      \* calls of embed_batch; embed is a batch of one
    Texts,
    Models,     \* embedding models of the deployments that share the Redis
    MaxTexts,   \* bound on the size of a batch
    Digests,    \* values of the first 16 digits of a SHA-256
    Digest,     \* the digest of a text
    NoVector    \* None: no entry, or no result yet

Vectors == [model : Models, text : Texts]

\* The digests of the texts in use differ.
ASSUME CacheAssumption ==
    /\ MaxTexts \in Nat
    /\ Digest \in [Texts -> Digests]
    /\ \A t, u \in Texts : Digest[t] = Digest[u] => t = u
    /\ NoVector \notin Vectors

VARIABLES
    batch, model,   \* the arguments of a call
    pc,
    pos,            \* index of the running loop
    missing,        \* uncached_indices
    results,
    cache           \* embed:{model}:{digest}

args == <<batch, model>>
vars == <<args, pc, pos, missing, results, cache>>

Batches == UNION {[1 .. n -> Texts] : n \in 0 .. MaxTexts}

\* Mutant of Key: the model is left out of the key.
KeyOfText(m, t) == <<CHOOSE x \in Models : TRUE, Digest[t]>>

\* _embedding_key.
Key(m, t) == <<m, Digest[t]>>
Keys == Models \X Digests

\* What OpenAI answers for a text.
Embedding(m, t) == [model |-> m, text |-> t]

Init ==
    /\ batch \in [Calls -> Batches]
    /\ model \in [Calls -> Models]
    /\ pc = [c \in Calls |-> IF batch[c] = <<>> THEN "returned" ELSE "lookup"]
    /\ pos = [c \in Calls |-> 1]
    /\ missing = [c \in Calls |-> <<>>]
    /\ results = [c \in Calls |-> [j \in DOMAIN batch[c] |-> NoVector]]
    /\ cache = [k \in Keys |-> NoVector]

-----------------------------------------------------------------------------
\* The loop over the texts moves on, or ends: with every text cached the call
\* returns without asking OpenAI.
AfterLookup(c) ==
    IF pos[c] < Len(batch[c])
    THEN /\ pos' = [pos EXCEPT ![c] = @ + 1]
         /\ UNCHANGED pc
    ELSE /\ pos' = [pos EXCEPT ![c] = 1]
         /\ pc' = [pc EXCEPT ![c] = IF missing'[c] = <<>> THEN "returned" ELSE "openai"]

\* get_embedding of one text: a hit is its result, a miss joins the uncached.
Lookup(c) ==
    /\ pc[c] = "lookup"
    /\ LET v == cache[Key(model[c], batch[c][pos[c]])] IN
       /\ results' = [results EXCEPT ![c][pos[c]] = v]
       /\ missing' = [missing EXCEPT ![c] = IF v = NoVector THEN Append(@, pos[c]) ELSE @]
    /\ AfterLookup(c)
    /\ UNCHANGED <<args, cache>>

\* _call_openai returns an embedding for each uncached text, in their order.
CallOpenai(c) ==
    /\ pc[c] = "openai"
    /\ pc' = [pc EXCEPT ![c] = "write"]
    /\ UNCHANGED <<args, pos, missing, results, cache>>

\* Mutant of ResultIndex: the index within the uncached texts.
ResultIndexUncached(c) == pos[c]

\* original_idx: where the result of the pos-th uncached text belongs.
ResultIndex(c) == missing[c][pos[c]]

AfterWrite(c) ==
    IF pos[c] < Len(missing[c])
    THEN /\ pos' = [pos EXCEPT ![c] = @ + 1]
         /\ UNCHANGED pc
    ELSE /\ pc' = [pc EXCEPT ![c] = "returned"]
         /\ UNCHANGED pos

\* One pass of the loop that fills in the results.  set_embedding may fail;
\* the failure is logged and the loop goes on.
WriteBack(c) ==
    /\ pc[c] = "write"
    /\ LET t == batch[c][missing[c][pos[c]]] IN
       /\ results' = [results EXCEPT ![c][ResultIndex(c)] = Embedding(model[c], t)]
       /\ \/ cache' = [cache EXCEPT ![Key(model[c], t)] = Embedding(model[c], t)]
          \/ UNCHANGED cache
    /\ AfterWrite(c)
    /\ UNCHANGED <<args, missing>>

\* Redis fails in a lookup, or OpenAI fails, or answers with a vector of
\* another size than the settings name.
Raises(c) ==
    /\ pc[c] \in {"lookup", "openai"}
    /\ pc' = [pc EXCEPT ![c] = "raised"]
    /\ UNCHANGED <<args, pos, missing, results, cache>>

\* An entry's day is over, or Redis evicts it.
Expire(k) ==
    /\ cache[k] # NoVector
    /\ cache' = [cache EXCEPT ![k] = NoVector]
    /\ UNCHANGED <<args, pc, pos, missing, results>>

CallStep(c) == Lookup(c) \/ CallOpenai(c) \/ WriteBack(c)

Next ==
    \/ \E c \in Calls : CallStep(c) \/ Raises(c)
    \/ \E k \in Keys : Expire(k)

Spec == Init /\ [][Next]_vars

-----------------------------------------------------------------------------
\* Every variable has its type, and no loop runs past its list.
TypeOK ==
    /\ batch \in [Calls -> Batches]
    /\ model \in [Calls -> Models]
    /\ pc \in [Calls -> {"lookup", "openai", "write", "returned", "raised"}]
    /\ pos \in [Calls -> Nat \ {0}]
    /\ missing \in [Calls -> Seq(1 .. MaxTexts)]
    /\ results \in [Calls -> UNION {[1 .. n -> Vectors \cup {NoVector}] : n \in 0 .. MaxTexts}]
    /\ cache \in [Keys -> Vectors \cup {NoVector}]
    /\ \A c \in Calls :
        /\ pc[c] = "lookup" => pos[c] <= Len(batch[c])
        /\ pc[c] \in {"openai", "write"} => pos[c] <= Len(missing[c])

\* What a lookup finds was made from that text by that model, whoever wrote it
\* and whatever expired in between.
CacheIsSound ==
    \A m \in Models, t \in Texts : cache[Key(m, t)] \in {NoVector, Embedding(m, t)}

\* embed_batch returns the embedding of every text, in the order of the texts,
\* whichever of them were cached; none is left out.
ReturnedInOrder ==
    \A c \in Calls : pc[c] = "returned" =>
        /\ DOMAIN results[c] = DOMAIN batch[c]
        /\ \A j \in DOMAIN batch[c] : results[c][j] = Embedding(model[c], batch[c][j])
=============================================================================
