------------------------------ MODULE RagChat ------------------------------
(***************************************************************************)
(* POST /chat: RAGChatUseCase.execute and .stream over the chat history    *)
(* that RedisChatHistoryRepository keeps per user.  A step ends at an      *)
(* await or a yield, so requests of one user interleave between reading    *)
(* the history and appending to it, and may fail or lose their client at   *)
(* each of these points.                                                   *)
(*                                                                         *)
(* Only the history is kept of the prompt: search results and the context  *)
(* built from them are local to a request.  A message is known by the      *)
(* request it belongs to, its role and its length in deltas.               *)
(***************************************************************************)
EXTENDS Naturals, Sequences

CONSTANTS
    Reqs,           \* chat requests
    Users,
    NoUser,         \* a request without user_id
    MaxAnswer,      \* longest answer of the LLM, in deltas
    MaxHistory,     \* _MAX_HISTORY_SIZE
    PromptHistory   \* get_history(user_id, limit=5)

ASSUME ChatAssumption ==
    /\ NoUser \notin Users
    /\ MaxAnswer \in Nat
    /\ MaxHistory \in Nat \ {0}
    /\ PromptHistory \in Nat \ {0}

VARIABLES
    user, streaming,  \* the request's user_id and its stream flag
    answerLen,        \* how many deltas the LLM answers with
    pc,
    prompt,           \* the history in its prompt
    sent,             \* deltas of the answer received from the LLM so far
    got,              \* what its client has
    history,          \* chat:{user_id}
    forgotten         \* requests whose turn a clear_history removed

inputs == <<user, streaming, answerLen>>
vars == <<inputs, pc, prompt, sent, got, history, forgotten>>

Pcs == {"search", "history", "llm", "stream", "saveUser", "saveAnswer", "respond", "ended", "broken"}

\* execute() or stream() is over: it came to its end, or it was broken off.
Over(r) == pc[r] \in {"ended", "broken"}

HasUser(r) == user[r] # NoUser

Question(r) == [role |-> "user", req |-> r, len |-> 0]
Answer(r)   == [role |-> "assistant", req |-> r, len |-> sent[r]]

Messages == [role : {"user", "assistant"}, req : Reqs, len : 0 .. MaxAnswer]

\* LRANGE and LTRIM with (-n, -1): the last n entries.
LastOf(s, n) == SubSeq(s, IF Len(s) > n THEN Len(s) - n + 1 ELSE 1, Len(s))

Init ==
    /\ user \in [Reqs -> Users \cup {NoUser}]
    /\ streaming \in [Reqs -> BOOLEAN]
    /\ answerLen \in [Reqs -> 0 .. MaxAnswer]
    /\ pc = [r \in Reqs |-> "search"]
    /\ prompt = [r \in Reqs |-> <<>>]
    /\ sent = [r \in Reqs |-> 0]
    /\ got = [r \in Reqs |-> "nothing"]
    /\ history = [u \in Users |-> <<>>]
    /\ forgotten = {}

-----------------------------------------------------------------------------
Goto(r, l) == pc' = [pc EXCEPT ![r] = l]

CallLlm(r) == IF streaming[r] THEN "stream" ELSE "llm"

\* The search and the context built from its results.
Search(r) ==
    /\ pc[r] = "search"
    /\ Goto(r, IF HasUser(r) THEN "history" ELSE CallLlm(r))
    /\ UNCHANGED <<inputs, prompt, sent, got, history, forgotten>>

\* get_history and build_rag_prompt.
LoadHistory(r) ==
    /\ pc[r] = "history" /\ HasUser(r)
    /\ prompt' = [prompt EXCEPT ![r] = LastOf(history[user[r]], PromptHistory)]
    /\ Goto(r, CallLlm(r))
    /\ UNCHANGED <<inputs, sent, got, history, forgotten>>

\* Mutant of Complete: the client is answered before the turn is saved.
CompleteAndAnswer(r) ==
    /\ pc[r] = "llm"
    /\ sent' = [sent EXCEPT ![r] = answerLen[r]]
    /\ got' = [got EXCEPT ![r] = "answer"]
    /\ Goto(r, IF HasUser(r) THEN "saveUser" ELSE "respond")
    /\ UNCHANGED <<inputs, prompt, history, forgotten>>

\* execute(): the whole answer arrives at once.
Complete(r) ==
    /\ pc[r] = "llm"
    /\ sent' = [sent EXCEPT ![r] = answerLen[r]]
    /\ Goto(r, IF HasUser(r) THEN "saveUser" ELSE "respond")
    /\ UNCHANGED <<inputs, prompt, got, history, forgotten>>

\* stream(): a delta arrives, is added to full_content and yielded.
StreamDelta(r) ==
    /\ pc[r] = "stream"
    /\ sent[r] < answerLen[r]
    /\ sent' = [sent EXCEPT ![r] = @ + 1]
    /\ got' = [got EXCEPT ![r] = "partial"]
    /\ UNCHANGED <<inputs, pc, prompt, history, forgotten>>

\* The LLM's stream ends and the chunk with done=True is yielded; the history
\* is only saved when the generator is resumed.
StreamFinal(r) ==
    /\ pc[r] = "stream"
    /\ sent[r] = answerLen[r]
    /\ got' = [got EXCEPT ![r] = "answer"]
    /\ Goto(r, IF HasUser(r) THEN "saveUser" ELSE "ended")
    /\ UNCHANGED <<inputs, prompt, sent, history, forgotten>>

\* Mutant of SaveMessage: no LTRIM.
SaveUntrimmed(u, m) == history' = [history EXCEPT ![u] = Append(@, m)]

\* save_message: RPUSH and LTRIM in one transaction.
SaveMessage(u, m) == history' = [history EXCEPT ![u] = LastOf(Append(@, m), MaxHistory)]

\* Mutant of SaveUser: the write is retried although it took effect.
SaveUserRetried(r) ==
    /\ pc[r] = "saveUser"
    /\ SaveMessage(user[r], Question(r))
    /\ \E l \in {"saveUser", "saveAnswer"} : Goto(r, l)
    /\ UNCHANGED <<inputs, prompt, sent, got, forgotten>>

SaveUser(r) ==
    /\ pc[r] = "saveUser"
    /\ SaveMessage(user[r], Question(r))
    /\ Goto(r, "saveAnswer")
    /\ UNCHANGED <<inputs, prompt, sent, got, forgotten>>

SaveAnswer(r) ==
    /\ pc[r] = "saveAnswer"
    /\ SaveMessage(user[r], Answer(r))
    /\ Goto(r, IF streaming[r] THEN "ended" ELSE "respond")
    /\ UNCHANGED <<inputs, prompt, sent, got, forgotten>>

\* execute() returns the response.
Respond(r) ==
    /\ pc[r] = "respond"
    /\ got' = [got EXCEPT ![r] = "answer"]
    /\ Goto(r, "ended")
    /\ UNCHANGED <<inputs, prompt, sent, history, forgotten>>

\* An await raises, whether or not the service did what it was asked: an error
\* response, or a stream that breaks off.
Fails(r) ==
    /\ ~Over(r)
    /\ got' = [got EXCEPT ![r] = IF streaming[r] THEN @ ELSE "error"]
    /\ Goto(r, "broken")
    /\ UNCHANGED <<inputs, prompt, sent, history, forgotten>>

\* Mutant of Disconnect: what was streamed so far is saved.
DisconnectSaves(r) ==
    /\ streaming[r] /\ ~Over(r)
    /\ IF pc[r] = "stream" /\ HasUser(r)
       THEN SaveMessage(user[r], Answer(r))
       ELSE UNCHANGED history
    /\ Goto(r, "broken")
    /\ UNCHANGED <<inputs, prompt, sent, got, forgotten>>

\* _stream_generator finds its client gone, or is cancelled: stream() is left
\* where it is.
Disconnect(r) ==
    /\ streaming[r] /\ ~Over(r)
    /\ Goto(r, "broken")
    /\ UNCHANGED <<inputs, prompt, sent, got, history, forgotten>>

\* clear_history, or the end of the key's seven days.
ClearHistory(u) ==
    /\ history[u] # <<>>
    /\ history' = [history EXCEPT ![u] = <<>>]
    /\ forgotten' = forgotten \cup {r \in Reqs : user[r] = u /\ pc[r] \in {"respond", "ended"}}
    /\ UNCHANGED <<inputs, pc, prompt, sent, got>>

RequestStep(r) ==
    \/ Search(r) \/ LoadHistory(r) \/ Complete(r) \/ StreamDelta(r) \/ StreamFinal(r)
    \/ SaveUser(r) \/ SaveAnswer(r) \/ Respond(r)

Next ==
    \/ \E r \in Reqs : RequestStep(r) \/ Fails(r) \/ Disconnect(r)
    \/ \E u \in Users : ClearHistory(u)

Spec == Init /\ [][Next]_vars

-----------------------------------------------------------------------------
\* Every variable has its type; a history never exceeds _MAX_HISTORY_SIZE.
TypeOK ==
    /\ user \in [Reqs -> Users \cup {NoUser}]
    /\ streaming \in [Reqs -> BOOLEAN]
    /\ answerLen \in [Reqs -> 0 .. MaxAnswer]
    /\ pc \in [Reqs -> Pcs]
    /\ prompt \in [Reqs -> Seq(Messages)]
    /\ sent \in [Reqs -> 0 .. MaxAnswer]
    /\ got \in [Reqs -> {"nothing", "partial", "answer", "error"}]
    /\ history \in [Users -> Seq(Messages)]
    /\ \A u \in Users : Len(history[u]) <= MaxHistory
    /\ forgotten \in SUBSET Reqs

\* However the turns of a user interleave and whatever LTRIM cuts off, a
\* history holds each message at most once, a question before its answer.
QuestionBeforeAnswer ==
    \A u \in Users : \A j, k \in DOMAIN history[u] :
        j < k /\ history[u][j].req = history[u][k].req =>
            history[u][j].role = "user" /\ history[u][k].role = "assistant"

\* Every message in a history is of a request whose answer arrived to the last
\* delta, and a stored answer is all of it: nothing is kept of a failed call or
\* of an abandoned stream.  A stored question has its answer after it once its
\* request came to its end, whatever LTRIM cut off.  (A request that is broken
\* off between the two save_message calls leaves its question alone.)
HalfTurnsAreBroken ==
    \A u \in Users : \A k \in DOMAIN history[u] :
        LET m == history[u][k] IN
        /\ sent[m.req] = answerLen[m.req]
        /\ m.role = "assistant" => m.len = answerLen[m.req]
        /\ m.role = "user" /\ pc[m.req] \in {"respond", "ended"} =>
              \E j \in DOMAIN history[u] : k < j /\ history[u][j] = Answer(m.req)

\* A prompt and a history hold messages of one user only.
OwnHistory ==
    /\ \A u \in Users : \A k \in DOMAIN history[u] : user[history[u][k].req] = u
    /\ \A r \in Reqs : \A k \in DOMAIN prompt[r] : user[prompt[r][k].req] = user[r]

\* A client of execute() that has its answer finds it in its history, until
\* the history is cleared or has filled up.  (stream() gives no such promise:
\* it yields the last chunk before it saves.)
AnsweredIsRemembered ==
    \A r \in Reqs : got[r] = "answer" /\ ~streaming[r] /\ HasUser(r) =>
        \/ r \in forgotten
        \/ Len(history[user[r]]) = MaxHistory
        \/ \E k \in DOMAIN history[user[r]] : history[user[r]][k] = Answer(r)
=============================================================================
