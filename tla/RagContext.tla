----------------------------- MODULE RagContext -----------------------------
(***************************************************************************)
(* From the points that Qdrant finds for a question to the numbered blocks *)
(* of the prompt and the numbered sources of the answer: the end of        *)
(* QdrantVectorRepository.search, ContextService.build_context and         *)
(* _build_sources of the chat use case.                                    *)
(*                                                                         *)
(* A point is known by its place in Qdrant's answer, its score, the tokens *)
(* of its block and whether its payload parses.                            *)
(***************************************************************************)
EXTENDS Naturals, Sequences

CONSTANTS
    TopK,        \* top_k of the request: the most points Qdrant returns
    Scores,      \* scores of points
    Threshold,   \* score_threshold
    MaxBlock,    \* the longest block, in tokens
    MaxContext   \* max_context_tokens

ASSUME ContextAssumption ==
    /\ TopK \in Nat
    /\ Scores \subseteq Nat
    /\ Threshold \in Nat
    /\ MaxBlock \in Nat
    /\ MaxContext \in Nat

Points == [id : 1 .. TopK, score : Scores, tokens : 0 .. MaxBlock, parses : BOOLEAN]

\* Qdrant's answer: at most top_k points, the best first.
Answers ==
    {s \in UNION {[1 .. n -> Points] : n \in 0 .. TopK} :
        /\ \A j \in DOMAIN s : s[j].id = j
        /\ \A j, k \in DOMAIN s : j < k => s[j].score >= s[k].score}

VARIABLES
    points,
    pc,
    scanned,    \* how many points have been looked at
    relevant,   \* the results whose score is high enough
    pos,        \* the loop's position in relevant, from 1
    used,       \* used_results
    numbers,    \* the numbers printed on the blocks
    total,      \* current_tokens
    sources     \* index and result of each source

vars == <<points, pc, scanned, relevant, pos, used, numbers, total, sources>>

Init ==
    /\ points \in Answers
    /\ pc = "search"
    /\ scanned = 0
    /\ relevant = <<>>
    /\ pos = 1
    /\ used = <<>>
    /\ numbers = <<>>
    /\ total = 0
    /\ sources = <<>>

-----------------------------------------------------------------------------
\* Mutant of IsRelevant: the threshold is not applied.
IsRelevantIfParsed(p) == p.parses

\* A point with a broken payload is skipped with a warning; one below the
\* threshold is left out of the context.
IsRelevant(p) == p.parses /\ p.score >= Threshold

Scan ==
    /\ pc = "search" /\ scanned < Len(points)
    /\ scanned' = scanned + 1
    /\ relevant' = IF IsRelevant(points[scanned + 1])
                   THEN Append(relevant, points[scanned + 1])
                   ELSE relevant
    /\ UNCHANGED <<points, pc, pos, used, numbers, total, sources>>

EnterLoop ==
    /\ pc = "search" /\ scanned = Len(points)
    /\ pc' = "blocks"
    /\ UNCHANGED <<points, scanned, relevant, pos, used, numbers, total, sources>>

\* Mutant of Fits: a block that fills the budget is refused.
FitsStrictly(p) == total + p.tokens < MaxContext

Fits(p) == total + p.tokens <= MaxContext

AddBlock ==
    /\ pc = "blocks" /\ pos <= Len(relevant)
    /\ Fits(relevant[pos])
    /\ used' = Append(used, relevant[pos])
    /\ numbers' = Append(numbers, pos)
    /\ total' = total + relevant[pos].tokens
    /\ pos' = pos + 1
    /\ UNCHANGED <<points, pc, scanned, relevant, sources>>

\* Mutant of Break: the block is skipped and the loop goes on.
BreakSkips ==
    /\ pc = "blocks" /\ pos <= Len(relevant)
    /\ ~Fits(relevant[pos])
    /\ pos' = pos + 1
    /\ UNCHANGED <<points, pc, scanned, relevant, used, numbers, total, sources>>

\* The first block that does not fit ends the loop.
Break ==
    /\ pc = "blocks" /\ pos <= Len(relevant)
    /\ ~Fits(relevant[pos])
    /\ pc' = "sources"
    /\ UNCHANGED <<points, scanned, relevant, pos, used, numbers, total, sources>>

LoopEnds ==
    /\ pc = "blocks" /\ pos > Len(relevant)
    /\ pc' = "sources"
    /\ UNCHANGED <<points, scanned, relevant, pos, used, numbers, total, sources>>

\* _build_sources numbers the used results from 1.
BuildSources ==
    /\ pc = "sources"
    /\ sources' = [k \in DOMAIN used |-> [index |-> k, result |-> used[k]]]
    /\ pc' = "done"
    /\ UNCHANGED <<points, scanned, relevant, pos, used, numbers, total>>

Next == Scan \/ EnterLoop \/ AddBlock \/ Break \/ LoopEnds \/ BuildSources

Spec == Init /\ [][Next]_vars

-----------------------------------------------------------------------------
\* Reference: the tokens of the first n blocks of a sequence of results.
TokensUpTo(s) ==
    LET t[n \in 0 .. Len(s)] == IF n = 0 THEN 0 ELSE t[n - 1] + s[n].tokens IN t

\* Every variable has its type, and the token count stays within the budget.
TypeOK ==
    /\ points \in Answers
    /\ pc \in {"search", "blocks", "sources", "done"}
    /\ scanned \in 0 .. Len(points)
    /\ relevant \in Seq(Points)
    /\ pos \in 1 .. Len(relevant) + 1
    /\ used \in Seq(Points)
    /\ numbers \in Seq(Nat)
    /\ total \in 0 .. MaxContext
    /\ sources \in Seq([index : Nat, result : Points])

\* A citation [n] in the answer names the source with index n: block, used
\* result and source agree in number and in result, also when the budget cuts
\* the list short.
CitationsMatch ==
    pc = "done" =>
        /\ Len(sources) = Len(numbers)
        /\ \A k \in DOMAIN sources :
            /\ sources[k].index = numbers[k]
            /\ sources[k].result = relevant[numbers[k]]

\* Nothing irrelevant or broken reaches the prompt, and no better result is
\* passed over for a worse one: each of a better rank that is relevant and
\* parses is used too.
BestAreUsed ==
    \A k \in DOMAIN used :
        /\ used[k].parses /\ used[k].score >= Threshold
        /\ \A j \in DOMAIN points :
            j < used[k].id /\ points[j].parses /\ points[j].score >= Threshold =>
                \E i \in DOMAIN used : i < k /\ used[i] = points[j]

\* The blocks are the longest run of relevant results that the budget holds,
\* from the best one on: the loop stops at the first block that does not fit.
\* (So they are not always as many as possible, which the docstring of
\* ContextService says: after an oversized block the smaller ones are left out.)
FillsBudget ==
    pc = "done" =>
        LET tokens == TokensUpTo(relevant) IN
        /\ used = SubSeq(relevant, 1, Len(used))
        /\ tokens[Len(used)] <= MaxContext
        /\ Len(used) < Len(relevant) => tokens[Len(used) + 1] > MaxContext
=============================================================================
