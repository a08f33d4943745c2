--------------------------- MODULE TokenChunking ---------------------------
(***************************************************************************)
(* TokenAwareChunkingStrategy.chunk: a window slides over the token ids of *)
(* a document.  A token is known by its position; what matters of its text *)
(* is whether it is white space.  Each pass of the while loop is a step.   *)
(* A chunk is known by the tokens it was decoded from; decode() is not the *)
(* text again where a window cuts a character of several tokens.           *)
(***************************************************************************)
EXTENDS Integers, Sequences

CONSTANTS
    Lengths,     \* how many tokens a document may have
    ChunkSizes,  \* settings.chunking.chunk_size (ge=100, so positive)
    Overlaps,    \* settings.chunking.chunk_overlap (ge=0)
    MaxTokens    \* _MAX_TOKENS

ASSUME ChunkingAssumption ==
    /\ Lengths \subseteq Nat
    /\ ChunkSizes \subseteq Nat \ {0}
    /\ Overlaps \subseteq Nat
    /\ MaxTokens \in Nat \ {0}

VARIABLES
    n, white, chunkSize, chunkOverlap,  \* the arguments: len(token_ids), the blank tokens, ...
    pc, start,                          \* the loop
    chunks                              \* the ChunkData made so far: tokens first .. end-1

inputs == <<n, white, chunkSize, chunkOverlap>>
vars == <<inputs, pc, start, chunks>>

MinOf(a, b) == IF a <= b THEN a ELSE b

size == MinOf(chunkSize, MaxTokens)

\* Mutant of overlap: it may be the whole window.
overlapWholeWindow == MinOf(chunkOverlap, size)

overlap == MinOf(chunkOverlap, size \div 2)

Tokens == 0 .. n - 1

\* content.strip() is not empty, and neither is a window's text.
Blank == Tokens \subseteq white
HasText(first, end) == \E i \in first .. end - 1 : i \notin white

Init ==
    /\ n \in Lengths
    /\ white \in SUBSET Tokens
    /\ chunkSize \in ChunkSizes
    /\ chunkOverlap \in Overlaps
    /\ pc = "begin"
    /\ start = 0
    /\ chunks = <<>>

\* A blank document has no chunks (nor has one without tokens).
ReturnEmpty ==
    /\ pc = "begin" /\ Blank
    /\ pc' = "done"
    /\ UNCHANGED <<inputs, start, chunks>>

\* The text holds the name of a special token: encode() raises a ValueError.
EncodeRaises ==
    /\ pc = "begin" /\ ~Blank
    /\ pc' = "raised"
    /\ UNCHANGED <<inputs, start, chunks>>

EnterLoop ==
    /\ pc = "begin" /\ ~Blank
    /\ pc' = "loop"
    /\ UNCHANGED <<inputs, start, chunks>>

\* Mutants of Slide: the test for the last window is missing; the next window
\* skips a token; the overlap is forgotten.
SlideNoBreak(end) ==
    /\ pc' = IF end - overlap < n THEN "loop" ELSE "done"
    /\ start' = end - overlap

SlideTooFar(end) ==
    /\ pc' = IF end >= n THEN "done" ELSE "loop"
    /\ start' = IF end >= n THEN start ELSE end + 1

SlideNoOverlap(end) ==
    /\ pc' = IF end >= n THEN "done" ELSE "loop"
    /\ start' = IF end >= n THEN start ELSE end

\* `if end >= len: break', otherwise back by the overlap.
Slide(end) ==
    \/ /\ end >= n
       /\ pc' = "done"
       /\ UNCHANGED start
    \/ /\ end < n
       /\ pc' = "loop"
       /\ start' = end - overlap

Window ==
    LET end == MinOf(start + size, n) IN
    /\ pc = "loop"
    /\ chunks' = IF HasText(start, end)
                 THEN Append(chunks, [first |-> start, end |-> end])
                 ELSE chunks
    /\ Slide(end)
    /\ UNCHANGED inputs

Next == ReturnEmpty \/ EncodeRaises \/ EnterLoop \/ Window

Spec == Init /\ [][Next]_vars

\* chunk() is a plain loop: it runs on until it returns or raises.
FairSpec == Spec /\ WF_vars(Next)

-----------------------------------------------------------------------------
\* Every variable has its type; in particular start, the slice's lower bound in
\* token_ids[start:end], is never negative (Python would count from the end).
TypeOK ==
    /\ n \in Nat
    /\ white \in SUBSET Tokens
    /\ chunkSize \in Nat \ {0}
    /\ chunkOverlap \in Nat
    /\ pc \in {"begin", "loop", "done", "raised"}
    /\ start \in Nat
    /\ chunks \in Seq([first : Nat, end : Nat])

Covered(i) == \E k \in DOMAIN chunks : chunks[k].first <= i /\ i < chunks[k].end

\* When chunk() returns, every token that is not white space was decoded into a
\* chunk: no window is skipped.  (A character whose tokens two windows share is
\* whole in neither, unless the overlap holds it.)
NothingLost == pc = "done" => \A i \in Tokens \ white : Covered(i)

\* No chunk is empty, exceeds the requested size, or exceeds the embedding
\* model's limit.
ChunksFit ==
    \A k \in DOMAIN chunks :
        LET len == chunks[k].end - chunks[k].first IN
        0 < len /\ len <= chunkSize /\ len <= MaxTokens

\* Each chunk starts and ends after the one before it: no chunk repeats what an
\* earlier one already holds, so chunk_index orders them by position.
ChunksAdvance ==
    \A j, k \in DOMAIN chunks : j < k =>
        chunks[j].first < chunks[k].first /\ chunks[j].end < chunks[k].end

\* Reference: how many windows of s tokens, each sharing o with the next, it
\* takes to reach the end of n tokens.
WindowsNeeded(s, o) == IF n <= s THEN 1 ELSE 1 + ((n - o - 1) \div (s - o))

\* A document without white space gets exactly the chunks that its settings,
\* capped as documented, call for: the loop makes no window too many.
CountAsExpected ==
    pc = "done" /\ n > 0 /\ white = {} =>
        LET s == MinOf(chunkSize, MaxTokens)
            o == MinOf(chunkOverlap, s \div 2)
        IN  Len(chunks) = WindowsNeeded(s, o)

\* Every pass of the loop but the last moves the window forward and leaves it
\* inside the document: the progress `start = end - effective_overlap' relies on.
LoopAdvances == [][pc = "loop" /\ pc' = "loop" => start < start' /\ start' < n]_vars

\* chunk() returns or raises, whatever the arguments.
Terminates == <>(pc \in {"done", "raised"})
=============================================================================
