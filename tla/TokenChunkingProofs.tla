------------------------ MODULE TokenChunkingProofs ------------------------
(***************************************************************************)
(* The safety properties of TokenChunking, for documents of any length and *)
(* any settings.                                                           *)
(***************************************************************************)
EXTENDS TokenChunking, TLAPS

\* At the loop's test: the window is inside the document and, after the first
\* one, starts an overlap before the end of what has been covered.
LoopInv ==
    /\ pc = "begin" => start = 0 /\ chunks = <<>>
    /\ pc = "loop" =>
        /\ start < n
        /\ start > 0 => start + overlap < n
        /\ \A k \in DOMAIN chunks :
            chunks[k].first < start /\ chunks[k].end <= start + overlap
        /\ \A i \in Tokens \ white : i < start => Covered(i)

ChunksSized ==
    \A k \in DOMAIN chunks :
        chunks[k].first < chunks[k].end /\ chunks[k].end <= chunks[k].first + size

\* Without white space every window is a chunk, so the k-th pass starts k times
\* the stride into the document.
Stride == size - overlap

CountInv ==
    white = {} =>
        /\ pc = "loop" => start = Len(chunks) * Stride
        /\ pc = "done" /\ n > 0 => Len(chunks) = WindowsNeeded(size, overlap)

IndInv == TypeOK /\ LoopInv /\ ChunksSized /\ ChunksAdvance /\ NothingLost /\ CountInv

\* What the count needs of multiplication and division: SMT knows them for
\* given factors only.
LEMMA NextMultiple ==
    ASSUME NEW k \in Nat, NEW d \in Nat
    PROVE  k * d \in Nat /\ (k + 1) * d = k * d + d
OBVIOUS

LEMMA MultiplesGrow ==
    ASSUME NEW j \in Int, NEW k \in Int, j <= k, NEW d \in Nat
    PROVE  j * d <= k * d
OBVIOUS

LEMMA DivBounds ==
    ASSUME NEW a \in Nat, NEW d \in Nat \ {0}
    PROVE  a \div d \in Nat /\ (a \div d) * d <= a /\ a < (a \div d) * d + d
OBVIOUS

\* k is the quotient when a lies between the k-th multiple and the next.
LEMMA DivUnique ==
    ASSUME NEW a \in Nat, NEW d \in Nat \ {0}, NEW k \in Nat, k * d <= a, a < k * d + d
    PROVE  a \div d = k
<1> DEFINE q == a \div d
<1>1. q \in Nat /\ q * d <= a /\ a < q * d + d
  BY DivBounds
<1> HIDE DEF q
<1>2. /\ k * d \in Int /\ q * d \in Int
      /\ (q + 1) * d = q * d + d /\ (k + 1) * d = k * d + d
  BY <1>1, NextMultiple
<1>3. ~(q + 1 <= k)
  <2> SUFFICES ASSUME q + 1 <= k PROVE FALSE
    OBVIOUS
  <2>1. (q + 1) * d <= k * d
    BY <1>1, MultiplesGrow
  <2> QED
    BY <2>1, <1>1, <1>2
<1>4. ~(k + 1 <= q)
  <2> SUFFICES ASSUME k + 1 <= q PROVE FALSE
    OBVIOUS
  <2>1. (k + 1) * d <= q * d
    BY <1>1, MultiplesGrow
  <2> QED
    BY <2>1, <1>1, <1>2
<1>5. q = k
  BY <1>1, <1>3, <1>4
<1> QED
  BY <1>5 DEF q

\* The effective size is positive and the overlap smaller: every window that is
\* not the last moves on.
LEMMA WindowAdvances ==
    ASSUME chunkSize \in Nat \ {0}, chunkOverlap \in Nat
    PROVE  /\ size \in Nat \ {0}
           /\ overlap \in Nat
           /\ overlap < size
           /\ size <= chunkSize
           /\ size <= MaxTokens
BY ChunkingAssumption DEF size, overlap, MinOf

\* An entry of a sequence over S is in S.
LEMMA EntriesInSet ==
    ASSUME NEW S, NEW s \in Seq(S), NEW k \in DOMAIN s
    PROVE  s[k] \in S
OBVIOUS

\* The invariant holds when chunk() is called.
LEMMA InitInv == Init => IndInv
<1> SUFFICES ASSUME Init PROVE IndInv
  OBVIOUS
<1>1. TypeOK
  BY ChunkingAssumption DEF Init, TypeOK
<1>2. QED
  BY <1>1 DEF Init, IndInv, LoopInv, ChunksSized, ChunksAdvance, NothingLost, CountInv

\* The chunks after one pass of the loop: those before, and perhaps the window.
LEMMA WindowInv ==
    ASSUME IndInv, Window
    PROVE  IndInv'
<1> DEFINE end == MinOf(start + size, n)
           c == [first |-> start, end |-> end]
<1>1. /\ n \in Nat /\ start \in Nat /\ pc = "loop" /\ start < n
      /\ chunkSize \in Nat \ {0} /\ chunkOverlap \in Nat
      /\ white \in SUBSET Tokens
      /\ chunks \in Seq([first : Nat, end : Nat])
  BY DEF IndInv, TypeOK, LoopInv, Window
<1>2. /\ size \in Nat \ {0} /\ overlap \in Nat /\ overlap < size
  BY <1>1, WindowAdvances
<1>3. /\ end \in Nat /\ start < end /\ end <= n /\ end <= start + size
      /\ end < n => end = start + size
  BY <1>1, <1>2 DEF MinOf
<1>4. /\ n' = n /\ white' = white /\ chunkSize' = chunkSize
      /\ chunkOverlap' = chunkOverlap /\ size' = size /\ overlap' = overlap
      /\ Tokens' = Tokens
  BY DEF Window, inputs, size, overlap, Tokens
<1>5. /\ chunks' = IF HasText(start, end) THEN Append(chunks, c) ELSE chunks
      /\ Slide(end)
  BY DEF Window
<1>6. \/ end >= n /\ pc' = "done" /\ start' = start
      \/ end < n /\ pc' = "loop" /\ start' = end - overlap
  BY <1>5 DEF Slide
<1>7. start' \in Nat /\ (pc' = "loop" => start < start' /\ start' + overlap = end)
  BY <1>1, <1>2, <1>3, <1>6
<1>8. c \in [first : Nat, end : Nat] /\ c.first = start /\ c.end = end
  BY <1>1, <1>3
<1> HIDE DEF c, end
<1>9. /\ chunks' \in Seq([first : Nat, end : Nat])
      /\ DOMAIN chunks \subseteq DOMAIN chunks'
      /\ \A k \in DOMAIN chunks : chunks'[k] = chunks[k]
      /\ \A k \in DOMAIN chunks' : k \in Nat
      /\ \A k \in DOMAIN chunks' : k \in DOMAIN chunks \/
            (chunks'[k] = c /\ \A j \in DOMAIN chunks' : j <= k)
  <2>1. CASE HasText(start, end)
    BY <1>1, <1>5, <1>8, <2>1
  <2>2. CASE ~HasText(start, end)
    BY <1>1, <1>5, <2>2
  <2> QED
    BY <2>1, <2>2
<1>10. HasText(start, end) => \E k \in DOMAIN chunks' : chunks'[k] = c
  <2> SUFFICES ASSUME HasText(start, end) PROVE \E k \in DOMAIN chunks' : chunks'[k] = c
    OBVIOUS
  <2>1. chunks' = Append(chunks, c)
    BY <1>5
  <2>2. Len(chunks) + 1 \in DOMAIN chunks' /\ chunks'[Len(chunks) + 1] = c
    BY <2>1, <1>1, <1>8
  <2> QED
    BY <2>2
<1>11. \A k \in DOMAIN chunks :
         /\ chunks[k].first \in Nat /\ chunks[k].end \in Nat
         /\ chunks[k].first < start /\ chunks[k].end <= start + overlap
         /\ chunks[k].end < end
  <2> TAKE k \in DOMAIN chunks
  <2>0. chunks[k] \in [first : Nat, end : Nat]
    BY <1>1, EntriesInSet
  <2>1. chunks[k].first \in Nat /\ chunks[k].end \in Nat
    BY <2>0
  <2>2. chunks[k].first < start /\ chunks[k].end <= start + overlap
    BY <1>1 DEF IndInv, LoopInv
  <2>3. start > 0
    BY <1>1, <2>1, <2>2
  <2>4. start + overlap < n
    BY <1>1, <2>3 DEF IndInv, LoopInv
  <2>5. start + overlap < end
    BY <1>1, <1>2, <1>3, <2>4
  <2> QED
    BY <2>1, <2>2, <2>5, <1>1, <1>2, <1>3
<1>12. \A i \in Tokens \ white : i < end => Covered(i)'
  <2> SUFFICES ASSUME NEW i \in Tokens \ white, i < end PROVE Covered(i)'
    OBVIOUS
  <2>0. i \in Int
    BY <1>1 DEF Tokens
  <2>1. CASE i < start
    <3>1. Covered(i)
      BY <1>1, <2>1 DEF IndInv, LoopInv
    <3>2. PICK k \in DOMAIN chunks : chunks[k].first <= i /\ i < chunks[k].end
      BY <3>1 DEF Covered
    <3> QED
      BY <3>2, <1>9 DEF Covered
  <2>2. CASE start <= i
    <3>1. HasText(start, end)
      BY <2>2, <2>0, <1>1, <1>3 DEF HasText
    <3>2. PICK k \in DOMAIN chunks' : chunks'[k] = c
      BY <3>1, <1>10
    <3> QED
      BY <3>2, <1>8, <2>2 DEF Covered
  <2> QED
    BY <2>0, <2>1, <2>2, <1>1
<1>13. TypeOK'
  BY <1>1, <1>4, <1>6, <1>7, <1>9 DEF TypeOK
<1>14. LoopInv'
  <2>1. ~(pc' = "begin")
    BY <1>6
  <2>2. ASSUME pc' = "loop"
        PROVE /\ start' < n
              /\ start' + overlap < n
              /\ \A k \in DOMAIN chunks' :
                  chunks'[k].first < start' /\ chunks'[k].end <= start' + overlap
              /\ \A i \in Tokens \ white : i < start' => Covered(i)'
    <3>0. /\ end < n /\ start < start' /\ start' + overlap = end /\ start' <= end
      BY <2>2, <1>6, <1>7, <1>2, <1>3
    <3>1. start' < n /\ start' + overlap < n
      <4>1. start' + overlap < n
        BY <3>0
      <4>2. start' < n
        BY <3>0, <1>1, <1>3, <1>7
      <4> QED
        BY <4>1, <4>2
    <3>2. ASSUME NEW k \in DOMAIN chunks'
          PROVE  chunks'[k].first < start' /\ chunks'[k].end <= start' + overlap
      <4>1. CASE k \in DOMAIN chunks
        <5>1. /\ chunks'[k].first = chunks[k].first /\ chunks'[k].end = chunks[k].end
              /\ chunks[k].first \in Nat /\ chunks[k].end \in Nat
              /\ chunks[k].first < start /\ chunks[k].end < end
          BY <4>1, <1>9, <1>11
        <5>2. chunks[k].first < start'
          BY <5>1, <3>0, <1>1, <1>7
        <5>3. chunks[k].end <= end
          BY <5>1, <1>3
        <5> QED
          BY <5>1, <5>2, <5>3, <3>0
      <4>2. CASE chunks'[k] = c
        BY <4>2, <1>1, <1>2, <1>3, <1>7, <1>8, <3>0
      <4> QED
        BY <4>1, <4>2, <1>9
    <3>3. ASSUME NEW i \in Tokens \ white, i < start' PROVE Covered(i)'
      <4>1. i \in Int
        BY <1>1 DEF Tokens
      <4>2. i < end
        BY <4>1, <3>0, <3>3, <1>3, <1>7
      <4> QED
        BY <4>2, <1>12
    <3> QED
      BY <3>1, <3>2, <3>3
  <2> QED
    BY <2>1, <2>2, <1>4 DEF LoopInv
<1>15. ChunksSized'
  <2> SUFFICES ASSUME NEW k \in DOMAIN chunks'
               PROVE  /\ chunks'[k].first < chunks'[k].end
                      /\ chunks'[k].end <= chunks'[k].first + size
    BY <1>4 DEF ChunksSized
  <2>1. CASE k \in DOMAIN chunks
    BY <2>1, <1>9 DEF IndInv, ChunksSized
  <2>2. CASE chunks'[k] = c
    BY <2>2, <1>8, <1>3
  <2> QED
    BY <2>1, <2>2, <1>9
<1>16. ChunksAdvance'
  <2> SUFFICES ASSUME NEW j \in DOMAIN chunks', NEW k \in DOMAIN chunks', j < k
               PROVE  /\ chunks'[j].first < chunks'[k].first
                      /\ chunks'[j].end < chunks'[k].end
    BY DEF ChunksAdvance
  <2>1. j \in DOMAIN chunks
    BY <1>9
  <2>2. CASE k \in DOMAIN chunks
    BY <2>1, <2>2, <1>9 DEF IndInv, ChunksAdvance
  <2>3. CASE chunks'[k] = c
    BY <2>1, <2>3, <1>8, <1>9, <1>11
  <2> QED
    BY <2>2, <2>3, <1>9
<1>17. NothingLost'
  <2> SUFFICES ASSUME pc' = "done", NEW i \in Tokens \ white PROVE Covered(i)'
    BY <1>4 DEF NothingLost
  <2>1. end >= n
    BY <1>6
  <2>2. i \in Int /\ i < n
    BY <1>1 DEF Tokens
  <2>3. i < end
    BY <2>1, <2>2, <1>1, <1>3
  <2> QED
    BY <2>3, <1>12
<1>18. CountInv'
  <2> SUFFICES ASSUME white = {}
               PROVE  /\ pc' = "loop" => start' = Len(chunks') * Stride'
                      /\ pc' = "done" /\ n > 0 => Len(chunks') = WindowsNeeded(size, overlap)'
    BY <1>4 DEF CountInv
  <2> DEFINE k == Len(chunks)
             d == size - overlap
  <2>1. k \in Nat /\ d \in Nat \ {0} /\ start = k * d
    BY <1>1, <1>2 DEF IndInv, CountInv, Stride
  <2>2. Len(chunks') = k + 1 /\ Stride' = d /\ WindowsNeeded(size, overlap)' = WindowsNeeded(size, overlap)
    <3>1. HasText(start, end)
      BY <1>1, <1>3 DEF HasText
    <3>2. Len(chunks') = k + 1
      BY <3>1, <1>1, <1>5
    <3> QED
      BY <3>2, <1>4 DEF Stride, WindowsNeeded
  <2> HIDE DEF k, d
  <2>3. k * d \in Nat /\ (k + 1) * d = k * d + d
    BY <2>1, NextMultiple
  <2>4. ASSUME pc' = "loop" PROVE start' = (k + 1) * d
    <3>1. start' = start + size - overlap
      BY <2>4, <1>1, <1>2, <1>3, <1>6
    <3> QED
      BY <3>1, <2>1, <2>3, <1>1, <1>2 DEF d
  <2>5. ASSUME pc' = "done" PROVE k + 1 = WindowsNeeded(size, overlap)
    <3>1. n <= start + size
      BY <2>5, <1>1, <1>2, <1>3, <1>6
    <3>2. k > 0 => start + overlap < n /\ start >= d
      <4> SUFFICES ASSUME k > 0 PROVE start + overlap < n /\ start >= d
        OBVIOUS
      <4>1. 1 * d <= k * d
        BY <2>1, MultiplesGrow
      <4>2. start >= d /\ start > 0
        BY <4>1, <2>1
      <4> QED
        BY <4>2, <1>1 DEF IndInv, LoopInv
    <3>3. k = 0 => start = 0
      BY <2>1
    <3>4. CASE n <= size
      <4>1. k = 0
        BY <3>2, <3>4, <2>1, <1>1, <1>2 DEF d
      <4> QED
        BY <4>1, <3>4 DEF WindowsNeeded
    <3>5. CASE n > size
      <4>1. n - overlap - 1 \in Nat
        BY <3>5, <1>1, <1>2
      <4>2. k * d <= n - overlap - 1
        BY <3>2, <3>3, <4>1, <2>1, <1>1, <1>2
      <4>3. n - overlap - 1 < k * d + d
        BY <3>1, <2>1, <1>1, <1>2 DEF d
      <4>4. (n - overlap - 1) \div d = k
        BY <4>1, <4>2, <4>3, <2>1, DivUnique
      <4>5. WindowsNeeded(size, overlap) = 1 + ((n - overlap - 1) \div d)
        BY <3>5, <1>1, <1>2 DEF WindowsNeeded, d
      <4> QED
        BY <4>4, <4>5, <2>1
    <3> QED
      BY <3>4, <3>5, <1>1, <1>2
  <2> QED
    BY <2>2, <2>4, <2>5
<1> QED
  BY <1>13, <1>14, <1>15, <1>16, <1>17, <1>18 DEF IndInv

\* Every step preserves the invariant.
LEMMA NextInv == IndInv /\ [Next]_vars => IndInv'
<1> SUFFICES ASSUME IndInv, [Next]_vars PROVE IndInv'
  OBVIOUS
<1>1. CASE ReturnEmpty
  <2>1. /\ n' = n /\ white' = white /\ chunkSize' = chunkSize
        /\ chunkOverlap' = chunkOverlap /\ start' = start /\ chunks' = chunks
        /\ pc' = "done" /\ pc = "begin" /\ Blank
    BY <1>1 DEF ReturnEmpty, inputs
  <2>2. TypeOK' /\ LoopInv' /\ ChunksSized' /\ ChunksAdvance'
    BY <2>1 DEF IndInv, TypeOK, LoopInv, ChunksSized, ChunksAdvance, Tokens, size, overlap
  <2>3. NothingLost'
    BY <2>1 DEF NothingLost, Blank, Tokens
  <2>4. CountInv'
    <3>1. n \in Nat /\ ~(n > 0 /\ white = {})
      BY <2>1 DEF IndInv, TypeOK, Blank, Tokens
    <3> QED
      BY <2>1, <3>1 DEF CountInv
  <2> QED
    BY <2>2, <2>3, <2>4 DEF IndInv
<1>5. CASE EncodeRaises
  <2>1. /\ n' = n /\ white' = white /\ chunkSize' = chunkSize
        /\ chunkOverlap' = chunkOverlap /\ start' = start /\ chunks' = chunks
        /\ pc' = "raised"
    BY <1>5 DEF EncodeRaises, inputs
  <2>2. TypeOK' /\ LoopInv' /\ ChunksSized' /\ ChunksAdvance'
    BY <2>1 DEF IndInv, TypeOK, LoopInv, ChunksSized, ChunksAdvance, Tokens, size, overlap
  <2>3. NothingLost' /\ CountInv'
    BY <2>1 DEF NothingLost, CountInv
  <2> QED
    BY <2>2, <2>3 DEF IndInv
<1>2. CASE EnterLoop
  <2>1. /\ n' = n /\ white' = white /\ chunkSize' = chunkSize
        /\ chunkOverlap' = chunkOverlap /\ start' = 0 /\ start = 0
        /\ chunks' = <<>> /\ chunks = <<>>
        /\ pc' = "loop" /\ pc = "begin" /\ ~Blank
    BY <1>2 DEF EnterLoop, inputs, IndInv, LoopInv
  <2>2. n \in Nat /\ 0 < n /\ \A i \in Tokens : ~(i < 0)
    BY <2>1 DEF IndInv, TypeOK, Blank, Tokens
  <2>3. TypeOK' /\ ChunksSized' /\ ChunksAdvance' /\ NothingLost'
    BY <2>1 DEF IndInv, TypeOK, ChunksSized, ChunksAdvance, NothingLost, Tokens
  <2>4. LoopInv'
    BY <2>1, <2>2 DEF LoopInv, Tokens
  <2>5. CountInv'
    <3>1. Len(chunks') = 0 /\ Stride' = Stride
      BY <2>1 DEF Stride, size, overlap
    <3>2. Stride \in Nat
      BY WindowAdvances DEF IndInv, TypeOK, Stride
    <3>3. 0 * Stride = 0
      BY <3>2
    <3> QED
      BY <2>1, <3>1, <3>3 DEF CountInv
  <2> QED
    BY <2>3, <2>4, <2>5 DEF IndInv
<1>3. CASE Window
  BY <1>3, WindowInv
<1>4. CASE UNCHANGED vars
  BY <1>4 DEF vars, inputs, IndInv, TypeOK, LoopInv, ChunksSized, ChunksAdvance,
              NothingLost, CountInv, Stride, WindowsNeeded, Covered, Tokens, size, overlap
<1> QED
  BY <1>5, <1>1, <1>2, <1>3, <1>4 DEF Next

\* The inductive invariant holds throughout a call of chunk().
LEMMA Invariance == Spec => []IndInv
BY InitInv, NextInv, PTL DEF Spec

\* start is never negative and every chunk is a pair of positions.
THEOREM TypeCorrect == Spec => []TypeOK
<1>1. IndInv => TypeOK
  BY DEF IndInv
<1> QED
  BY <1>1, Invariance, PTL

\* Whatever the document and the settings, chunk() leaves no text out.
THEOREM NoTextLost == Spec => []NothingLost
<1>1. IndInv => NothingLost
  BY DEF IndInv
<1> QED
  BY <1>1, Invariance, PTL

\* No chunk exceeds the requested size or the embedding model's limit.
THEOREM ChunksAreBounded == Spec => []ChunksFit
<1>1. IndInv => ChunksFit
  <2> SUFFICES ASSUME IndInv, NEW k \in DOMAIN chunks
               PROVE  LET len == chunks[k].end - chunks[k].first
                      IN  0 < len /\ len <= chunkSize /\ len <= MaxTokens
    BY DEF ChunksFit
  <2>0. chunks[k] \in [first : Nat, end : Nat]
    BY EntriesInSet DEF IndInv, TypeOK
  <2>1. /\ chunkSize \in Nat \ {0} /\ chunkOverlap \in Nat
        /\ chunks[k].first \in Nat /\ chunks[k].end \in Nat
        /\ chunks[k].first < chunks[k].end /\ chunks[k].end <= chunks[k].first + size
    BY <2>0 DEF IndInv, TypeOK, ChunksSized
  <2>2. size \in Nat /\ size <= chunkSize /\ size <= MaxTokens
    BY <2>1, WindowAdvances
  <2> QED
    BY <2>1, <2>2, ChunkingAssumption
<1> QED
  BY <1>1, Invariance, PTL

\* The chunks are in the order of the text and none is contained in another.
THEOREM ChunksAreOrdered == Spec => []ChunksAdvance
<1>1. IndInv => ChunksAdvance
  BY DEF IndInv
<1> QED
  BY <1>1, Invariance, PTL

\* A document without white space gets as many chunks as its length and the
\* capped settings call for.
THEOREM CountIsExpected == Spec => []CountAsExpected
<1>1. IndInv => CountAsExpected
  BY DEF IndInv, CountInv, CountAsExpected, size, overlap
<1> QED
  BY <1>1, Invariance, PTL

\* Every pass of the loop but the last moves the window forward, so at most n
\* passes are made (the step from here to Terminates is TLC's).
THEOREM WindowsMoveOn == Spec => LoopAdvances
<1>1. IndInv /\ IndInv' /\ [Next]_vars =>
        [pc = "loop" /\ pc' = "loop" => start < start' /\ start' < n]_vars
  <2> SUFFICES ASSUME IndInv, IndInv', Next, pc = "loop", pc' = "loop"
               PROVE  start < start' /\ start' < n
    BY DEF vars
  <2>1. Window
    BY DEF Next, ReturnEmpty, EncodeRaises, EnterLoop
  <2>2. /\ start \in Nat /\ n \in Nat /\ chunkSize \in Nat \ {0} /\ chunkOverlap \in Nat
        /\ n' = n /\ start' < n
    BY <2>1 DEF IndInv, TypeOK, LoopInv, Window, inputs
  <2>3. size \in Nat \ {0} /\ overlap \in Nat /\ overlap < size
    BY <2>2, WindowAdvances
  <2>4. start' = MinOf(start + size, n) - overlap /\ MinOf(start + size, n) < n
    BY <2>1, <2>2 DEF Window, Slide
  <2> QED
    BY <2>2, <2>3, <2>4 DEF MinOf
<1> QED
  BY <1>1, Invariance, PTL DEF Spec, LoopAdvances
=============================================================================
