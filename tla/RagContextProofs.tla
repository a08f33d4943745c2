-------------------------- MODULE RagContextProofs --------------------------
(***************************************************************************)
(* Properties of RagContext for answers, scores and blocks of any size.    *)
(***************************************************************************)
EXTENDS RagContext, WellFoundedInduction, TLAPS

\* The relevant results are the relevant ones of the points seen so far, in
\* the order of the points.
RelevantInv ==
    /\ \A k \in DOMAIN relevant :
        /\ relevant[k].id \in 1 .. scanned
        /\ relevant[k] = points[relevant[k].id]
        /\ IsRelevant(relevant[k])
    /\ \A j \in 1 .. scanned : IsRelevant(points[j]) => \E k \in DOMAIN relevant : relevant[k] = points[j]
    /\ \A j, k \in DOMAIN relevant : relevant[j].id < relevant[k].id => j < k

\* The loop has used exactly the results before its position.
UsedInv ==
    /\ Len(used) = pos - 1 /\ Len(numbers) = pos - 1
    /\ \A k \in 1 .. pos - 1 : used[k] = relevant[k] /\ numbers[k] = k
    /\ pc = "search" => pos = 1

\* The sources are the used results, numbered from 1.
SourcesInv ==
    IF pc = "done"
    THEN sources = [k \in DOMAIN used |-> [index |-> k, result |-> used[k]]]
    ELSE sources = <<>>

\* The running total is the reference's sum of the blocks used, and the loop
\* has stopped only at the end or at a block that does not fit.
TotalInv ==
    /\ total = TokensUpTo(relevant)[pos - 1]
    /\ pc \in {"sources", "done"} /\ pos <= Len(relevant) =>
        total + relevant[pos].tokens > MaxContext

IndInv == TypeOK /\ RelevantInv /\ UsedInv /\ SourcesInv /\ TotalInv

-----------------------------------------------------------------------------
\* A set of natural numbers that is not empty has a least element: the form of
\* induction that takes no operator.
LEMMA LeastOf ==
    ASSUME NEW T, T \subseteq Nat, T # {}
    PROVE  \E m \in T : \A k \in T : m <= k
<1>1. \E m \in T : \A k \in T : ~(<<k, m>> \in OpToRel(<, Nat))
  BY NatLessThanWellFounded, WFMin
<1>2. PICK m \in T : \A k \in T : ~(<<k, m>> \in OpToRel(<, Nat))
  BY <1>1
<1>3. ASSUME NEW k \in T PROVE m <= k
  <2>1. k \in Nat /\ m \in Nat
    OBVIOUS
  <2>2. ~(<<k, m>> \in OpToRel(<, Nat))
    BY <1>2
  <2>3. ~(k < m)
    BY <2>1, <2>2 DEF OpToRel
  <2> QED
    BY <2>1, <2>3
<1> QED
  BY <1>3

\* g satisfies the recursion of TokensUpTo on 0 .. m.
IsSum(g, s, m) == g = [i \in 0 .. m |-> IF i = 0 THEN 0 ELSE g[i - 1] + s[i].tokens]

\* Some function satisfies the recursion: it is extended one step at a time,
\* and there is no least m for which there is none.
LEMMA SumsExist ==
    ASSUME NEW s, NEW n \in Nat
    PROVE  \E g : IsSum(g, s, n)
<1> DEFINE Good(m) == \E g : IsSum(g, s, m)
           Bad == {m \in Nat : ~Good(m)}
<1>1. Good(0)
  <2> DEFINE g == [i \in 0 .. 0 |-> 0]
  <2>1. g = [i \in 0 .. 0 |-> IF i = 0 THEN 0 ELSE g[i - 1] + s[i].tokens]
    OBVIOUS
  <2> QED
    BY <2>1 DEF IsSum
<1>2. ASSUME NEW m \in Nat, Good(m) PROVE Good(m + 1)
  <2>1. PICK g : IsSum(g, s, m)
    BY <1>2
  <2> DEFINE h == [i \in 0 .. m + 1 |-> IF i = m + 1 THEN g[m] + s[m + 1].tokens ELSE g[i]]
  <2>2. \A i \in 0 .. m : h[i] = g[i]
    BY <1>2
  <2>3. \A i \in 0 .. m : g[i] = IF i = 0 THEN 0 ELSE g[i - 1] + s[i].tokens
    BY <2>1 DEF IsSum
  <2>4. \A i \in 0 .. m + 1 : h[i] = IF i = 0 THEN 0 ELSE h[i - 1] + s[i].tokens
    <3> TAKE i \in 0 .. m + 1
    <3>1. CASE i = m + 1
      <4>1. h[i] = g[m] + s[i].tokens /\ i - 1 = m /\ m \in 0 .. m /\ i # 0
        BY <3>1, <1>2
      <4> QED
        BY <4>1, <2>2
    <3>2. CASE i \in 0 .. m
      <4>1. i # 0 => i - 1 \in 0 .. m
        BY <3>2, <1>2
      <4> HIDE DEF h
      <4> QED
        BY <4>1, <3>2, <2>2, <2>3
    <3> QED
      BY <3>1, <3>2, <1>2
  <2>5. h = [i \in 0 .. m + 1 |-> h[i]]
    OBVIOUS
  <2> HIDE DEF h
  <2>6. h = [i \in 0 .. m + 1 |-> IF i = 0 THEN 0 ELSE h[i - 1] + s[i].tokens]
    BY <2>4, <2>5
  <2> QED
    BY <2>6 DEF IsSum
<1> HIDE DEF Good
<1>3. Bad = {}
  <2> SUFFICES ASSUME Bad # {} PROVE FALSE
    OBVIOUS
  <2>1. PICK m \in Bad : \A k \in Bad : m <= k
    BY LeastOf
  <2>2. m \in Nat /\ ~Good(m) /\ m # 0
    BY <1>1
  <2>3. m - 1 \in Nat /\ ~(m <= m - 1)
    BY <2>2
  <2>4. Good(m - 1)
    BY <2>1, <2>3
  <2>5. Good((m - 1) + 1)
    BY <1>2, <2>3, <2>4
  <2> QED
    BY <2>2, <2>5
<1>4. Good(n)
  BY <1>3
<1> QED
  BY <1>4 DEF Good

\* So the function that TokensUpTo chooses satisfies it.
LEMMA TokensUpToDef ==
    ASSUME NEW s \in Seq(Points)
    PROVE  \A n \in 0 .. Len(s) :
             TokensUpTo(s)[n] = IF n = 0 THEN 0 ELSE TokensUpTo(s)[n - 1] + s[n].tokens
<1> DEFINE t == TokensUpTo(s)
<1>1. t = CHOOSE g : IsSum(g, s, Len(s))
  BY DEF TokensUpTo, IsSum
<1>2. Len(s) \in Nat
  OBVIOUS
<1> HIDE DEF t
<1>3. IsSum(t, s, Len(s))
  BY <1>1, <1>2, SumsExist
<1>4. \A n \in 0 .. Len(s) : t[n] = IF n = 0 THEN 0 ELSE t[n - 1] + s[n].tokens
  BY <1>3 DEF IsSum
<1> QED
  BY <1>4 DEF t

-----------------------------------------------------------------------------
\* Qdrant's answer is a sequence of points numbered by their rank.
LEMMA AnswerIsSeq ==
    ASSUME NEW s \in Answers
    PROVE  s \in Seq(Points) /\ Len(s) \in 0 .. TopK /\ DOMAIN s = 1 .. Len(s)
           /\ \A j \in DOMAIN s : s[j].id = j
<1>1. PICK n \in 0 .. TopK : s \in [1 .. n -> Points]
  BY DEF Answers
<1>2. n \in Nat
  BY ContextAssumption
<1>3. s \in Seq(Points) /\ Len(s) = n
  BY <1>1, <1>2
<1> QED
  BY <1>1, <1>3 DEF Answers

\* The invariant holds before the first point is looked at.
LEMMA InitInv == Init => IndInv
<1> SUFFICES ASSUME Init PROVE IndInv
  OBVIOUS
<1>1. /\ points \in Answers /\ pc = "search" /\ scanned = 0 /\ relevant = <<>> /\ pos = 1
      /\ used = <<>> /\ numbers = <<>> /\ total = 0 /\ sources = <<>>
  BY DEF Init
<1>2. Len(points) \in Nat /\ MaxContext \in Nat
  BY <1>1, AnswerIsSeq, ContextAssumption
<1>3. TypeOK
  BY <1>1, <1>2 DEF TypeOK
<1>4. RelevantInv
  BY <1>1 DEF RelevantInv
<1>5. UsedInv /\ SourcesInv
  BY <1>1 DEF UsedInv, SourcesInv
<1>6. TotalInv
  <2>1. TokensUpTo(relevant)[0] = 0
    <3>1. relevant \in Seq(Points) /\ 0 \in 0 .. Len(relevant)
      BY <1>1
    <3> QED
      BY <3>1, TokensUpToDef
  <2> QED
    BY <1>1, <2>1 DEF TotalInv
<1> QED
  BY <1>3, <1>4, <1>5, <1>6 DEF IndInv

\* The next point joins the relevant results, or not.
LEMMA ScanStep == IndInv /\ Scan => IndInv'
<1> SUFFICES ASSUME IndInv, Scan PROVE IndInv'
  OBVIOUS
<1> DEFINE p == points[scanned + 1]
<1>1. /\ pc = "search" /\ scanned < Len(points) /\ scanned' = scanned + 1
      /\ relevant' = IF IsRelevant(p) THEN Append(relevant, p) ELSE relevant
      /\ UNCHANGED <<points, pc, pos, used, numbers, total, sources>>
  BY DEF Scan
<1>2. points \in Seq(Points) /\ Len(points) \in Nat /\ DOMAIN points = 1 .. Len(points)
      /\ \A j \in DOMAIN points : points[j].id = j
  BY AnswerIsSeq, ContextAssumption DEF IndInv, TypeOK
<1>3. scanned \in Nat /\ scanned + 1 \in DOMAIN points /\ scanned' \in 0 .. Len(points)
  BY <1>1, <1>2 DEF IndInv, TypeOK
<1>4. p \in Points /\ p.id = scanned + 1
  BY <1>2, <1>3
<1>5. relevant \in Seq(Points) /\ DOMAIN relevant = 1 .. Len(relevant) /\ Len(relevant) \in Nat
  BY DEF IndInv, TypeOK
<1>6. pos = 1 /\ used \in Seq(Points) /\ Len(used) = 0 /\ Len(numbers) = 0
  BY <1>1 DEF IndInv, UsedInv, TypeOK
<1> HIDE DEF p
<1>7. relevant' \in Seq(Points) /\ Len(relevant') \in Nat
  BY <1>1, <1>4, <1>5
<1>8. TypeOK'
  BY <1>1, <1>3, <1>6, <1>7 DEF IndInv, TypeOK
<1>9. RelevantInv'
  <2>1. CASE ~IsRelevant(p)
    <3>1. relevant' = relevant
      BY <1>1, <2>1
    <3> QED
      BY <3>1, <1>1, <1>3, <2>1 DEF IndInv, RelevantInv, IsRelevant, p
  <2>2. CASE IsRelevant(p)
    <3> DEFINE n == Len(relevant)
    <3>1. /\ DOMAIN relevant' = 1 .. n + 1 /\ relevant'[n + 1] = p
          /\ \A k \in DOMAIN relevant : relevant'[k] = relevant[k]
      BY <1>1, <1>4, <1>5, <2>2
    <3>2. \A k \in DOMAIN relevant' : k = n + 1 \/ k \in DOMAIN relevant
      BY <3>1, <1>5
    <3>3. \A k \in DOMAIN relevant : /\ relevant[k].id \in 1 .. scanned
                                     /\ relevant[k] = points[relevant[k].id]
                                     /\ IsRelevant(relevant[k])
      BY DEF IndInv, RelevantInv
    <3>4. p = points[p.id] /\ p.id \in 1 .. scanned'
      BY <1>1, <1>3, <1>4 DEF p
    <3>5. \A k \in DOMAIN relevant' : /\ relevant'[k].id \in 1 .. scanned'
                                      /\ relevant'[k] = points[relevant'[k].id]
                                      /\ IsRelevant(relevant'[k])
      BY <3>1, <3>2, <3>3, <3>4, <1>1, <1>3, <2>2
    <3>6. \A j \in 1 .. scanned' : IsRelevant(points[j]) =>
              \E k \in DOMAIN relevant' : relevant'[k] = points[j]
      <4> TAKE j \in 1 .. scanned'
      <4> HAVE IsRelevant(points[j])
      <4>1. CASE j = scanned + 1
        BY <4>1, <3>1, <1>5 DEF p
      <4>2. CASE j # scanned + 1
        <5>1. j \in 1 .. scanned
          BY <4>2, <1>1, <1>3
        <5>2. PICK k \in DOMAIN relevant : relevant[k] = points[j]
          BY <5>1 DEF IndInv, RelevantInv
        <5> QED
          BY <5>2, <3>1, <1>5
      <4> QED
        BY <4>1, <4>2
    <3>7. \A j, k \in DOMAIN relevant' : relevant'[j].id < relevant'[k].id => j < k
      <4> TAKE j, k \in DOMAIN relevant'
      <4> HAVE relevant'[j].id < relevant'[k].id
      <4>1. CASE j = n + 1
        <5>1. relevant'[j].id = scanned + 1 /\ relevant'[k].id <= scanned + 1 /\ relevant'[k].id \in Nat
          BY <4>1, <3>1, <3>5, <1>1, <1>3, <1>4
        <5> QED
          BY <5>1, <1>3
      <4>2. CASE j # n + 1 /\ k = n + 1
        BY <4>2, <3>2, <1>5
      <4>3. CASE j # n + 1 /\ k # n + 1
        BY <4>3, <3>1, <3>2 DEF IndInv, RelevantInv
      <4> QED
        BY <4>1, <4>2, <4>3
    <3> QED
      BY <3>5, <3>6, <3>7, <1>1 DEF RelevantInv, IsRelevant
  <2> QED
    BY <2>1, <2>2
<1>10. UsedInv' /\ SourcesInv'
  BY <1>1, <1>6 DEF IndInv, UsedInv, SourcesInv
<1>11. TotalInv'
  <2>1. TokensUpTo(relevant)[0] = 0 /\ TokensUpTo(relevant')[0] = 0
    BY <1>5, <1>7, TokensUpToDef
  <2>2. total = 0
    BY <1>6, <2>1 DEF IndInv, TotalInv
  <2> QED
    BY <1>1, <1>6, <2>1, <2>2 DEF TotalInv
<1> QED
  BY <1>8, <1>9, <1>10, <1>11 DEF IndInv

\* A block is added.
LEMMA AddStep == IndInv /\ AddBlock => IndInv'
<1> SUFFICES ASSUME IndInv, AddBlock PROVE IndInv'
  OBVIOUS
<1>1. /\ pc = "blocks" /\ pos <= Len(relevant) /\ total + relevant[pos].tokens <= MaxContext
      /\ used' = Append(used, relevant[pos]) /\ numbers' = Append(numbers, pos)
      /\ total' = total + relevant[pos].tokens /\ pos' = pos + 1
      /\ UNCHANGED <<points, pc, scanned, relevant, sources>>
  BY DEF AddBlock, Fits
<1>2. /\ relevant \in Seq(Points) /\ Len(relevant) \in Nat /\ pos \in Nat \ {0}
      /\ used \in Seq(Points) /\ numbers \in Seq(Nat) /\ total \in Nat /\ MaxContext \in Nat
  BY ContextAssumption DEF IndInv, TypeOK
<1>3. pos \in DOMAIN relevant
  BY <1>1, <1>2
<1>4. relevant[pos] \in Points
  BY <1>2, <1>3
<1>5. relevant[pos].tokens \in Nat
  BY <1>4, ContextAssumption DEF Points
<1>6. /\ Len(used) = pos - 1 /\ Len(numbers) = pos - 1
      /\ \A k \in 1 .. pos - 1 : used[k] = relevant[k] /\ numbers[k] = k
  BY DEF IndInv, UsedInv
<1>7. used' \in Seq(Points) /\ numbers' \in Seq(Nat)
  BY <1>1, <1>2, <1>4
<1>8. total' \in 0 .. MaxContext /\ pos' \in 1 .. Len(relevant) + 1
  BY <1>1, <1>2, <1>5
<1>9. TypeOK'
  BY <1>1, <1>7, <1>8 DEF IndInv, TypeOK
<1>10. RelevantInv'
  BY <1>1 DEF IndInv, RelevantInv, IsRelevant
<1>11. UsedInv'
  <2>1. Len(used') = pos /\ used'[pos] = relevant[pos] /\ \A k \in 1 .. pos - 1 : used'[k] = used[k]
    BY <1>1, <1>2, <1>4, <1>6
  <2>2. Len(numbers') = pos /\ numbers'[pos] = pos /\ \A k \in 1 .. pos - 1 : numbers'[k] = numbers[k]
    BY <1>1, <1>2, <1>6
  <2>3. pos' - 1 = pos
    BY <1>1, <1>2
  <2>4. \A k \in 1 .. pos : k = pos \/ k \in 1 .. pos - 1
    BY <1>2
  <2>5. \A k \in 1 .. pos : used'[k] = relevant[k] /\ numbers'[k] = k
    BY <2>1, <2>2, <2>4, <1>6
  <2> QED
    BY <2>1, <2>2, <2>3, <2>5, <1>1 DEF UsedInv
<1>12. SourcesInv'
  BY <1>1 DEF IndInv, SourcesInv
<1>13. TotalInv'
  <2>1. TokensUpTo(relevant)[pos] = TokensUpTo(relevant)[pos - 1] + relevant[pos].tokens
    BY <1>1, <1>2, TokensUpToDef
  <2>2. pos' - 1 = pos
    BY <1>1, <1>2
  <2> QED
    BY <1>1, <2>1, <2>2 DEF IndInv, TotalInv
<1> QED
  BY <1>9, <1>10, <1>11, <1>12, <1>13 DEF IndInv

\* The steps between the loops, and the sources.
LEMMA OtherSteps == IndInv /\ (EnterLoop \/ Break \/ LoopEnds \/ BuildSources) => IndInv'
<1> SUFFICES ASSUME IndInv, EnterLoop \/ Break \/ LoopEnds \/ BuildSources PROVE IndInv'
  OBVIOUS
<1>1. /\ UNCHANGED <<points, scanned, relevant, pos, used, numbers, total>>
      /\ pc # "done" /\ pc' \in {"blocks", "sources", "done"}
      /\ IF pc' = "done"
         THEN sources' = [k \in DOMAIN used |-> [index |-> k, result |-> used[k]]]
         ELSE sources' = sources
  BY DEF EnterLoop, Break, LoopEnds, BuildSources
<1>2. sources' \in Seq([index : Nat, result : Points])
  <2>1. used \in Seq(Points) /\ DOMAIN used = 1 .. Len(used) /\ Len(used) \in Nat
    BY DEF IndInv, TypeOK
  <2>2. \A k \in DOMAIN used : used[k] \in Points /\ k \in Nat
    BY <2>1
  <2>3. [k \in 1 .. Len(used) |-> [index |-> k, result |-> used[k]]] \in Seq([index : Nat, result : Points])
    BY <2>1, <2>2
  <2> QED
    BY <1>1, <2>1, <2>3 DEF IndInv, TypeOK
<1>3. TypeOK'
  BY <1>1, <1>2 DEF IndInv, TypeOK
<1>4. RelevantInv' /\ UsedInv'
  BY <1>1 DEF IndInv, RelevantInv, UsedInv, IsRelevant
<1>5. SourcesInv'
  BY <1>1 DEF IndInv, SourcesInv
<1>6. TotalInv'
  <2>1. pc' \in {"sources", "done"} /\ pos <= Len(relevant) => total + relevant[pos].tokens > MaxContext
    <3>1. CASE BuildSources
      BY <3>1 DEF BuildSources, IndInv, TotalInv
    <3>2. CASE EnterLoop
      BY <3>2 DEF EnterLoop
    <3>3. CASE LoopEnds
      BY <3>3 DEF LoopEnds, IndInv, TypeOK
    <3>4. CASE Break
      <4>1. /\ pos \in DOMAIN relevant /\ relevant \in Seq(Points) /\ total \in Nat /\ MaxContext \in Nat
            /\ ~(total + relevant[pos].tokens <= MaxContext)
        BY <3>4, ContextAssumption DEF Break, Fits, IndInv, TypeOK
      <4>2. relevant[pos] \in Points
        BY <4>1
      <4>3. relevant[pos].tokens \in Nat
        BY <4>2, ContextAssumption DEF Points
      <4> QED
        BY <4>1, <4>3
    <3> QED
      BY <3>1, <3>2, <3>3, <3>4
  <2> QED
    BY <1>1, <2>1 DEF IndInv, TotalInv
<1> QED
  BY <1>3, <1>4, <1>5, <1>6 DEF IndInv

\* Every step preserves the invariant.
LEMMA NextInv == IndInv /\ [Next]_vars => IndInv'
<1> SUFFICES ASSUME IndInv, [Next]_vars PROVE IndInv'
  OBVIOUS
<1>1. CASE UNCHANGED vars
  BY <1>1 DEF vars, IndInv, TypeOK, RelevantInv, UsedInv, SourcesInv, TotalInv, IsRelevant
<1> QED
  BY <1>1, ScanStep, AddStep, OtherSteps DEF Next

\* The inductive invariant holds in every reachable state.
LEMMA Invariance == Spec => []IndInv
BY InitInv, NextInv, PTL DEF Spec

\* Types, and the token budget.
THEOREM TypeCorrect == Spec => []TypeOK
<1>1. IndInv => TypeOK
  BY DEF IndInv
<1> QED
  BY <1>1, Invariance, PTL

\* Block n of the prompt and source n of the answer are the same result.
THEOREM CitationsAgree == Spec => []CitationsMatch
<1>1. ASSUME IndInv PROVE CitationsMatch
  <2> SUFFICES ASSUME pc = "done"
               PROVE  /\ Len(sources) = Len(numbers)
                      /\ \A k \in DOMAIN sources :
                          sources[k].index = numbers[k] /\ sources[k].result = relevant[numbers[k]]
    BY DEF CitationsMatch
  <2>1. used \in Seq(Points) /\ DOMAIN used = 1 .. Len(used) /\ Len(used) \in Nat
    BY <1>1 DEF IndInv, TypeOK
  <2>2. sources = [k \in 1 .. Len(used) |-> [index |-> k, result |-> used[k]]]
    BY <1>1, <2>1 DEF IndInv, SourcesInv
  <2>3. Len(sources) = Len(used) /\ DOMAIN sources = 1 .. Len(used)
    BY <2>1, <2>2
  <2>4. Len(used) = pos - 1 /\ Len(numbers) = pos - 1
        /\ \A k \in 1 .. Len(used) : used[k] = relevant[k] /\ numbers[k] = k
    BY <1>1 DEF IndInv, UsedInv
  <2> QED
    BY <2>2, <2>3, <2>4
<1> QED
  BY <1>1, Invariance, PTL

\* Only relevant results are used, and none before a better one.
THEOREM BestResultsUsed == Spec => []BestAreUsed
<1>1. ASSUME IndInv PROVE BestAreUsed
  <2> SUFFICES ASSUME NEW k \in DOMAIN used
               PROVE  /\ IsRelevant(used[k])
                      /\ \A j \in DOMAIN points : j < used[k].id /\ IsRelevant(points[j]) =>
                            \E i \in DOMAIN used : i < k /\ used[i] = points[j]
    BY DEF BestAreUsed, IsRelevant
  <2>1. /\ DOMAIN used = 1 .. pos - 1 /\ pos \in Nat \ {0} /\ pos <= Len(relevant) + 1
        /\ DOMAIN relevant = 1 .. Len(relevant) /\ Len(relevant) \in Nat
    BY <1>1 DEF IndInv, TypeOK, UsedInv
  <2>2. k \in DOMAIN relevant /\ used[k] = relevant[k]
    BY <1>1, <2>1 DEF IndInv, UsedInv
  <2>3. ASSUME NEW j \in DOMAIN points, j < used[k].id, IsRelevant(points[j])
        PROVE  \E i \in DOMAIN used : i < k /\ used[i] = points[j]
    <3>1. points[j].id = j /\ j \in Nat \ {0} /\ scanned \in Nat
      BY <1>1, AnswerIsSeq, ContextAssumption DEF IndInv, TypeOK
    <3>2. used[k].id \in 1 .. scanned
      BY <1>1, <2>2 DEF IndInv, RelevantInv
    <3>3. j \in 1 .. scanned
      BY <3>1, <3>2, <2>3
    <3>4. PICK i \in DOMAIN relevant : relevant[i] = points[j]
      BY <1>1, <2>3, <3>3 DEF IndInv, RelevantInv
    <3>5. i < k
      BY <1>1, <2>2, <2>3, <3>1, <3>4 DEF IndInv, RelevantInv
    <3>6. i \in 1 .. pos - 1
      BY <2>1, <3>4, <3>5
    <3> QED
      BY <1>1, <2>1, <3>4, <3>5, <3>6 DEF IndInv, UsedInv
  <2> QED
    BY <1>1, <2>2, <2>3 DEF IndInv, RelevantInv
<1> QED
  BY <1>1, Invariance, PTL

\* The blocks are the longest run of relevant results within the budget, by the
\* reference's count of their tokens.
THEOREM BudgetIsFilled == Spec => []FillsBudget
<1>1. ASSUME IndInv PROVE FillsBudget
  <2> SUFFICES ASSUME pc = "done"
               PROVE  /\ used = SubSeq(relevant, 1, Len(used))
                      /\ TokensUpTo(relevant)[Len(used)] <= MaxContext
                      /\ Len(used) < Len(relevant) =>
                            TokensUpTo(relevant)[Len(used) + 1] > MaxContext
    BY DEF FillsBudget
  <2>1. /\ relevant \in Seq(Points) /\ Len(relevant) \in Nat /\ used \in Seq(Points)
        /\ pos \in 1 .. Len(relevant) + 1 /\ total <= MaxContext
    BY <1>1, ContextAssumption DEF IndInv, TypeOK
  <2>2. Len(used) = pos - 1 /\ \A k \in 1 .. pos - 1 : used[k] = relevant[k]
    BY <1>1 DEF IndInv, UsedInv
  <2>3. used = SubSeq(relevant, 1, Len(used))
    BY <2>1, <2>2
  <2>4. TokensUpTo(relevant)[Len(used)] <= MaxContext
    BY <1>1, <2>1, <2>2 DEF IndInv, TotalInv
  <2>5. ASSUME Len(used) < Len(relevant) PROVE TokensUpTo(relevant)[Len(used) + 1] > MaxContext
    <3>1. Len(used) + 1 = pos /\ pos \in 1 .. Len(relevant)
      BY <2>1, <2>2, <2>5
    <3>2. TokensUpTo(relevant)[pos] = TokensUpTo(relevant)[pos - 1] + relevant[pos].tokens
      BY <3>1, <2>1, TokensUpToDef
    <3>3. total + relevant[pos].tokens > MaxContext
      BY <1>1, <3>1 DEF IndInv, TotalInv
    <3> QED
      BY <1>1, <3>1, <3>2, <3>3 DEF IndInv, TotalInv
  <2> QED
    BY <2>3, <2>4, <2>5
<1> QED
  BY <1>1, Invariance, PTL
=============================================================================
