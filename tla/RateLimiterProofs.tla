-------------------------- MODULE RateLimiterProofs --------------------------
(***************************************************************************)
(* Proofs, for any number of requests, limit and window, of the safety     *)
(* properties of RateLimiter.                                              *)
(***************************************************************************)
EXTENDS RateLimiter, FiniteSetTheorems, TLAPS

\* Times are read from the clock and never from its future.
TimeInv ==
    \A r \in Reqs : stamp[r] <= clock /\ stamp2[r] <= clock

\* Only allowed requests are in the set; before its script runs a request has
\* no result.
ResultInv ==
    /\ zset \subseteq sinceReset
    /\ \A r \in sinceReset : result[r] = "allowed"
    /\ \A r \in Reqs : pc[r] \in {"idle", "script"} => result[r] = "none"

\* The key outlives the window of each of its entries, and is gone after that.
ExpiryInv ==
    \A q \in zset : stamp[q] + Window <= expireAt /\ clock < expireAt

\* With distinct members nothing inside the window of the present is missing.
KeptInv ==
    DistinctMembers => {q \in sinceReset : stamp[q] + Window > clock} \subseteq zset

SizeInv == Cardinality(zset) <= Limit

IndInv ==
    /\ TypeOK
    /\ TimeInv
    /\ ResultInv
    /\ ExpiryInv
    /\ KeptInv
    /\ SizeInv
    /\ DeniedForCause

\* Subsets of the set are finite and no larger.
LEMMA SubsetSize ==
    ASSUME TypeOK, NEW S \in SUBSET zset
    PROVE  /\ IsFiniteSet(S)
           /\ Cardinality(S) \in Nat
           /\ Cardinality(zset) \in Nat
           /\ Cardinality(S) <= Cardinality(zset)
<1>1. IsFiniteSet(zset)
  BY LimiterAssumption, FS_Subset DEF TypeOK
<1> QED
  BY <1>1, FS_Subset, FS_CardinalityType

LEMMA AddOne ==
    ASSUME NEW S, IsFiniteSet(S), NEW x
    PROVE  Cardinality(S \cup {x}) \in Nat /\ Cardinality(S \cup {x}) <= Cardinality(S) + 1
<1>1. Cardinality(S) \in Nat
  BY FS_CardinalityType
<1>2. Cardinality(S \cup {x}) = IF x \in S THEN Cardinality(S) ELSE Cardinality(S) + 1
  BY FS_AddElement
<1> QED
  BY <1>1, <1>2

\* The requests allowed inside the window that starts Window before time t.
Allowed(t) == {q \in Reqs : result[q] = "allowed" /\ stamp[q] + Window > t}

LEMMA InitInv == Init => IndInv
<1> SUFFICES ASSUME Init PROVE IndInv
  OBVIOUS
<1> USE LimiterAssumption DEF Init
<1>1. TypeOK /\ TimeInv /\ ResultInv /\ ExpiryInv /\ KeptInv
  BY DEF TypeOK, Pcs, TimeInv, ResultInv, ExpiryInv, KeptInv
<1>2. SizeInv
  BY FS_EmptySet DEF SizeInv
<1>3. DeniedForCause
  BY DEF DeniedForCause
<1> QED
  BY <1>1, <1>2, <1>3 DEF IndInv

\* The script, allowing.
LEMMA GrantStep ==
    ASSUME IndInv, NEW r \in Reqs, RunScript(r),
           Cardinality(Unexpired(stamp[r])) < Limit, Grant(r, Unexpired(stamp[r]))
    PROVE  IndInv'
<1> USE LimiterAssumption DEF IndInv, RunScript, Grant, Goto
<1> DEFINE kept == Unexpired(stamp[r])
           rest == {q \in kept : Member(q) # Member(r)}
<1>1. TypeOK' /\ TimeInv' /\ ResultInv'
  BY DEF TypeOK, Pcs, TimeInv, ResultInv, Unexpired
<1>2. ExpiryInv'
  BY DEF TypeOK, TimeInv, ExpiryInv, Unexpired
<1>3. KeptInv'
  <2> SUFFICES ASSUME DistinctMembers',
                      NEW q \in sinceReset', stamp[q] + Window > clock
               PROVE  q \in zset'
    BY DEF KeptInv
  <2>1. CASE q = r
    BY <2>1
  <2>2. CASE q # r
    <3>1. DistinctMembers
      BY DEF DistinctMembers, Member
    <3>2. q \in zset
      BY <2>2, <3>1 DEF KeptInv
    <3>3. q \in kept
      BY <3>2 DEF Unexpired, TypeOK, TimeInv
    <3>4. Member(q) # Member(r)
      BY <2>2 DEF DistinctMembers, Member
    <3> QED
      BY <3>3, <3>4
  <2> QED
    BY <2>1, <2>2
<1>4. SizeInv'
  <2>1. rest \subseteq kept /\ kept \in SUBSET zset
    BY DEF Unexpired
  <2>2. /\ IsFiniteSet(kept)
        /\ Cardinality(kept) \in Nat
    BY <2>1, SubsetSize
  <2>3. /\ IsFiniteSet(rest)
        /\ Cardinality(rest) \in Nat
        /\ Cardinality(rest) <= Cardinality(kept)
    BY <2>1, <2>2, FS_Subset, FS_CardinalityType
  <2>4. /\ Cardinality(rest \cup {r}) \in Nat
        /\ Cardinality(rest \cup {r}) <= Cardinality(rest) + 1
    <3> HIDE DEF rest
    <3> QED
      BY <2>3, AddOne
  <2> QED
    BY <2>2, <2>3, <2>4 DEF SizeInv
<1>5. DeniedForCause'
  <2> SUFFICES ASSUME NEW x \in Reqs, result'[x] = "denied"
               PROVE  Limit <= Cardinality(Allowed(stamp[x])')
    BY DEF DeniedForCause, Allowed
  <2>1. result[x] = "denied" /\ x # r
    BY DEF TypeOK
  <2>2. Limit <= Cardinality(Allowed(stamp[x]))
    BY <2>1 DEF DeniedForCause, Allowed
  <2>3. Allowed(stamp[x]) \subseteq Allowed(stamp[x])' /\ Allowed(stamp[x])' \subseteq Reqs
    BY DEF Allowed, TypeOK
  <2>4. /\ Cardinality(Allowed(stamp[x])) <= Cardinality(Allowed(stamp[x])')
        /\ Cardinality(Allowed(stamp[x])) \in Nat
        /\ Cardinality(Allowed(stamp[x])') \in Nat
    <3>1. IsFiniteSet(Allowed(stamp[x])')
      BY <2>3, FS_Subset
    <3> QED
      BY <2>3, <3>1, FS_Subset, FS_CardinalityType
  <2> QED
    BY <2>2, <2>4
<1> QED
  BY <1>1, <1>2, <1>3, <1>4, <1>5

\* The script, denying: the entries it counted are the cause.
LEMMA DenyStep ==
    ASSUME IndInv, NEW r \in Reqs, RunScript(r),
           Cardinality(Unexpired(stamp[r])) >= Limit, Deny(r, Unexpired(stamp[r]))
    PROVE  IndInv'
<1> USE LimiterAssumption DEF IndInv, RunScript, Deny, Goto
<1> DEFINE kept == Unexpired(stamp[r])
<1>1. TypeOK' /\ TimeInv' /\ ResultInv' /\ ExpiryInv'
  BY DEF TypeOK, Pcs, TimeInv, ResultInv, ExpiryInv, Unexpired
<1>2. KeptInv'
  BY DEF KeptInv, DistinctMembers, Member, TypeOK, TimeInv, Unexpired
<1>3. kept \in SUBSET zset
  BY DEF Unexpired
<1>4. SizeInv'
  BY <1>3, SubsetSize DEF SizeInv
<1>5. DeniedForCause'
  <2> SUFFICES ASSUME NEW x \in Reqs, result'[x] = "denied"
               PROVE  Limit <= Cardinality(Allowed(stamp[x])')
    BY DEF DeniedForCause, Allowed
  <2>1. Allowed(stamp[x])' = Allowed(stamp[x])
    BY DEF Allowed, TypeOK, ResultInv
  <2>2. CASE x = r
    <3>1. kept \subseteq Allowed(stamp[x])
      BY <2>2 DEF Allowed, Unexpired, ResultInv, TypeOK
    <3>2. IsFiniteSet(Allowed(stamp[x]))
      BY FS_Subset DEF Allowed
    <3>3. /\ Cardinality(kept) <= Cardinality(Allowed(stamp[x]))
          /\ Cardinality(kept) \in Nat
          /\ Cardinality(Allowed(stamp[x])) \in Nat
      BY <3>1, <3>2, FS_Subset, FS_CardinalityType
    <3> QED
      BY <2>1, <3>3
  <2>3. CASE x # r
    BY <2>1, <2>3 DEF DeniedForCause, Allowed, TypeOK
  <2> QED
    BY <2>2, <2>3
<1> QED
  BY <1>1, <1>2, <1>4, <1>5

\* The steps of a request outside the script, and reset().
LEMMA OtherSteps ==
    ASSUME IndInv,
           \/ Reset
           \/ \E r \in Reqs : \/ TakeNow(r) \/ Reply(r) \/ ScriptError(r)
                              \/ Serve(r) \/ ServeRaises(r) \/ Prune(r) \/ RemainingError(r)
    PROVE  IndInv'
<1> USE LimiterAssumption DEF IndInv, TypeOK, Goto, redisVars
<1>1. UNCHANGED clock
  BY DEF Reset, TakeNow, Reply, ScriptError, Serve, ServeRaises, Prune, RemainingError
<1>2. /\ zset' \subseteq zset
      /\ result' = result
      /\ \A q \in Reqs : result[q] # "none" => stamp'[q] = stamp[q] /\ rnd'[q] = rnd[q]
  BY DEF Reset, TakeNow, Reply, ScriptError, Serve, ServeRaises, Prune, RemainingError, Unexpired, ResultInv
<1>3. TypeOK'
  BY DEF Reset, TakeNow, Reply, ScriptError, Serve, ServeRaises, Prune, RemainingError, Unexpired, Pcs
<1>4. TimeInv' /\ ResultInv'
  BY DEF Reset, TakeNow, Reply, ScriptError, Serve, ServeRaises, Prune, RemainingError, Unexpired,
         TimeInv, ResultInv
<1>5. ExpiryInv'
  BY <1>1, <1>2 DEF Reset, TakeNow, Reply, ScriptError, Serve, ServeRaises, Prune, RemainingError,
         ExpiryInv, ResultInv
<1>6. KeptInv'
  <2>1. CASE Reset
    BY <2>1 DEF Reset, KeptInv
  <2>2. CASE \E r \in Reqs : \/ TakeNow(r) \/ Reply(r) \/ ScriptError(r)
                             \/ Serve(r) \/ ServeRaises(r) \/ RemainingError(r)
    BY <1>2, <2>2 DEF TakeNow, Reply, ScriptError, Serve, ServeRaises, RemainingError,
         KeptInv, DistinctMembers, Member, ResultInv
  <2>3. CASE \E r \in Reqs : Prune(r)
    BY <2>3 DEF Prune, Unexpired, TimeInv, KeptInv, DistinctMembers, Member
  <2> QED
    BY <2>1, <2>2, <2>3
<1>7. SizeInv'
  BY <1>2, SubsetSize DEF SizeInv
<1>8. DeniedForCause'
  <2>1. ASSUME NEW x \in Reqs, result[x] = "denied"
        PROVE  Allowed(stamp[x])' = Allowed(stamp[x])
    BY <1>2, <2>1 DEF Allowed
  <2> QED
    BY <1>2, <2>1 DEF DeniedForCause, Allowed
<1> QED
  BY <1>3, <1>4, <1>5, <1>6, <1>7, <1>8

\* The passing of time: what Redis drops is outside every window.
LEMMA TickStep ==
    ASSUME IndInv, Tick PROVE IndInv'
<1> USE LimiterAssumption DEF IndInv, TypeOK, Tick
<1>1. TypeOK' /\ TimeInv' /\ ResultInv' /\ ExpiryInv'
  BY DEF TimeInv, ResultInv, ExpiryInv
<1>2. KeptInv'
  BY DEF KeptInv, ExpiryInv, DistinctMembers, Member
<1>3. SizeInv'
  <2>1. zset' \in SUBSET zset
    OBVIOUS
  <2> QED
    BY <2>1, SubsetSize DEF SizeInv
<1>4. DeniedForCause'
  BY DEF DeniedForCause
<1> QED
  BY <1>1, <1>2, <1>3, <1>4

\* The inductive invariant holds in every reachable state.
THEOREM Invariance == Spec => []IndInv
<1>1. IndInv /\ [Next]_vars => IndInv'
  <2> SUFFICES ASSUME IndInv, [Next]_vars PROVE IndInv'
    OBVIOUS
  <2>1. CASE Tick
    BY <2>1, TickStep
  <2>2. ASSUME NEW r \in Reqs, RunScript(r) PROVE IndInv'
    BY <2>2, GrantStep, DenyStep DEF RunScript
  <2>3. CASE Reset
    BY <2>3, OtherSteps
  <2>4. ASSUME NEW r \in Reqs, RequestStep(r), ~RunScript(r) PROVE IndInv'
    BY <2>4, OtherSteps DEF RequestStep
  <2>5. CASE UNCHANGED vars
    BY <2>5 DEF vars, IndInv, TypeOK, TimeInv, ResultInv, ExpiryInv, KeptInv, SizeInv,
                DeniedForCause, DistinctMembers, Member
  <2> QED
    BY <2>1, <2>2, <2>3, <2>4, <2>5 DEF Next
<1> QED
  BY <1>1, InitInv, PTL DEF Spec

\* Type correctness.
THEOREM TypeCorrect == Spec => []TypeOK
<1>1. IndInv => TypeOK
  BY DEF IndInv
<1> QED
  BY <1>1, Invariance, PTL

\* As long as members are distinct, no more than the limit has been allowed of
\* the requests of the last window, for every interleaving and any delay
\* between reading the clock and running the script.
THEOREM Bounded == Spec => []RecentBound
<1>1. IndInv => RecentBound
  <2> SUFFICES ASSUME IndInv, DistinctMembers
               PROVE  Cardinality({q \in sinceReset : stamp[q] + Window > clock}) <= Limit
    BY DEF RecentBound
  <2> DEFINE recent == {q \in sinceReset : stamp[q] + Window > clock}
  <2>1. recent \in SUBSET zset
    BY DEF IndInv, KeptInv
  <2> QED
    BY <2>1, SubsetSize, LimiterAssumption DEF IndInv, SizeInv
<1> QED
  BY <1>1, Invariance, PTL

\* No request is denied unless the limit was really used up in its window.
THEOREM DenialsHaveCause == Spec => []DeniedForCause
<1>1. IndInv => DeniedForCause
  BY DEF IndInv
<1> QED
  BY <1>1, Invariance, PTL
=============================================================================
