------------------------- MODULE TenantCacheProofs -------------------------
(***************************************************************************)
(* Properties of TenantCache for any number of clients and writes, and for *)
(* every time to live and delay.                                           *)
(***************************************************************************)
EXTENDS TenantCache, TLAPS

\* How old copies can be.  A copy on its way to the cache was superseded while
\* its lookup held it; an entry has aged by what is over of its time to live.
AgeInv ==
    /\ cache.cur => cache.stale = 0
    /\ Cached => cache.stale + ttl <= TTL + MaxDelay
    /\ \A c \in Clients :
        /\ copy[c].cur => copy[c].stale = 0
        /\ pc[c] = "store" => copy[c].stale <= delay[c]

\* What is not superseded is the row.
CurrentInv ==
    /\ Cached /\ cache.cur => row # None /\ cache.val = row
    /\ \A c \in Clients : copy[c].cur => row # None /\ copy[c].val = row

\* Before save() nobody holds a copy and nothing has changed.
UnsavedInv ==
    row = None =>
        /\ ledger = NewTenant
        /\ ~Cached
        /\ \A c \in Clients : pc[c] \notin {"store", "have", "invalidate"}

IndInv ==
    TypeOK /\ AgeInv /\ CurrentInv /\ UnsavedInv /\ SerialUnlessStale /\ InvalidationWorks

-----------------------------------------------------------------------------
\* What the operators on copies do.
LEMMA CopyFacts ==
    /\ NewTenant \in TenantVals
    /\ NoCopy \in Copies /\ NoCopy.cur = FALSE /\ NoCopy.stale = 0
    /\ \A v \in TenantVals :
        Fresh(v) \in Copies /\ Fresh(v).val = v /\ Fresh(v).cur = TRUE /\ Fresh(v).stale = 0
    /\ \A k \in Copies :
        /\ k.cur \in BOOLEAN /\ k.stale \in Nat /\ k.val \in TenantVals
        /\ LET s == Superseded(k) IN
           s \in Copies /\ s.val = k.val /\ s.cur = FALSE /\ s.stale = k.stale
        /\ LET a == Aged(k) IN
           a \in Copies /\ a.val = k.val /\ a.cur = k.cur /\ a.stale = IF k.cur THEN 0 ELSE k.stale + 1
        /\ LET h == [k EXCEPT !.stale = 0] IN
           h \in Copies /\ h.val = k.val /\ h.cur = k.cur /\ h.stale = 0
<1>1. NewTenant \in TenantVals
  BY DEF NewTenant, TenantVals
<1>2. NoCopy \in Copies /\ NoCopy.cur = FALSE /\ NoCopy.stale = 0
  BY <1>1 DEF NoCopy, Copies
<1>3. ASSUME NEW v \in TenantVals
      PROVE  Fresh(v) \in Copies /\ Fresh(v).val = v /\ Fresh(v).cur = TRUE /\ Fresh(v).stale = 0
  BY DEF Fresh, Copies
<1>4. ASSUME NEW k \in Copies
      PROVE  /\ k.cur \in BOOLEAN /\ k.stale \in Nat /\ k.val \in TenantVals
             /\ LET s == Superseded(k) IN
                s \in Copies /\ s.val = k.val /\ s.cur = FALSE /\ s.stale = k.stale
             /\ LET a == Aged(k) IN
                a \in Copies /\ a.val = k.val /\ a.cur = k.cur
                /\ a.stale = IF k.cur THEN 0 ELSE k.stale + 1
             /\ LET h == [k EXCEPT !.stale = 0] IN
                h \in Copies /\ h.val = k.val /\ h.cur = k.cur /\ h.stale = 0
  <2>1. k.cur \in BOOLEAN /\ k.stale \in Nat /\ k.val \in TenantVals
    BY DEF Copies
  <2>2. ASSUME NEW n \in Nat
        PROVE  LET h == [k EXCEPT !.stale = n] IN
               h \in Copies /\ h.val = k.val /\ h.cur = k.cur /\ h.stale = n
    BY DEF Copies
  <2>3. LET s == Superseded(k) IN
        s \in Copies /\ s.val = k.val /\ s.cur = FALSE /\ s.stale = k.stale
    BY DEF Copies, Superseded
  <2>4. (IF k.cur THEN 0 ELSE k.stale + 1) \in Nat
    BY <2>1
  <2> QED
    BY <2>1, <2>2, <2>3, <2>4 DEF Aged
<1> QED
  BY <1>1, <1>2, <1>3, <1>4

\* A copy that was superseded grows older; one that is current does not.
LEMMA AgedFacts ==
    ASSUME NEW k \in Copies
    PROVE  /\ Aged(k) \in Copies /\ Aged(k).val = k.val /\ Aged(k).cur = k.cur
           /\ k.stale \in Nat /\ Aged(k).stale \in Nat
           /\ k.cur => Aged(k).stale = 0
           /\ Aged(k).stale <= k.stale + 1
<1>1. /\ Aged(k) \in Copies /\ Aged(k).val = k.val /\ Aged(k).cur = k.cur
      /\ k.stale \in Nat /\ Aged(k).stale = IF k.cur THEN 0 ELSE k.stale + 1
  BY CopyFacts
<1> QED
  BY <1>1

\* A change of the entity keeps its type and does to it what the ledger
\* records of the change.
LEMMA MutatedFacts ==
    ASSUME NEW v \in TenantVals, NEW m \in Mutations, ledger \in TenantVals
    PROVE  /\ Mutated(v, m) \in TenantVals
           /\ LedgerAfter(m) \in TenantVals
           /\ v = ledger => Mutated(v, m) = LedgerAfter(m)
<1>1. /\ v.active \in BOOLEAN /\ v.used \in Nat /\ v = [active |-> v.active, used |-> v.used]
      /\ ledger.active \in BOOLEAN /\ ledger.used \in Nat
  BY DEF TenantVals
<1>2. CASE m = "deduct"
  BY <1>1, <1>2 DEF Mutated, LedgerAfter, TenantVals
<1>3. CASE m = "reset"
  BY <1>1, <1>3 DEF Mutated, LedgerAfter, TenantVals
<1>4. CASE m = "deactivate"
  BY <1>1, <1>4 DEF Mutated, LedgerAfter, TenantVals
<1> QED
  BY <1>2, <1>3, <1>4 DEF Mutations

\* delete() is the deactivation of the row.
LEMMA DeactivatedFacts ==
    ASSUME NEW v \in TenantVals, ledger \in TenantVals
    PROVE  /\ [v EXCEPT !.active = FALSE] \in TenantVals
           /\ LedgerAfter("deactivate") \in TenantVals
           /\ v = ledger => [v EXCEPT !.active = FALSE] = LedgerAfter("deactivate")
<1>1. "deactivate" \in Mutations /\ Mutated(v, "deactivate") = [v EXCEPT !.active = FALSE]
  BY DEF Mutations, Mutated
<1> QED
  BY <1>1, MutatedFacts

\* The tenant does not exist, the cache is empty and every client idle.
LEMMA InitInv == Init => IndInv
<1> SUFFICES ASSUME Init PROVE IndInv
  OBVIOUS
<1>1. TypeOK
  <2>1. MaxDelay \in Nat /\ TTL \in Nat /\ MaxWrites \in Nat
    BY TenantAssumption
  <2>2. /\ row \in TenantVals \cup {None} /\ cache \in Copies /\ ledger \in TenantVals
        /\ copy \in [Clients -> Copies]
    BY CopyFacts DEF Init
  <2>3. ttl \in 0 .. TTL /\ delay \in [Clients -> 0 .. MaxDelay] /\ writes \in 0 .. MaxWrites
    BY <2>1 DEF Init
  <2>4. pc \in [Clients -> Pcs] /\ lost \in BOOLEAN /\ leftBehind \in BOOLEAN
    BY DEF Init, Pcs
  <2> QED
    BY <2>2, <2>3, <2>4 DEF TypeOK
<1>2. AgeInv /\ CurrentInv /\ UnsavedInv
  BY CopyFacts DEF Init, AgeInv, CurrentInv, UnsavedInv, Cached
<1>3. SerialUnlessStale /\ InvalidationWorks
  BY DEF Init, SerialUnlessStale, InvalidationWorks, Cached
<1> QED
  BY <1>1, <1>2, <1>3 DEF IndInv

-----------------------------------------------------------------------------
\* A client moves on with a copy k and touches neither cache nor row.
LEMMA ClientMoves ==
    ASSUME IndInv, NEW c \in Clients, NEW l \in Pcs, NEW k \in Copies,
           pc[c] # "invalidate", l # "invalidate", Goto(c, l, k), UNCHANGED <<cacheVars, rowVars>>,
           k.stale = 0, k.cur => row # None /\ k.val = row,
           l \in {"store", "have"} => row # None
    PROVE  IndInv'
<1>1. /\ pc' = [pc EXCEPT ![c] = l] /\ copy' = [copy EXCEPT ![c] = k]
      /\ delay' = [delay EXCEPT ![c] = 0]
      /\ UNCHANGED <<cache, ttl, leftBehind, row, ledger, lost, writes>>
  BY DEF Goto, cacheVars, rowVars
<1>2. TypeOK'
  BY <1>1, TenantAssumption DEF IndInv, TypeOK
<1>3. AgeInv'
  BY <1>1 DEF IndInv, TypeOK, AgeInv, Cached
<1>4. CurrentInv'
  BY <1>1 DEF IndInv, TypeOK, CurrentInv, Cached
<1>5. UnsavedInv'
  BY <1>1 DEF IndInv, TypeOK, UnsavedInv, Cached
<1>6. SerialUnlessStale' /\ InvalidationWorks'
  BY <1>1 DEF IndInv, TypeOK, SerialUnlessStale, InvalidationWorks, Cached
<1> QED
  BY <1>2, <1>3, <1>4, <1>5, <1>6 DEF IndInv

\* A lookup until it has the row, or has the tenant from the cache; a lookup by
\* id; the end of a request.
LEMMA LookupStep ==
    ASSUME IndInv, NEW c \in Clients,
           StartLookup(c) \/ CacheGet(c) \/ FetchRow(c) \/ GetById(c) \/ Release(c)
    PROVE  IndInv'
<1> USE CopyFacts
<1>1. CASE StartLookup(c)
  BY <1>1, ClientMoves DEF StartLookup, Pcs
<1>2. CASE CacheGet(c)
  <2>1. CASE Cached
    <3> DEFINE k == [cache EXCEPT !.stale = 0]
    <3>1. cache \in Copies /\ k \in Copies /\ k.stale = 0 /\ k.cur = cache.cur /\ k.val = cache.val
      BY DEF IndInv, TypeOK
    <3>2. row # None /\ (cache.cur => cache.val = row)
      BY <2>1 DEF IndInv, CurrentInv, UnsavedInv
    <3>3. pc[c] = "get" /\ Goto(c, "have", k) /\ UNCHANGED <<cacheVars, rowVars>>
      BY <1>2, <2>1 DEF CacheGet
    <3> HIDE DEF k
    <3> QED
      BY <3>1, <3>2, <3>3, ClientMoves DEF Pcs
  <2>2. CASE ~Cached
    BY <1>2, <2>2, ClientMoves DEF CacheGet, Pcs
  <2> QED
    BY <2>1, <2>2
<1>3. CASE FetchRow(c)
  <2>1. CASE row = None
    BY <1>3, <2>1, ClientMoves DEF FetchRow, Pcs
  <2>2. CASE row # None
    <3>1. row \in TenantVals
      BY <2>2 DEF IndInv, TypeOK
    <3> QED
      BY <1>3, <2>2, <3>1, ClientMoves DEF FetchRow, Pcs
  <2> QED
    BY <2>1, <2>2
<1>4. CASE GetById(c)
  <2>1. row \in TenantVals
    BY <1>4 DEF GetById, IndInv, TypeOK
  <2> QED
    BY <1>4, <2>1, ClientMoves DEF GetById, Pcs
<1>5. CASE Release(c)
  BY <1>5, ClientMoves DEF Release, Pcs
<1> QED
  BY <1>1, <1>2, <1>3, <1>4, <1>5

\* A lookup caches what it read, however old that has become, or fails to.
LEMMA WriteBackStep ==
    ASSUME IndInv, NEW c \in Clients, WriteBack(c)
    PROVE  IndInv'
<1> DEFINE k == [copy[c] EXCEPT !.stale = 0]
<1>1. copy[c] \in Copies /\ copy[c].stale \in Nat /\ copy[c].cur \in BOOLEAN
      /\ k \in Copies /\ k.stale = 0 /\ k.cur = copy[c].cur /\ k.val = copy[c].val
  BY CopyFacts DEF IndInv, TypeOK
<1>2. pc[c] = "store" /\ Goto(c, "have", k) /\ UNCHANGED rowVars
  BY DEF WriteBack
<1>3. row # None /\ (copy[c].cur => copy[c].val = row /\ copy[c].stale = 0)
      /\ copy[c].stale <= delay[c] /\ delay[c] <= MaxDelay /\ delay[c] \in Nat
  BY <1>2, TenantAssumption DEF IndInv, TypeOK, AgeInv, CurrentInv, UnsavedInv
<1>4. \/ cache' = copy[c] /\ ttl' = TTL /\ leftBehind' = ~copy[c].cur
      \/ UNCHANGED cacheVars
  BY DEF WriteBack
<1> HIDE DEF k
<1>5. CASE UNCHANGED cacheVars
  BY <1>1, <1>2, <1>3, <1>5, ClientMoves DEF Pcs
<1>6. CASE cache' = copy[c] /\ ttl' = TTL /\ leftBehind' = ~copy[c].cur
  <2>1. /\ pc' = [pc EXCEPT ![c] = "have"] /\ copy' = [copy EXCEPT ![c] = k]
        /\ delay' = [delay EXCEPT ![c] = 0] /\ UNCHANGED <<row, ledger, lost, writes>>
    BY <1>2 DEF Goto, rowVars
  <2>2. TypeOK'
    BY <1>1, <1>6, <2>1, TenantAssumption DEF IndInv, TypeOK, Pcs
  <2>3. AgeInv'
    BY <1>1, <1>3, <1>6, <2>1, TenantAssumption DEF IndInv, TypeOK, AgeInv, Cached
  <2>4. CurrentInv'
    BY <1>1, <1>3, <1>6, <2>1 DEF IndInv, TypeOK, CurrentInv, Cached
  <2>5. UnsavedInv' /\ SerialUnlessStale' /\ InvalidationWorks'
    BY <1>3, <1>6, <2>1 DEF IndInv, UnsavedInv, SerialUnlessStale, InvalidationWorks, Cached
  <2> QED
    BY <2>2, <2>3, <2>4, <2>5 DEF IndInv
<1> QED
  BY <1>4, <1>5, <1>6

\* save() makes the row; until then there was nothing to be stale.
LEMMA SaveStep == ASSUME IndInv, Save PROVE IndInv'
<1>1. row = None /\ row' = NewTenant
      /\ UNCHANGED <<pc, copy, delay, cache, ttl, leftBehind, ledger, lost, writes>>
  BY DEF Save, clientVars, cacheVars
<1>2. NewTenant \in TenantVals /\ NewTenant # None
  BY CopyFacts, TenantAssumption
<1>3. TypeOK'
  BY <1>1, <1>2 DEF IndInv, TypeOK
<1>4. AgeInv' /\ CurrentInv'
  BY <1>1, <1>2 DEF IndInv, AgeInv, CurrentInv, UnsavedInv, Cached
<1>5. UnsavedInv' /\ SerialUnlessStale' /\ InvalidationWorks'
  BY <1>1, <1>2 DEF IndInv, UnsavedInv, SerialUnlessStale, InvalidationWorks, Cached
<1> QED
  BY <1>3, <1>4, <1>5 DEF IndInv

\* The first half of update(): every other copy is superseded.
LEMMA UpdateStep ==
    ASSUME IndInv, NEW c \in Clients, NEW m \in Mutations, Update(c, m)
    PROVE  IndInv'
<1> DEFINE v == Mutated(copy[c].val, m)
<1>1. /\ pc[c] = "have" /\ pc' = [pc EXCEPT ![c] = "invalidate"]
      /\ copy' = [d \in Clients |-> IF d = c THEN NoCopy ELSE Superseded(copy[d])]
      /\ cache' = Superseded(cache) /\ row' = v /\ ledger' = LedgerAfter(m)
      /\ lost' = (lost \/ ~copy[c].cur) /\ writes < MaxWrites /\ writes' = writes + 1
      /\ UNCHANGED <<delay, ttl, leftBehind>>
  BY DEF Update, WriteRow
<1>2. copy[c] \in Copies /\ cache \in Copies /\ \A d \in Clients : copy[d] \in Copies
  BY DEF IndInv, TypeOK
<1>3. v \in TenantVals /\ LedgerAfter(m) \in TenantVals /\ v # None
      /\ (copy[c].val = ledger => v = LedgerAfter(m))
  <2>1. copy[c].val \in TenantVals /\ ledger \in TenantVals
    BY <1>2, CopyFacts DEF IndInv, TypeOK
  <2> QED
    BY <2>1, MutatedFacts, TenantAssumption
<1>4. /\ cache' \in Copies /\ ~cache'.cur /\ cache'.stale = cache.stale
      /\ \A d \in Clients :
            copy'[d] \in Copies /\ ~copy'[d].cur /\ (d # c => copy'[d].stale = copy[d].stale)
  BY <1>1, <1>2, CopyFacts
<1> HIDE DEF v
<1>5. TypeOK'
  <2>1. copy' \in [Clients -> Copies] /\ pc' \in [Clients -> Pcs]
    BY <1>1, <1>4 DEF IndInv, TypeOK, Pcs
  <2>2. lost' \in BOOLEAN
    BY <1>1
  <2>3. writes' \in 0 .. MaxWrites
    BY <1>1, TenantAssumption DEF IndInv, TypeOK
  <2> QED
    BY <1>1, <1>3, <1>4, <2>1, <2>2, <2>3 DEF IndInv, TypeOK
<1>6. AgeInv'
  BY <1>1, <1>4 DEF IndInv, TypeOK, AgeInv, Cached
<1>7. CurrentInv' /\ UnsavedInv'
  BY <1>1, <1>3, <1>4 DEF CurrentInv, UnsavedInv
<1>8. SerialUnlessStale'
  <2>1. CASE ~lost /\ copy[c].cur
    <3>1. copy[c].val = ledger
      BY <2>1 DEF IndInv, CurrentInv, SerialUnlessStale
    <3> QED
      BY <1>1, <1>3, <3>1 DEF SerialUnlessStale
  <2>2. CASE lost \/ ~copy[c].cur
    BY <1>1, <2>2 DEF SerialUnlessStale
  <2> QED
    BY <2>1, <2>2
<1>9. InvalidationWorks'
  BY <1>1 DEF IndInv, TypeOK, InvalidationWorks
<1> QED
  BY <1>5, <1>6, <1>7, <1>8, <1>9 DEF IndInv

\* The entry is gone: update() deleted it, or Redis did.
LEMMA EntryGone ==
    ASSUME IndInv, NoEntry, UNCHANGED rowVars,
           \/ UNCHANGED clientVars
           \/ \E c \in Clients : Goto(c, "idle", NoCopy)
    PROVE  IndInv'
<1>1. /\ cache' = NoCopy /\ ttl' = 0 /\ leftBehind' = FALSE
      /\ UNCHANGED <<row, ledger, lost, writes>>
  BY DEF NoEntry, rowVars
<1>2. \A d \in Clients :
        \/ pc'[d] = pc[d] /\ copy'[d] = copy[d] /\ delay'[d] = delay[d]
        \/ pc'[d] = "idle" /\ copy'[d] = NoCopy /\ delay'[d] = 0
  BY DEF clientVars, Goto, IndInv, TypeOK
<1>3. TypeOK'
  <2>1. MaxDelay \in Nat /\ TTL \in Nat
    BY TenantAssumption
  <2>2. pc' \in [Clients -> Pcs] /\ copy' \in [Clients -> Copies] /\ delay' \in [Clients -> 0 .. MaxDelay]
    BY <2>1, CopyFacts DEF clientVars, Goto, IndInv, TypeOK, Pcs
  <2>3. cache' \in Copies /\ ttl' \in 0 .. TTL /\ leftBehind' \in BOOLEAN
    <3>1. cache' \in Copies
      BY <1>1, CopyFacts
    <3>2. ttl' \in 0 .. TTL
      BY <1>1, <2>1
    <3>3. leftBehind' \in BOOLEAN
      BY <1>1
    <3> QED
      BY <3>1, <3>2, <3>3
  <2> QED
    BY <1>1, <2>2, <2>3 DEF IndInv, TypeOK
<1>4. AgeInv' /\ CurrentInv'
  BY <1>1, <1>2, CopyFacts DEF IndInv, AgeInv, CurrentInv, Cached
<1>5. UnsavedInv' /\ SerialUnlessStale' /\ InvalidationWorks'
  BY <1>1, <1>2 DEF IndInv, UnsavedInv, SerialUnlessStale, InvalidationWorks, Cached
<1> QED
  BY <1>3, <1>4, <1>5 DEF IndInv

\* delete() supersedes all copies and leaves the entry to its fate.
LEMMA DeleteStep == ASSUME IndInv, Delete PROVE IndInv'
<1> DEFINE v == [row EXCEPT !.active = FALSE]
<1>1. /\ row # None /\ row' = v /\ ledger' = LedgerAfter("deactivate")
      /\ cache' = Superseded(cache) /\ copy' = [c \in Clients |-> Superseded(copy[c])]
      /\ writes < MaxWrites /\ writes' = writes + 1 /\ leftBehind' = Cached
      /\ UNCHANGED <<pc, delay, ttl, lost>>
  BY DEF Delete, WriteRow
<1>2. cache \in Copies /\ \A d \in Clients : copy[d] \in Copies
  BY DEF IndInv, TypeOK
<1>3. row \in TenantVals /\ v \in TenantVals /\ v # None /\ LedgerAfter("deactivate") \in TenantVals
      /\ (row = ledger => v = LedgerAfter("deactivate"))
  BY <1>1, DeactivatedFacts, TenantAssumption DEF IndInv, TypeOK
<1>4. /\ cache' \in Copies /\ ~cache'.cur /\ cache'.stale = cache.stale
      /\ \A d \in Clients : copy'[d] \in Copies /\ ~copy'[d].cur /\ copy'[d].stale = copy[d].stale
  BY <1>1, <1>2, CopyFacts
<1> HIDE DEF v
<1>5. TypeOK'
  <2>1. copy' \in [Clients -> Copies]
    BY <1>1, <1>4
  <2>2. leftBehind' \in BOOLEAN
    BY <1>1 DEF Cached
  <2>3. writes' \in 0 .. MaxWrites
    BY <1>1, TenantAssumption DEF IndInv, TypeOK
  <2> QED
    BY <1>1, <1>3, <1>4, <2>1, <2>2, <2>3 DEF IndInv, TypeOK
<1>6. AgeInv'
  BY <1>1, <1>4 DEF IndInv, TypeOK, AgeInv, Cached
<1>7. CurrentInv' /\ UnsavedInv' /\ SerialUnlessStale'
  BY <1>1, <1>3, <1>4 DEF IndInv, CurrentInv, UnsavedInv, SerialUnlessStale
<1>8. InvalidationWorks'
  BY <1>1 DEF InvalidationWorks, Cached
<1> QED
  BY <1>5, <1>6, <1>7, <1>8 DEF IndInv

\* A call that fails; an update() that fails half-way leaves the entry behind.
LEMMA FailsStep ==
    ASSUME IndInv, NEW c \in Clients, Fails(c)
    PROVE  IndInv'
<1>1. /\ pc' = [pc EXCEPT ![c] = "idle"] /\ copy' = [copy EXCEPT ![c] = NoCopy]
      /\ delay' = [delay EXCEPT ![c] = 0]
      /\ leftBehind' = (leftBehind \/ (pc[c] = "invalidate" /\ Cached))
      /\ UNCHANGED <<cache, ttl, row, ledger, lost, writes>>
  BY DEF Fails, Goto, rowVars
<1>2. TypeOK'
  <2>1. leftBehind' \in BOOLEAN
    BY <1>1
  <2>2. pc' \in [Clients -> Pcs] /\ copy' \in [Clients -> Copies] /\ delay' \in [Clients -> 0 .. MaxDelay]
    BY <1>1, CopyFacts, TenantAssumption DEF IndInv, TypeOK, Pcs
  <2> QED
    BY <1>1, <2>1, <2>2 DEF IndInv, TypeOK
<1>3. AgeInv' /\ CurrentInv'
  BY <1>1, CopyFacts DEF IndInv, TypeOK, AgeInv, CurrentInv, Cached
<1>4. UnsavedInv' /\ SerialUnlessStale'
  BY <1>1 DEF IndInv, TypeOK, UnsavedInv, SerialUnlessStale, Cached
<1>5. InvalidationWorks'
  BY <1>1 DEF IndInv, TypeOK, InvalidationWorks, Cached
<1> QED
  BY <1>2, <1>3, <1>4, <1>5 DEF IndInv

\* Time passes for the entry and for the lookups on their way to the cache.
LEMMA TickStep == ASSUME IndInv, Tick PROVE IndInv'
<1>1. /\ \A c \in Clients : pc[c] = "store" => delay[c] < MaxDelay
      /\ delay' = [c \in Clients |-> IF pc[c] = "store" THEN delay[c] + 1 ELSE 0]
      /\ copy' = [c \in Clients |-> IF pc[c] = "store" THEN Aged(copy[c]) ELSE copy[c]]
      /\ UNCHANGED <<pc, row, ledger, lost, writes>>
  BY DEF Tick, rowVars
<1>2. MaxDelay \in Nat /\ TTL \in Nat
  BY TenantAssumption
<1>3. cache \in Copies /\ \A c \in Clients : copy[c] \in Copies /\ delay[c] \in Nat
  BY <1>2 DEF IndInv, TypeOK
<1>4. \A c \in Clients :
        /\ copy'[c] \in Copies /\ copy'[c].cur = copy[c].cur /\ copy'[c].val = copy[c].val
        /\ copy[c].cur => copy'[c].stale = 0
        /\ pc[c] = "store" => copy'[c].stale <= delay'[c]
  <2> SUFFICES ASSUME NEW c \in Clients
               PROVE  /\ copy'[c] \in Copies /\ copy'[c].cur = copy[c].cur /\ copy'[c].val = copy[c].val
                      /\ copy[c].cur => copy'[c].stale = 0
                      /\ pc[c] = "store" => copy'[c].stale <= delay'[c]
    OBVIOUS
  <2>1. copy[c].cur => copy[c].stale = 0
    BY DEF IndInv, AgeInv
  <2>2. CASE pc[c] = "store"
    <3>1. copy'[c] = Aged(copy[c]) /\ delay'[c] = delay[c] + 1
      BY <1>1, <2>2
    <3>2. copy[c].stale <= delay[c]
      BY <2>2 DEF IndInv, AgeInv
    <3> QED
      BY <1>3, <3>1, <3>2, AgedFacts
  <2>3. CASE pc[c] # "store"
    BY <1>1, <1>3, <2>1, <2>3
  <2> QED
    BY <2>2, <2>3
<1>5. delay' \in [Clients -> 0 .. MaxDelay] /\ copy' \in [Clients -> Copies]
  BY <1>1, <1>2, <1>3, <1>4
<1>6. \/ /\ ttl > 1 /\ ttl' = ttl - 1 /\ cache' = Aged(cache) /\ leftBehind' = leftBehind
      \/ cache' = NoCopy /\ ttl' = 0 /\ leftBehind' = FALSE
  BY DEF Tick, AgeEntry, NoEntry
<1>7. /\ cache' \in Copies /\ (cache'.cur => cache'.stale = 0)
      /\ Cached' => /\ Cached /\ cache'.cur = cache.cur /\ cache'.val = cache.val
                    /\ cache'.stale <= cache.stale + 1 /\ leftBehind' = leftBehind
                    /\ ttl' = ttl - 1
  <2>1. CASE ttl > 1 /\ ttl' = ttl - 1 /\ cache' = Aged(cache) /\ leftBehind' = leftBehind
    <3>1. ttl \in Nat
      BY <1>2 DEF IndInv, TypeOK
    <3> QED
      BY <1>3, <2>1, <3>1, AgedFacts DEF Cached
  <2>2. CASE cache' = NoCopy /\ ttl' = 0 /\ leftBehind' = FALSE
    <3>1. ~Cached'
      BY <2>2 DEF Cached
    <3>2. cache' \in Copies /\ cache'.cur = FALSE
      BY <2>2, CopyFacts
    <3> QED
      BY <3>1, <3>2
  <2> QED
    BY <1>6, <2>1, <2>2
<1>8. TypeOK'
  <2>1. ttl' \in 0 .. TTL
    BY <1>2, <1>6 DEF IndInv, TypeOK
  <2>2. leftBehind' \in BOOLEAN
    BY <1>6 DEF IndInv, TypeOK
  <2> QED
    BY <1>1, <1>5, <1>7, <2>1, <2>2 DEF IndInv, TypeOK
<1>9. AgeInv'
  <2>1. Cached' => cache'.stale + ttl' <= TTL + MaxDelay
    <3> SUFFICES ASSUME Cached' PROVE cache'.stale + ttl' <= TTL + MaxDelay
      OBVIOUS
    <3>1. cache.stale + ttl <= TTL + MaxDelay /\ cache'.stale <= cache.stale + 1 /\ ttl' = ttl - 1
      BY <1>7 DEF IndInv, AgeInv
    <3>2. cache.stale \in Nat /\ cache'.stale \in Nat /\ ttl \in Nat
      BY <1>2, <1>3, <1>7 DEF IndInv, TypeOK, Copies
    <3> QED
      BY <1>2, <3>1, <3>2
  <2> QED
    BY <1>1, <1>4, <1>7, <2>1 DEF AgeInv
<1>10. CurrentInv'
  BY <1>1, <1>4, <1>7 DEF IndInv, CurrentInv
<1>11. UnsavedInv' /\ SerialUnlessStale' /\ InvalidationWorks'
  BY <1>1, <1>7 DEF IndInv, UnsavedInv, SerialUnlessStale, InvalidationWorks
<1> QED
  BY <1>8, <1>9, <1>10, <1>11 DEF IndInv

\* Every step of the clients, of the database and of time keeps the invariant.
LEMMA NextInv == IndInv /\ [Next]_vars => IndInv'
<1> SUFFICES ASSUME IndInv, [Next]_vars PROVE IndInv'
  OBVIOUS
<1>1. CASE UNCHANGED vars
  <2>1. UNCHANGED <<pc, copy, delay, cache, ttl, leftBehind, row, ledger, lost, writes>>
    BY <1>1 DEF vars, clientVars, cacheVars, rowVars
  <2> QED
    BY <2>1 DEF IndInv, TypeOK, AgeInv, CurrentInv, UnsavedInv, SerialUnlessStale,
                InvalidationWorks, Cached
<1>2. ASSUME NEW c \in Clients, StartLookup(c) \/ CacheGet(c) \/ FetchRow(c) \/ GetById(c) \/ Release(c)
      PROVE  IndInv'
  BY <1>2, LookupStep
<1>3. ASSUME NEW c \in Clients, Invalidate(c) PROVE IndInv'
  BY <1>3, EntryGone DEF Invalidate
<1>4. CASE Evict
  BY <1>4, EntryGone DEF Evict
<1> QED
  BY <1>1, <1>2, <1>3, <1>4, WriteBackStep, UpdateStep, FailsStep, SaveStep, DeleteStep, TickStep
     DEF Next, CallStep

\* IndInv is an invariant of the tenant cache.
THEOREM Invariant == Spec => []IndInv
  BY InitInv, NextInv, PTL DEF Spec

-----------------------------------------------------------------------------
\* Every variable keeps its type, and an entry lives no longer than _CACHE_TTL.
THEOREM TypeCorrect == Spec => []TypeOK
<1>1. IndInv => TypeOK
  BY DEF IndInv
<1> QED
  BY <1>1, Invariant, PTL

\* A tenant that get_by_api_key_hash serves from the cache was in the table less
\* than _CACHE_TTL plus the duration of one lookup ago, however lookups, updates,
\* deletions, failures and evictions interleave.
THEOREM StalenessIsBounded == Spec => []StaleBound
<1>1. IndInv => StaleBound
  <2> SUFFICES ASSUME IndInv, Cached PROVE cache.stale < TTL + MaxDelay
    BY DEF StaleBound
  <2>1. cache.stale \in Nat /\ ttl \in Nat /\ TTL \in Nat /\ MaxDelay \in Nat
    BY TenantAssumption DEF IndInv, TypeOK, Copies
  <2>2. cache.stale + ttl <= TTL + MaxDelay /\ ttl > 0
    BY DEF IndInv, AgeInv, Cached
  <2> QED
    BY <2>1, <2>2
<1> QED
  BY <1>1, Invariant, PTL

\* A superseded entry is one that an update() is about to delete, or one that
\* delete(), a failed update() or a late lookup left behind.
THEOREM UpdatesInvalidate == Spec => []InvalidationWorks
<1>1. IndInv => InvalidationWorks
  BY DEF IndInv
<1> QED
  BY <1>1, Invariant, PTL

\* Unless some update() wrote back a superseded copy, the row is what the
\* changes make of it one after the other.
THEOREM ChangesAreSerial == Spec => []SerialUnlessStale
<1>1. IndInv => SerialUnlessStale
  BY DEF IndInv
<1> QED
  BY <1>1, Invariant, PTL
=============================================================================
