---------------------------- MODULE TenantCache ----------------------------
(***************************************************************************)
(* PostgresTenantRepository: the row of one tenant and the copy of it that *)
(* get_by_api_key_hash keeps in Redis for _CACHE_TTL seconds.  Clients     *)
(* look the tenant up, and change it by reading it, mutating the entity    *)
(* and writing all of it back with update().  A step ends at an await, so  *)
(* other clients run between a lookup's read of the row and its write to   *)
(* the cache, and between the two statements of update().                  *)
(*                                                                         *)
(* Time is relative: an entry knows how long it has to live, a superseded  *)
(* copy how long ago the row changed.                                      *)
(***************************************************************************)
EXTENDS Naturals

CONSTANTS
    Clients,
    TTL,        \* _CACHE_TTL, in ticks
    MaxDelay,   \* how long a lookup may take from reading the row to caching it
    MaxWrites,  \* bound on the changes of the row, for model checking
    None        \* no row, no entry, no copy

Mutations == {"deduct", "reset", "deactivate"}

TenantVals == [active : BOOLEAN, used : Nat]

\* A copy of the row; cur is FALSE once the row has been written again, and
\* stale counts the ticks since then.
Copies == [val : TenantVals, cur : BOOLEAN, stale : Nat]

ASSUME TenantAssumption ==
    /\ TTL \in Nat \ {0}
    /\ MaxDelay \in Nat
    /\ MaxWrites \in Nat
    /\ None \notin TenantVals

VARIABLES
    row,        \* is_active and tokens_used_this_month in the table
    cache,      \* the copy at tenant:key:{hash}
    ttl,        \* the ticks it has left
    pc,
    copy,       \* the entity a client holds
    delay,      \* how long it has held it on the way to the cache
    ledger,     \* history: the row if every change had seen the one before it
    lost,       \* history: some update() wrote back a superseded copy
    leftBehind, \* history: nobody is left to invalidate the present entry
    writes

clientVars == <<pc, copy, delay>>
cacheVars  == <<cache, ttl, leftBehind>>
rowVars    == <<row, ledger, lost, writes>>
vars       == <<clientVars, cacheVars, rowVars>>

Pcs == {"idle", "get", "fetch", "store", "have", "invalidate"}

NewTenant == [active |-> TRUE, used |-> 0]
NoCopy    == [val |-> NewTenant, cur |-> FALSE, stale |-> 0]
Fresh(v)  == [val |-> v, cur |-> TRUE, stale |-> 0]

Init ==
    /\ row = None
    /\ cache = NoCopy
    /\ ttl = 0
    /\ pc = [c \in Clients |-> "idle"]
    /\ copy = [c \in Clients |-> NoCopy]
    /\ delay = [c \in Clients |-> 0]
    /\ ledger = NewTenant
    /\ lost = FALSE
    /\ leftBehind = FALSE
    /\ writes = 0

-----------------------------------------------------------------------------
Cached == ttl > 0

\* Client c goes to l, holding k.
Goto(c, l, k) ==
    /\ pc' = [pc EXCEPT ![c] = l]
    /\ copy' = [copy EXCEPT ![c] = k]
    /\ delay' = [delay EXCEPT ![c] = 0]

NoEntry ==
    /\ cache' = NoCopy
    /\ ttl' = 0
    /\ leftBehind' = FALSE

-----------------------------------------------------------------------------
(* get_by_api_key_hash, get_by_id                                          *)

StartLookup(c) ==
    /\ pc[c] = "idle"
    /\ Goto(c, "get", NoCopy)
    /\ UNCHANGED <<cacheVars, rowVars>>

\* Mutant of CacheGet: a hit renews the entry's time to live.
CacheGetRenews(c) ==
    /\ pc[c] = "get"
    /\ IF Cached THEN Goto(c, "have", [cache EXCEPT !.stale = 0]) ELSE Goto(c, "fetch", NoCopy)
    /\ ttl' = IF Cached THEN TTL ELSE 0
    /\ UNCHANGED <<cache, leftBehind, rowVars>>

\* get_json: a hit is returned as it is, a miss goes on to the table.
CacheGet(c) ==
    /\ pc[c] = "get"
    /\ IF Cached THEN Goto(c, "have", [cache EXCEPT !.stale = 0]) ELSE Goto(c, "fetch", NoCopy)
    /\ UNCHANGED <<cacheVars, rowVars>>

\* SELECT ... WHERE api_key_hash = $1: None is returned and not cached.
FetchRow(c) ==
    /\ pc[c] = "fetch"
    /\ IF row = None THEN Goto(c, "idle", NoCopy) ELSE Goto(c, "store", Fresh(row))
    /\ UNCHANGED <<cacheVars, rowVars>>

\* Mutant of WriteBack: set_json is called without its ttl_seconds.
WriteBackDefaultTtl(c) ==
    /\ pc[c] = "store"
    /\ Goto(c, "have", [copy[c] EXCEPT !.stale = 0])
    /\ cache' = copy[c] /\ ttl' = TTL + MaxDelay + 1
    /\ leftBehind' = ~copy[c].cur
    /\ UNCHANGED rowVars

\* set_json with the copy read before; a failure is logged and ignored.
WriteBack(c) ==
    /\ pc[c] = "store"
    /\ Goto(c, "have", [copy[c] EXCEPT !.stale = 0])
    /\ \/ cache' = copy[c] /\ ttl' = TTL /\ leftBehind' = ~copy[c].cur
       \/ UNCHANGED cacheVars
    /\ UNCHANGED rowVars

GetById(c) ==
    /\ pc[c] = "idle" /\ row # None
    /\ Goto(c, "have", Fresh(row))
    /\ UNCHANGED <<cacheVars, rowVars>>

\* The request that holds the entity is over.
Release(c) ==
    /\ pc[c] = "have"
    /\ Goto(c, "idle", NoCopy)
    /\ UNCHANGED <<cacheVars, rowVars>>

-----------------------------------------------------------------------------
(* save, update, delete                                                    *)

\* INSERT ... ON CONFLICT DO NOTHING, of a tenant made by Tenant.create.
Save ==
    /\ row = None
    /\ row' = NewTenant
    /\ UNCHANGED <<clientVars, cacheVars, ledger, lost, writes>>

\* Mutant of Mutated: deduct_quota sets the counter where it should add.
MutatedSets(v, m) ==
    CASE m = "deduct" -> [v EXCEPT !.used = 1]
      [] m = "reset" -> [v EXCEPT !.used = 0]
      [] m = "deactivate" -> [v EXCEPT !.active = FALSE]

\* deduct_quota (of one unit), reset_monthly_quota and deactivate.
Mutated(v, m) ==
    CASE m = "deduct" -> [v EXCEPT !.used = v.used + 1]
      [] m = "reset" -> [v EXCEPT !.used = 0]
      [] m = "deactivate" -> [v EXCEPT !.active = FALSE]

\* What the change would have made of the row itself.
LedgerAfter(m) ==
    [active |-> ledger.active /\ m # "deactivate",
     used |-> IF m = "deduct" THEN ledger.used + 1 ELSE IF m = "reset" THEN 0 ELSE ledger.used]

Superseded(k) == [k EXCEPT !.cur = FALSE]

\* The row becomes v: all copies of it are superseded.
WriteRow(v, m) ==
    /\ writes < MaxWrites
    /\ writes' = writes + 1
    /\ row' = v
    /\ ledger' = LedgerAfter(m)
    /\ cache' = Superseded(cache)

\* The entity is mutated and update() runs its UPDATE of all the columns.
Update(c, m) ==
    /\ pc[c] = "have"
    /\ WriteRow(Mutated(copy[c].val, m), m)
    /\ lost' = (lost \/ ~copy[c].cur)
    /\ pc' = [pc EXCEPT ![c] = "invalidate"]
    /\ copy' = [d \in Clients |-> IF d = c THEN NoCopy ELSE Superseded(copy[d])]
    /\ UNCHANGED <<delay, ttl, leftBehind>>

\* Mutant of Invalidate: the wrong key is deleted.
InvalidateOther(c) ==
    /\ pc[c] = "invalidate"
    /\ Goto(c, "idle", NoCopy)
    /\ UNCHANGED <<cacheVars, rowVars>>

\* The second half of update(): the cached copy is deleted.
Invalidate(c) ==
    /\ pc[c] = "invalidate"
    /\ Goto(c, "idle", NoCopy)
    /\ NoEntry
    /\ UNCHANGED rowVars

\* delete(): UPDATE ... SET is_active = FALSE, of the row only.
Delete ==
    /\ row # None
    /\ WriteRow([row EXCEPT !.active = FALSE], "deactivate")
    /\ copy' = [c \in Clients |-> Superseded(copy[c])]
    /\ leftBehind' = Cached
    /\ UNCHANGED <<pc, delay, ttl, lost>>

\* A statement or a Redis command raises, or the process dies.  An update()
\* that ends here has written the row and leaves the entry where it is.
Fails(c) ==
    /\ pc[c] \in {"get", "fetch", "store", "invalidate"}
    /\ Goto(c, "idle", NoCopy)
    /\ leftBehind' = (leftBehind \/ (pc[c] = "invalidate" /\ Cached))
    /\ UNCHANGED <<cache, ttl, rowVars>>

\* Redis evicts the entry before its time.
Evict ==
    /\ Cached
    /\ NoEntry
    /\ UNCHANGED <<clientVars, rowVars>>

-----------------------------------------------------------------------------
Aged(k) == [k EXCEPT !.stale = IF k.cur THEN 0 ELSE @ + 1]

\* Mutant of AgeEntry: the entry does not expire.
AgeEntryForever ==
    /\ cache' = IF Cached THEN [cache EXCEPT !.stale = 0] ELSE cache
    /\ UNCHANGED <<ttl, leftBehind>>

AgeEntry ==
    IF ttl > 1
    THEN /\ cache' = Aged(cache)
         /\ ttl' = ttl - 1
         /\ UNCHANGED leftBehind
    ELSE NoEntry

Tick ==
    /\ \A c \in Clients : pc[c] = "store" => delay[c] < MaxDelay
    /\ delay' = [c \in Clients |-> IF pc[c] = "store" THEN delay[c] + 1 ELSE 0]
    /\ copy' = [c \in Clients |-> IF pc[c] = "store" THEN Aged(copy[c]) ELSE copy[c]]
    /\ AgeEntry
    /\ UNCHANGED <<pc, rowVars>>

\* The steps of a call that has begun.
CallStep(c) == CacheGet(c) \/ FetchRow(c) \/ WriteBack(c) \/ Invalidate(c)

Next ==
    \/ \E c \in Clients :
        \/ StartLookup(c) \/ GetById(c) \/ Release(c) \/ CallStep(c) \/ Fails(c)
        \/ \E m \in Mutations : Update(c, m)
    \/ Save \/ Delete \/ Evict \/ Tick

Spec == Init /\ [][Next]_vars

\* Time passes, and a call is resumed when the service it awaits has answered.
FairSpec == Spec /\ WF_vars(Tick) /\ \A c \in Clients : WF_vars(CallStep(c))

-----------------------------------------------------------------------------
\* Every variable has its type; an entry lives no longer than _CACHE_TTL.
TypeOK ==
    /\ row \in TenantVals \cup {None}
    /\ cache \in Copies
    /\ ttl \in 0 .. TTL
    /\ pc \in [Clients -> Pcs]
    /\ copy \in [Clients -> Copies]
    /\ delay \in [Clients -> 0 .. MaxDelay]
    /\ ledger \in TenantVals
    /\ lost \in BOOLEAN
    /\ leftBehind \in BOOLEAN
    /\ writes \in 0 .. MaxWrites

\* What a hit returns was the row less than _CACHE_TTL plus one lookup's delay
\* ago, whatever failed to invalidate it and however lookups and updates raced.
\* (knowledge-base/05-concurrency-and-consistency.md:153 promises _CACHE_TTL; a
\* lookup that writes back what it read before an update() exceeds it by as
\* long as it was under way, which this bound allows and the model reaches.)
StaleBound == Cached /\ ~cache.cur => cache.stale < TTL + MaxDelay

\* update() leaves no superseded entry: there is one only while some update()
\* has not run its second statement yet, or after one of the three things
\* nothing invalidates: delete(), an update() that failed half-way, a lookup
\* that wrote back what it had read before the update.
InvalidationWorks ==
    Cached /\ ~cache.cur => leftBehind \/ \E c \in Clients : pc[c] = "invalidate"

\* No deduction, reset or deactivation is lost, unless some update() wrote back
\* a copy that another write had superseded.
SerialUnlessStale == row # None /\ ~lost => row = ledger

\* When the row is no longer written, the cache comes to agree with it for good.
EventuallyCurrent == <>[](Cached => cache.cur)
=============================================================================
