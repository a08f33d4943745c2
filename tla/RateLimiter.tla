---------------------------- MODULE RateLimiter ----------------------------
(***************************************************************************)
(* The sliding-window rate limiter: rate_limit_middleware in front of      *)
(* RedisRateLimiter, for one rate key.  Each request reads time.time(),    *)
(* then awaits the Lua script, then (when it is let through) reads the     *)
(* time again and awaits the two commands of get_remaining.  Between any   *)
(* two awaits the clock and all the other requests may move.               *)
(*                                                                         *)
(* A tick of the clock is the precision of the member string, in which Lua *)
(* prints `now' with 14 significant digits (100 microseconds).  The sorted *)
(* set holds, for each member, the request that added it last.             *)
(***************************************************************************)
EXTENDS Naturals, FiniteSets

CONSTANTS
    Reqs,       \* requests that carry the key
    Limit,      \* requests_per_minute
    Window,     \* window_seconds, in ticks
    Rnds,       \* values of math.random(1000000)
    MaxClock    \* bound of the clock, for model checking

ASSUME LimiterAssumption ==
    /\ IsFiniteSet(Reqs)
    /\ Limit \in Nat \ {0}
    /\ Window \in Nat \ {0}
    /\ MaxClock \in Nat

VARIABLES
    clock,
    pc,         \* where each request is in the middleware
    stamp,      \* now, as read by is_allowed
    rnd,        \* the random suffix of its member
    stamp2,     \* now, as read by get_remaining
    result,     \* what the script decided
    zset,       \* the sorted set of the key
    expireAt,   \* when Redis drops the key
    sinceReset  \* requests the script allowed since the last reset()

vars == <<clock, pc, stamp, rnd, stamp2, result, zset, expireAt, sinceReset>>

redisVars == <<zset, expireAt, sinceReset>>

\* "limited" is the 429; "served" the response, or the exception, of call_next.
Pcs == {"idle", "script", "reply", "serve", "prune", "served", "limited"}

\* The member ZADD writes: now .. ':' .. math.random(1000000)
Member(r) == <<stamp[r], rnd[r]>>

\* ZREMRANGEBYSCORE key -inf now-window
Unexpired(now) == {q \in zset : stamp[q] + Window > now}

Init ==
    /\ clock = 0
    /\ pc = [r \in Reqs |-> "idle"]
    /\ stamp = [r \in Reqs |-> 0]
    /\ rnd \in [Reqs -> Rnds]
    /\ stamp2 = [r \in Reqs |-> 0]
    /\ result = [r \in Reqs |-> "none"]
    /\ zset = {}
    /\ expireAt = 0
    /\ sinceReset = {}

-----------------------------------------------------------------------------
Goto(r, l) == pc' = [pc EXCEPT ![r] = l]

\* The middleware calls is_allowed, which reads the clock before its await.
TakeNow(r) ==
    /\ pc[r] = "idle"
    /\ stamp' = [stamp EXCEPT ![r] = clock]
    /\ Goto(r, "script")
    /\ UNCHANGED <<clock, rnd, stamp2, result, redisVars>>

\* ZADD replaces an entry with the same member; EXPIRE restarts the key's TTL.
Grant(r, kept) ==
    /\ result' = [result EXCEPT ![r] = "allowed"]
    /\ zset' = {q \in kept : Member(q) # Member(r)} \cup {r}
    /\ expireAt' = clock + Window
    /\ sinceReset' = sinceReset \cup {r}

\* Mutant of Deny: a denied request is left in the set, as in the pipeline
\* version the module's header describes.
DenyRecorded(r, kept) ==
    /\ result' = [result EXCEPT ![r] = "denied"]
    /\ zset' = kept \cup {r}
    /\ UNCHANGED <<expireAt, sinceReset>>

Deny(r, kept) ==
    /\ result' = [result EXCEPT ![r] = "denied"]
    /\ zset' = kept
    /\ UNCHANGED <<expireAt, sinceReset>>

\* Mutant of RunScript: `<=' where the code has `<'.
RunScriptOneMore(r) ==
    LET kept == Unexpired(stamp[r]) IN
    /\ pc[r] = "script"
    /\ \/ Cardinality(kept) <= Limit /\ Grant(r, kept)
       \/ Cardinality(kept) > Limit /\ Deny(r, kept)
    /\ Goto(r, "reply")
    /\ UNCHANGED <<clock, stamp, rnd, stamp2>>

\* The Lua script, which Redis runs atomically, with the request's own now.
RunScript(r) ==
    LET kept == Unexpired(stamp[r]) IN
    /\ pc[r] = "script"
    /\ \/ Cardinality(kept) < Limit /\ Grant(r, kept)
       \/ Cardinality(kept) >= Limit /\ Deny(r, kept)
    /\ Goto(r, "reply")
    /\ UNCHANGED <<clock, stamp, rnd, stamp2>>

\* The answer arrives; a denied request gets a 429 and is over.
Reply(r) ==
    /\ pc[r] = "reply"
    /\ Goto(r, IF result[r] = "allowed" THEN "serve" ELSE "limited")
    /\ UNCHANGED <<clock, stamp, rnd, stamp2, result, redisVars>>

\* Redis fails before or after the script ran: fail open.
ScriptError(r) ==
    /\ pc[r] \in {"script", "reply"}
    /\ Goto(r, "serve")
    /\ UNCHANGED <<clock, stamp, rnd, stamp2, result, redisVars>>

\* call_next returns and get_remaining reads the clock.
Serve(r) ==
    /\ pc[r] = "serve"
    /\ stamp2' = [stamp2 EXCEPT ![r] = clock]
    /\ Goto(r, "prune")
    /\ UNCHANGED <<clock, stamp, rnd, result, redisVars>>

\* call_next raises: the exception passes through and get_remaining is not called.
ServeRaises(r) ==
    /\ pc[r] = "serve"
    /\ Goto(r, "served")
    /\ UNCHANGED <<clock, stamp, rnd, stamp2, result, redisVars>>

\* get_remaining: ZREMRANGEBYSCORE with the time read before the await; the
\* ZCARD after it only fills a header.  Its local now is then dead (stamp2 = 0).
Prune(r) ==
    /\ pc[r] = "prune"
    /\ zset' = Unexpired(stamp2[r])
    /\ stamp2' = [stamp2 EXCEPT ![r] = 0]
    /\ Goto(r, "served")
    /\ UNCHANGED <<clock, stamp, rnd, result, expireAt, sinceReset>>

\* get_remaining fails: the header says Limit.
RemainingError(r) ==
    /\ pc[r] = "prune"
    /\ stamp2' = [stamp2 EXCEPT ![r] = 0]
    /\ Goto(r, "served")
    /\ UNCHANGED <<clock, stamp, rnd, result, redisVars>>

\* reset(key): DEL.
Reset ==
    /\ sinceReset # {}
    /\ zset' = {}
    /\ expireAt' = 0
    /\ sinceReset' = {}
    /\ UNCHANGED <<clock, pc, stamp, rnd, stamp2, result>>

\* Time passes; Redis drops the key when its TTL is over.
Tick ==
    /\ clock < MaxClock
    /\ clock' = clock + 1
    /\ zset' = IF clock' >= expireAt THEN {} ELSE zset
    /\ UNCHANGED <<pc, stamp, rnd, stamp2, result,
                   expireAt, sinceReset>>

RequestStep(r) ==
    \/ TakeNow(r) \/ RunScript(r) \/ Reply(r) \/ ScriptError(r)
    \/ Serve(r) \/ ServeRaises(r) \/ Prune(r) \/ RemainingError(r)

Next == Tick \/ Reset \/ \E r \in Reqs : RequestStep(r)

Spec == Init /\ [][Next]_vars

-----------------------------------------------------------------------------
\* Every variable has its type: the middleware ends each request in a 429 or in
\* the outcome of call_next, never in an error of the limiter's own.
TypeOK ==
    /\ clock \in Nat
    /\ pc \in [Reqs -> Pcs]
    /\ stamp \in [Reqs -> Nat]
    /\ rnd \in [Reqs -> Rnds]
    /\ stamp2 \in [Reqs -> Nat]
    /\ result \in [Reqs -> {"none", "allowed", "denied"}]
    /\ zset \in SUBSET Reqs
    /\ expireAt \in Nat
    /\ sinceReset \in SUBSET Reqs

\* No two allowed requests wrote the same member.
DistinctMembers ==
    \A p, q \in sinceReset : p # q => Member(p) # Member(q)

\* Whatever the order in which the scripts, the prunes of get_remaining and the
\* expiry run, and however old the `now' each carries: if members are distinct,
\* then of the requests that arrived in the last Window ticks at most Limit
\* have been allowed.
RecentBound ==
    DistinctMembers => Cardinality({q \in sinceReset : stamp[q] + Window > clock}) <= Limit

\* A request is only denied when Limit requests that were let through are
\* inside its window: denied and failed requests never count against it.
DeniedForCause ==
    \A r \in Reqs : result[r] = "denied" =>
        Limit <= Cardinality({q \in Reqs : result[q] = "allowed" /\ stamp[q] + Window > stamp[r]})
=============================================================================
