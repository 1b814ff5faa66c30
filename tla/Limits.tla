------------------------------- MODULE Limits -------------------------------
(***************************************************************************)
(* The rate limiter, the result cache and the Redis client they share       *)
(* (core/cache.py).  Redis counts in fixed windows for every process; when  *)
(* it cannot be asked, each process counts for itself in a sliding window.  *)
(*                                                                         *)
(* One key of each.  Time is counted in half seconds, so that a waiting     *)
(* time that is cut to whole seconds shows.                                 *)
(***************************************************************************)
EXTENDS Naturals, FiniteSets

CONSTANTS
  Process,    \* processes that answer requests
  Thread,     \* threads of one process that ask for the client first
  Limit,      \* calls per window
  Window,     \* in half seconds
  Ttl,        \* cache_ttl_seconds, in half seconds
  LMHorizon,  \* bound of the model: half seconds
  LMCalls,    \* bound of the model: calls of the limiter, writes to the cache
  LMRestarts  \* bound of the model: restarts of Redis

ASSUME LimitsAssumption ==
  /\ {Limit, Window, Ttl} \subseteq Nat \ {0} /\ Window % 2 = 0 /\ {LMHorizon, LMCalls, LMRestarts} \subseteq Nat
  /\ Process # {} /\ IsFiniteSet(Process) /\ {"redis", "nobody"} \intersect Process = {} /\ Thread # {}

VARIABLES
  boot,     \* get_redis: the flag, the client, the lock, and where each thread is
  redis,    \* the counter with its expiry, and the cached value with its expiry
  hits,     \* RateLimiter._hits: of each process, the calls with their times
  store,    \* TTLCache._store is only used without Redis: of each process
  clock, lmcalls,
  outage,   \* history: whether a call of Redis has failed, and its restarts
  passed,   \* history: the calls that were let through, with the time of each
  refused   \* history: the last refusal, unless something happened since

lmVars == <<boot, redis, hits, store, clock, lmcalls, outage, passed, refused>>

Nothing == [at |-> 0, until |-> 0]
NoRefusal == [by |-> "nobody", at |-> 0, wait |-> 0]

LMInit ==
  /\ boot = [done |-> FALSE, client |-> FALSE, lock |-> "free",
             pc |-> [t \in Thread |-> "ask"], got |-> [t \in Thread |-> "nothing"]]
  /\ redis = [count |-> 0, until |-> 0, value |-> Nothing]
  /\ hits = [p \in Process |-> {}] /\ store = [p \in Process |-> Nothing]
  /\ clock = 0 /\ lmcalls = 0 /\ outage = [failed |-> FALSE, restarts |-> 0]
  /\ passed = {} /\ refused = NoRefusal

----------------------------------------------------------------------------
(* get_redis: the flag is looked at, then again under the lock.            *)

Went(t, pc, b) == [b EXCEPT !.pc[t] = pc]
Answer(b, t) == [Went(t, "done", b) EXCEPT !.got[t] = IF b.client THEN "client" ELSE "none"]

LookAtFlag(t) ==
  boot.pc[t] = "ask" /\ boot' = IF boot.done THEN Answer(boot, t) ELSE Went(t, "wait", boot)
TakeLock(t) ==
  /\ boot.pc[t] = "wait" /\ boot.lock = "free"
  /\ boot' = [Went(t, IF boot.done THEN "leave" ELSE "make", boot) EXCEPT !.lock = "taken"]
MakeClient(t) ==
  boot.pc[t] = "make" /\ boot' = [Went(t, "flag", boot) EXCEPT !.client = TRUE]
SetFlag(t) ==
  boot.pc[t] = "flag" /\ boot' = [Went(t, "leave", boot) EXCEPT !.done = TRUE]
LeaveLock(t) ==
  boot.pc[t] = "leave" /\ boot' = [Answer(boot, t) EXCEPT !.lock = "free"]

GetRedis ==
  /\ \E t \in Thread : LookAtFlag(t) \/ TakeLock(t) \/ MakeClient(t) \/ SetFlag(t) \/ LeaveLock(t)
  /\ UNCHANGED <<redis, hits, store, clock, outage, lmcalls, passed, refused>>

\* What follows does not touch the client any more.
Ready == \A t \in Thread : boot.pc[t] = "done"

----------------------------------------------------------------------------
(* RateLimiter.check                                                       *)

Count == IF clock < redis.until THEN redis.count ELSE 0
\* Wrong: the hits of windows that are over count too.
RecentAll(p) == hits[p]
Recent(p) == {c \in hits[p] : clock - c.at < Window}

\* The script: INCR, and EXPIRE with the first
Incr == [redis EXCEPT !.count = Count + 1, !.until = IF Count = 0 THEN clock + Window ELSE @]

\* The reply of TTL is rounded to whole seconds.
RedisWait == LET left == (redis'.until - clock + 1) \div 2 IN IF left > 0 THEN left ELSE Window \div 2
LocalWait(oldest) == (Window - (clock - oldest.at)) \div 2

Called == Ready /\ lmcalls < LMCalls /\ lmcalls' = lmcalls + 1
ThisCall == [no |-> lmcalls, at |-> clock]
LetThrough == passed' = passed \union {ThisCall} /\ refused' = NoRefusal
Refuse(by, wait) == refused' = [by |-> by, at |-> clock, wait |-> wait] /\ UNCHANGED passed

CheckRedis ==
  /\ Called /\ redis' = Incr
  /\ IF Incr.count <= Limit THEN LetThrough ELSE Refuse("redis", RedisWait)
  /\ UNCHANGED <<boot, hits, store, clock, outage>>

\* Redis raises, before the script has run or after (a lost reply, or TTL fails).
CheckLocally(p) ==
  /\ Called /\ outage' = [outage EXCEPT !.failed = TRUE]
  /\ redis' \in {redis, Incr}
  /\ IF Cardinality(Recent(p)) < Limit
       THEN hits' = [hits EXCEPT ![p] = Recent(p) \union {ThisCall}] /\ LetThrough
       ELSE /\ hits' = [hits EXCEPT ![p] = Recent(p)]
            /\ \E oldest \in Recent(p) : /\ \A c \in Recent(p) : oldest.at <= c.at
                                        /\ Refuse(p, LocalWait(oldest))
  /\ UNCHANGED <<boot, store, clock>>

----------------------------------------------------------------------------
(* TTLCache: a value stands for the time it was computed at.               *)

Valid == IF clock < redis.value.until THEN redis.value ELSE Nothing

\* A write that fails is skipped: the value before it stays.
SetShared ==
  /\ Called /\ redis' = [redis EXCEPT !.value = [at |-> clock, until |-> clock + Ttl]]
  /\ refused' = NoRefusal
  /\ UNCHANGED <<boot, hits, store, clock, outage, passed>>

\* Without REDIS_URL
SetLocal(p) ==
  /\ Called /\ store' = [store EXCEPT ![p] = [at |-> clock, until |-> clock + Ttl]]
  /\ refused' = NoRefusal
  /\ UNCHANGED <<boot, redis, hits, clock, outage, passed>>

\* get: the entry may be used up to the instant it expires, and is dropped after it
Local(p) == IF clock > store[p].until THEN Nothing ELSE store[p]
DropLocal(p) ==
  /\ Ready /\ store[p] # Nothing /\ clock > store[p].until
  /\ store' = [store EXCEPT ![p] = Nothing]
  /\ UNCHANGED <<boot, redis, hits, clock, outage, lmcalls, passed, refused>>

----------------------------------------------------------------------------

LMTick ==
  /\ Ready /\ clock < LMHorizon /\ clock' = clock + 1
  /\ UNCHANGED <<boot, redis, hits, store, outage, lmcalls, passed, refused>>

\* Redis starts anew without its keys.
RedisRestarts ==
  /\ Ready /\ outage.restarts < LMRestarts /\ outage' = [outage EXCEPT !.restarts = @ + 1]
  /\ redis' = [count |-> 0, until |-> 0, value |-> Nothing] /\ refused' = NoRefusal
  /\ UNCHANGED <<boot, hits, store, clock, lmcalls, passed>>

LMNext ==
  \/ GetRedis \/ CheckRedis \/ SetShared \/ LMTick \/ RedisRestarts
  \/ \E p \in Process : CheckLocally(p) \/ SetLocal(p) \/ DropLocal(p)

LMSpec == LMInit /\ [][LMNext]_lmVars

----------------------------------------------------------------------------

(***************************************************************************)
(* Failing open has a bound: in any stretch of one window fewer calls get   *)
(* through than two windows of Redis allow (one of them began earlier), and *)
(* a window more for each restart of Redis and, once it has failed, for     *)
(* each process (core/cache.py:122-128).                                    *)
(***************************************************************************)
LimitHeld ==
  LET late == {c \in passed : clock - c.at < Window}
      extra == outage.restarts + IF outage.failed THEN Cardinality(Process) ELSE 0 IN
  Cardinality(late) < Limit * (2 + extra)

(***************************************************************************)
(* A refusal ends: who waits as long as it was told, and a second more      *)
(* because the local waiting time is cut to whole seconds, is let in if     *)
(* nobody else has called.                                                  *)
(***************************************************************************)
RefusalEnds ==
  refused.by # "nobody" /\ clock >= refused.at + 2 * (refused.wait + 1) =>
    IF refused.by = "redis" THEN Count < Limit ELSE Cardinality(Recent(refused.by)) < Limit

\* What the cache returns was computed no longer ago than its time to live.
CacheFresh ==
  /\ Valid # Nothing => clock - Valid.at < Ttl
  /\ \A p \in Process : Local(p) # Nothing => clock - Local(p).at <= Ttl

\* Every thread gets the client, also the one that asks while it is being made ("a concurrent
\* first call waits for the client", core/cache.py:34-37).
ClientSeen == \A t \in Thread : boot.got[t] # "none"

\* Limits hold, refusals end, and nothing stale is served (core/cache.py).
LimitsSound == LimitHeld /\ RefusalEnds /\ CacheFresh /\ ClientSeen
=============================================================================
