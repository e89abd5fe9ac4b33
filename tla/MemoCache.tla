------------------------------ MODULE MemoCache ------------------------------
(***************************************************************************)
(* The memo of model answers: RedisMemoCache with its local SQLite file    *)
(* and circuit breaker (cache.py), the lookup and the write around a model *)
(* call (MemoizedProvider.complete), and what clear_history() does to both *)
(* after its transaction (clear.py).                                       *)
(*                                                                         *)
(* An answer is identified by its key: the generation in whose scope it    *)
(* was asked for, and the request.  The clock ticks Second times a second, *)
(* and goes on while a lookup or a write is under way: such a step looks   *)
(* at the clock once, at its start, and judges what it finds by that time, *)
(* while Redis counts a time to live from when it executes the command.    *)
(***************************************************************************)
EXTENDS Integers, FiniteSets

CONSTANTS
    Ops,            \* concurrent model calls
    Requests,       \* what they ask
    Second,         \* ticks of a second, the unit of a time to live
    Lifetime,       \* memo_lifetime_s, in ticks like all that follows
    Overhead,       \* the longest a lookup or a write is under way, and with it
                    \* its commands: cache_overhead_budget_ms
    Threshold,      \* redis_circuit_breaker_failures
    Probe,          \* redis_circuit_breaker_probe_s
    MaxGeneration,  \* bound on clears
    MaxTime,        \* bound on the clock
    Nothing         \* no entry, no time

ASSUME MemoAssumption ==
    /\ IsFiniteSet(Ops)
    /\ Second \in Nat \ {0}
    /\ Lifetime \in Nat \ {0}
    /\ Overhead \in Nat
    /\ Threshold \in Nat \ {0}
    /\ Probe \in Nat \ {0}
    /\ MaxGeneration \in Nat
    /\ MaxTime \in Nat
    /\ Nothing \notin Nat

Generations == 0..MaxGeneration
Keys == Generations \X Requests

VARIABLES
    now,
    generation, \* store_meta.cache_generation
    redis,      \* key -> entry
    memo,       \* the local file: key -> absolute_expiry
    failures,   \* _consecutive_failures
    openUntil,  \* _circuit_open_until
    pc,         \* where each call is
    key,        \* the key of each call
    began,      \* what the clock said when its lookup or write began
    value,      \* the expiry of the record it has read and writes back to Redis
    clearing,   \* the clear's step after its commit
    retiring,   \* the generation it purges
    todo,       \* the keys its SCAN has still to return
    purged,     \* generations whose purge was reported complete
    pending,    \* pending_cache_purges
    refused     \* history: commands of calls that failed since the breaker opened

vars == <<now, generation, redis, memo, failures, openUntil, pc, key, began,
          value, clearing, retiring, todo, purged, pending, refused>>

breaker == <<failures, openUntil, refused>>
clear == <<generation, clearing, retiring, todo, purged, pending>>
calls == <<pc, key, began, value>>

(* Of an entry in Redis, own: the digests in the record are those of its   *)
(* key.  until: when Redis drops it.  stray: it was written when its       *)
(* generation was retired.                                                 *)
MemoInit ==
    /\ now = 0
    /\ generation = 0
    /\ redis = [k \in Keys |-> Nothing]
    /\ memo = [k \in Keys |-> Nothing]
    /\ failures = 0
    /\ openUntil = Nothing
    /\ pc = [o \in Ops |-> "idle"]
    /\ key = [o \in Ops |-> Nothing]
    /\ began = [o \in Ops |-> Nothing]
    /\ clearing = "none"
    /\ retiring = 0
    /\ todo = {}
    /\ purged = {}
    /\ pending = {}
    /\ value = [o \in Ops |-> Nothing]
    /\ refused = 0

-----------------------------------------------------------------------------
(* The circuit breaker *)

Available == openUntil # Nothing => now >= openUntil

NoteSuccess ==
    /\ failures' = 0
    /\ openUntil' = Nothing
    /\ refused' = 0

(* The consecutive failures are counted no further than the threshold.    *)
Trip ==
    /\ failures' = IF failures < Threshold THEN failures + 1 ELSE failures
    /\ openUntil' = IF failures + 1 >= Threshold THEN now + Probe ELSE openUntil

NoteFailure ==
    /\ Trip
    /\ refused' = IF Available THEN 0 ELSE refused + 1

-----------------------------------------------------------------------------
(* Lookup *)

(* The scope is taken from the store, the lookup may come later.           *)
Ask(o, r) ==
    /\ pc[o] = "idle"
    /\ key' = [key EXCEPT ![o] = <<generation, r>>]
    /\ pc' = [pc EXCEPT ![o] = "asked"]
    /\ UNCHANGED <<now, redis, memo, breaker, began, value, clear>>

(* complete() takes the time for the lookup or the write it begins.        *)
Begin(o, place) ==
    /\ pc' = [pc EXCEPT ![o] = place]
    /\ began' = [began EXCEPT ![o] = now]
    /\ UNCHANGED <<key, value>>

Lookup(o) ==
    /\ pc[o] = "asked"
    /\ Begin(o, IF Available THEN "get" ELSE "local get")
    /\ UNCHANGED <<now, redis, memo, breaker, clear>>

Fresh(o, expiry) == expiry # Nothing /\ expiry > began[o]

CacheSteps == {"get", "local get", "refill", "local set", "set"}

Go(o, place, expiry) ==
    /\ pc' = [pc EXCEPT ![o] = place]
    /\ value' = [value EXCEPT ![o] = expiry]
    /\ began' = [began EXCEPT ![o] = IF place \in CacheSteps THEN @ ELSE Nothing]
    /\ key' = [key EXCEPT ![o] = IF place = "idle" THEN Nothing ELSE @]

Done(o) == Go(o, "idle", Nothing)

Miss(o) == Go(o, "calling", Nothing)

(* complete() compares the digests in the record with those of the key.    *)
Serve(o, own) == IF own THEN Done(o) ELSE Miss(o)

(* GET answers: an expired record is a miss without a look at the file.    *)
RedisAnswers(o) ==
    /\ pc[o] = "get"
    /\ NoteSuccess
    /\ LET e == redis[key[o]]
       IN  CASE e = Nothing      -> Go(o, "local get", Nothing)
             [] e # Nothing /\ Fresh(o, e.expiry) -> Serve(o, e.own)
             [] OTHER            -> Miss(o)
    /\ UNCHANGED <<now, redis, memo, clear>>

RedisFails(o) ==
    /\ pc[o] = "get"
    /\ NoteFailure
    /\ Go(o, "local get", Nothing)
    /\ UNCHANGED <<now, redis, memo, clear>>

(* Variant: whether Redis is available is not asked again. *)
LocalAnswersRefilling(o) ==
    /\ pc[o] = "local get"
    /\ IF Fresh(o, memo[key[o]]) THEN Go(o, "refill", memo[key[o]]) ELSE Miss(o)
    /\ UNCHANGED <<now, redis, memo, breaker, clear>>

(* A hit in the file refills Redis if that is available now.               *)
LocalAnswers(o) ==
    /\ pc[o] = "local get"
    /\ LET expiry == memo[key[o]]
       IN  CASE Fresh(o, expiry) /\ Available  -> Go(o, "refill", expiry)
             [] Fresh(o, expiry) /\ ~Available -> Serve(o, TRUE)
             [] ~Fresh(o, expiry)              -> Miss(o)
    /\ UNCHANGED <<now, redis, memo, breaker, clear>>

Put(k, expiry, until) ==
    [redis EXCEPT ![k] = [own |-> TRUE, expiry |-> expiry, until |-> until,
                          stray |-> k[1] < generation]]

(* max(1, int(.)): whole seconds, and one at least. *)
TimeToLive(ticks) == IF ticks < Second THEN Second ELSE ticks - (ticks % Second)

(* Variant: a refill is a write like any other. *)
RefilledAnew(o) == Put(key[o], value[o], now + TimeToLive(Lifetime))

(* Redis gives a refilled record, from now on, what remained of its        *)
(* lifetime when the lookup began.                                         *)
Refilled(o) == Put(key[o], value[o], now + TimeToLive(value[o] - began[o]))

(* The command may have taken effect though its answer is lost.            *)
Refill(o) ==
    /\ pc[o] = "refill"
    /\ Serve(o, TRUE)
    /\ \/ NoteSuccess /\ redis' = Refilled(o)
       \/ NoteFailure /\ redis' \in {redis, Refilled(o)}
    /\ UNCHANGED <<now, memo, clear>>

-----------------------------------------------------------------------------
(* The model call and the write *)

ModelAnswers(o) ==
    /\ pc[o] = "calling"
    /\ Begin(o, "local set")
    /\ UNCHANGED <<now, redis, memo, breaker, clear>>

ModelFails(o) ==
    /\ pc[o] = "calling"
    /\ Done(o)
    /\ UNCHANGED <<now, redis, memo, breaker, clear>>

(* The file first, then Redis if that is available.  The thread that       *)
(* writes the file goes on when its caller has given up, and then the      *)
(* record gets no further than the file.                                   *)
LocalSet(o) ==
    /\ pc[o] = "local set"
    /\ memo' = [memo EXCEPT ![key[o]] = began[o] + Lifetime]
    /\ \/ Go(o, IF Available THEN "set" ELSE "idle", Nothing)
       \/ Done(o)
    /\ UNCHANGED <<now, redis, breaker, clear>>

(* The lifetime of a record begins with its write; the time Redis gives it *)
(* begins when the file has been written.                                  *)
Written(o) == Put(key[o], began[o] + Lifetime, now + TimeToLive(Lifetime))

RedisSet(o) ==
    /\ pc[o] = "set"
    /\ Done(o)
    /\ \/ NoteSuccess /\ redis' = Written(o)
       \/ NoteFailure /\ redis' \in {redis, Written(o)}
    /\ UNCHANGED <<now, memo, clear>>

(* The overhead budget is spent, or the file cannot be read or written: a  *)
(* lookup counts as a miss, a write as done.  A command that was sent may  *)
(* take effect, and the breaker hears nothing of it.                       *)
Cut(o) ==
    /\ \/ pc[o] \in {"get", "local get"} /\ Miss(o) /\ UNCHANGED redis
       \/ pc[o] = "refill" /\ Miss(o) /\ redis' \in {redis, Refilled(o)}
       \/ pc[o] = "local set" /\ Done(o) /\ UNCHANGED redis
       \/ pc[o] = "set" /\ Done(o) /\ redis' \in {redis, Written(o)}
    /\ UNCHANGED <<now, memo, breaker, clear>>

-----------------------------------------------------------------------------
(* clear_history(), from its COMMIT on *)

ClearCommits ==
    /\ clearing = "none"
    /\ generation < MaxGeneration
    /\ generation' = generation + 1
    /\ retiring' = generation
    /\ clearing' = "wipe"
    /\ UNCHANGED <<now, redis, memo, breaker, calls, todo, purged, pending>>

InRedis(g) == {k \in Keys : k[1] = g /\ redis[k] # Nothing}

(* What SCAN must return: the keys of the prefix that are there all along. *)
RetiredKeys == InRedis(retiring)

Wipe ==
    /\ clearing = "wipe"
    /\ memo' = [k \in Keys |-> Nothing]
    /\ clearing' = "purge"
    /\ todo' = RetiredKeys
    /\ UNCHANGED <<now, generation, redis, breaker, calls, retiring, purged, pending>>

(* Its exception goes to the caller, and the purge is not even tried.      *)
WipeFails ==
    /\ clearing = "wipe"
    /\ clearing' = "none"
    /\ UNCHANGED <<now, generation, redis, memo, breaker, calls, retiring, todo,
                   purged, pending>>

(* One SCAN and the DEL of what it returns, which may be any of the keys.  *)
PurgeBatch ==
    /\ clearing = "purge"
    /\ \E batch \in SUBSET InRedis(retiring) :
        /\ redis' = [k \in Keys |-> IF k \in batch THEN Nothing ELSE redis[k]]
        /\ todo' = todo \ batch
    /\ UNCHANGED <<now, generation, memo, breaker, calls, clearing, retiring,
                   purged, pending>>

(* Variant: one batch is taken for all. *)
PurgedAfterOne ==
    /\ clearing = "purge"
    /\ clearing' = "none"
    /\ purged' = purged \cup {retiring}
    /\ UNCHANGED <<now, generation, redis, memo, breaker, calls, retiring, todo, pending>>

(* The cursor is back at 0: every key that was there has been returned.    *)
Purged ==
    /\ clearing = "purge"
    /\ {k \in todo : redis[k] # Nothing} = {}
    /\ clearing' = "none"
    /\ purged' = purged \cup {retiring}
    /\ UNCHANGED <<now, generation, redis, memo, breaker, calls, retiring, todo, pending>>

(* A failure or the purge's own timeout leaves the scope as pending, and   *)
(* the breaker hears of a failure only; no part of this program looks at   *)
(* pending scopes again.                                                   *)
PurgeFails ==
    /\ clearing = "purge"
    /\ clearing' = "none"
    /\ pending' = pending \cup {retiring}
    /\ \/ Trip /\ refused' = IF Available THEN 0 ELSE refused
       \/ UNCHANGED breaker
    /\ UNCHANGED <<now, generation, redis, memo, calls, retiring, todo, purged>>

-----------------------------------------------------------------------------
(* Around it *)

(* Time passes, but not for longer than the overhead budget while a lookup *)
(* or a write is under way.  Redis drops what is over time.                *)
Tick ==
    /\ now < MaxTime
    /\ \A o \in Ops : pc[o] \in CacheSteps => now < began[o] + Overhead
    /\ now' = now + 1
    /\ redis' = [k \in Keys |-> IF redis[k] # Nothing /\ redis[k].until <= now + 1
                                 THEN Nothing ELSE redis[k]]
    /\ UNCHANGED <<memo, breaker, calls, clear>>

(* Redis may lose any entry. *)
Evict(k) ==
    /\ redis[k] # Nothing
    /\ redis' = [redis EXCEPT ![k] = Nothing]
    /\ UNCHANGED <<now, memo, breaker, calls, clear>>

(* A record is overwritten by one of another scope, with a later expiry.   *)
Corrupt(k) ==
    /\ redis[k] # Nothing
    /\ redis' = [redis EXCEPT ![k].own = FALSE]
    /\ UNCHANGED <<now, memo, breaker, calls, clear>>

(* The process ends and the store is opened again. *)
Crash ==
    /\ \E o \in Ops : pc[o] # "idle"
    /\ pc' = [o \in Ops |-> "idle"]
    /\ key' = [o \in Ops |-> Nothing]
    /\ began' = [o \in Ops |-> Nothing]
    /\ value' = [o \in Ops |-> Nothing]
    /\ clearing' = "none"
    /\ failures' = 0
    /\ openUntil' = Nothing
    /\ refused' = 0
    /\ UNCHANGED <<now, generation, redis, memo, retiring, todo, purged, pending>>

CallStep(o) ==
    \/ \E r \in Requests : Ask(o, r)
    \/ Lookup(o)
    \/ RedisAnswers(o)
    \/ RedisFails(o)
    \/ LocalAnswers(o)
    \/ Refill(o)
    \/ ModelAnswers(o)
    \/ ModelFails(o)
    \/ LocalSet(o)
    \/ RedisSet(o)
    \/ Cut(o)

ClearStep ==
    \/ ClearCommits
    \/ Wipe
    \/ WipeFails
    \/ PurgeBatch
    \/ Purged
    \/ PurgeFails

Next ==
    \/ \E o \in Ops : CallStep(o)
    \/ ClearStep
    \/ Tick
    \/ \E k \in Keys : Evict(k) \/ Corrupt(k)
    \/ Crash

Spec == MemoInit /\ [][Next]_vars

-----------------------------------------------------------------------------
(* Properties *)

(* However often an answer is lost and refilled from the file, Redis keeps *)
(* it for less than a second and the overhead budget beyond its lifetime:  *)
(* what refills add to it never adds up.   cache.py: "never a fresh        *)
(* full-lifetime write".                                                   *)
LifetimeKept ==
    \A k \in Keys : redis[k] # Nothing =>
                        redis[k].until < redis[k].expiry + Second + Overhead

(* A purge that was reported complete is: of the retired generation Redis  *)
(* has only what calls wrote that were under way when it was retired.      *)
PurgeTruthful ==
    \A k \in Keys : k[1] \in purged /\ redis[k] # Nothing => redis[k].stray

(* The breaker shields: once it has opened, only the commands that were on *)
(* their way fail before the probe time, one for each call.                *)
BreakerShields == refused <= Cardinality(Ops)

=============================================================================
