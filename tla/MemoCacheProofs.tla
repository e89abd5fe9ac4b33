--------------------------- MODULE MemoCacheProofs ---------------------------
(***************************************************************************)
(* Proofs about the memo cache: the lifetime of what Redis has, the purge  *)
(* of a retired generation and the circuit breaker, for any number of      *)
(* calls, requests, clears and ticks of the clock.                         *)
(***************************************************************************)
EXTENDS MemoCache, TLAPS, FiniteSetTheorems

-----------------------------------------------------------------------------
(* The inductive invariant *)

Entry == [own : BOOLEAN, expiry : Nat, until : Nat, stray : BOOLEAN]

(* Places from which a command to Redis may come back. *)
Commanding == {"get", "refill", "set"}
Places == {"idle", "asked", "local get", "calling", "local set"} \cup Commanding

(* What is under way knows its key and when it began, which is not longer  *)
(* ago than the overhead budget, and writes back what had not expired then. *)
CallsInv ==
    /\ now \in Nat
    /\ memo \in [Keys -> Nat \cup {Nothing}]
    /\ pc \in [Ops -> Places]
    /\ key \in [Ops -> Keys \cup {Nothing}]
    /\ began \in [Ops -> Nat \cup {Nothing}]
    /\ value \in [Ops -> Nat \cup {Nothing}]
    /\ \A o \in Ops : pc[o] # "idle" => key[o] \in Keys
    /\ \A o \in Ops : pc[o] \in CacheSteps =>
           began[o] \in Nat /\ began[o] <= now /\ now <= began[o] + Overhead
    /\ \A o \in Ops : pc[o] = "refill" => value[o] \in Nat /\ value[o] > began[o]

(* A purge has still to return every entry that is no stray.               *)
PurgeInv ==
    /\ \A g \in purged : g \in Nat /\ g < generation
    /\ clearing # "none" => retiring \in Nat /\ retiring < generation
    /\ clearing = "purge" =>
         \A k \in Keys : k[1] = retiring /\ redis[k] # Nothing => redis[k].stray \/ k \in todo

CacheInv ==
    /\ generation \in Generations
    /\ redis \in [Keys -> Entry \cup {Nothing}]
    /\ clearing \in {"none", "wipe", "purge"}
    /\ LifetimeKept
    /\ PurgeInv
    /\ PurgeTruthful

Commands == {o \in Ops : pc[o] \in Commanding}

(* While the breaker is open no command starts: those that have failed and *)
(* those under way are at most one for each call.                          *)
BreakerInv ==
    /\ failures \in Nat
    /\ openUntil \in Nat \cup {Nothing}
    /\ refused \in Nat
    /\ refused <= Cardinality(Ops)
    /\ ~Available => refused + Cardinality(Commands) <= Cardinality(Ops)

IInv == CallsInv /\ CacheInv /\ BreakerInv

LEMMA InitInv == ASSUME MemoInit PROVE IInv
<1>1. CallsInv
    BY DEF MemoInit, CallsInv, Places, CacheSteps
<1>2. CacheInv
    BY MemoAssumption DEF MemoInit, CacheInv, LifetimeKept, PurgeInv, PurgeTruthful, Generations, MemoAssumption
<1>3. BreakerInv
    BY MemoAssumption, FS_CardinalityType DEF MemoInit, BreakerInv, Available, MemoAssumption
<1>4. QED
    BY <1>1, <1>2, <1>3 DEF IInv

-----------------------------------------------------------------------------
(* Redis and the purge *)

(* Whole seconds, and one at least: no more than what remained, or one.    *)
LEMMA TimeToLiveBounded ==
    ASSUME NEW ticks \in Nat
    PROVE  TimeToLive(ticks) \in Nat /\ (TimeToLive(ticks) <= ticks \/ TimeToLive(ticks) = Second)
<1>1. ticks % Second \in Nat /\ ticks % Second < Second
    BY MemoAssumption DEF MemoAssumption
<1> DEFINE rest == ticks % Second
<1>2. rest \in Nat /\ rest < Second /\ Second \in Nat
    BY <1>1, MemoAssumption DEF MemoAssumption
<1>3. TimeToLive(ticks) = IF ticks < Second THEN Second ELSE ticks - rest
    BY DEF TimeToLive
<1> HIDE DEF rest
<1>4. QED
    BY <1>2, <1>3

scope == <<generation, clearing, retiring, todo, purged>>

(* A write that outlasts its lifetime by less than a second and the        *)
(* overhead budget, of any generation, at any time.                        *)
LEMMA PutInv ==
    ASSUME CacheInv, NEW k \in Keys, NEW expiry \in Nat, NEW until \in Nat,
           until < expiry + Second + Overhead, redis' = Put(k, expiry, until), UNCHANGED scope
    PROVE  CacheInv'
<1>1. k[1] \in Nat /\ generation \in Nat
    BY DEF CacheInv, Keys, Generations
<1> DEFINE e == [own |-> TRUE, expiry |-> expiry, until |-> until, stray |-> k[1] < generation]
<1>2. e \in Entry /\ e.until < e.expiry + Second + Overhead /\ e.stray = (k[1] < generation)
    BY <1>1 DEF Entry
<1>3. redis' = [redis EXCEPT ![k] = e]
    BY DEF Put
<1> HIDE DEF e
<1>4. /\ redis' \in [Keys -> Entry \cup {Nothing}]
      /\ redis'[k] = e
      /\ \A x \in Keys \ {k} : redis'[x] = redis[x]
    BY <1>2, <1>3 DEF CacheInv
<1>5. LifetimeKept'
    BY <1>2, <1>4 DEF CacheInv, LifetimeKept
<1>6. PurgeInv'
    BY <1>2, <1>4 DEF CacheInv, PurgeInv, scope
<1>7. PurgeTruthful'
    BY <1>2, <1>4 DEF CacheInv, PurgeInv, PurgeTruthful, scope
<1>8. QED
    BY <1>4, <1>5, <1>6, <1>7 DEF CacheInv, scope

(* Entries that go away, and of which a purge need not know any more. *)
LEMMA LossInv ==
    ASSUME CacheInv, redis' \in [Keys -> Entry \cup {Nothing}],
           \A k \in Keys : redis'[k] \in {redis[k], Nothing},
           \A k \in todo \ todo' : k \in Keys => redis'[k] = Nothing,
           UNCHANGED <<generation, clearing, retiring, purged>>
    PROVE  CacheInv'
<1>1. LifetimeKept'
    BY DEF CacheInv, LifetimeKept
<1>2. PurgeInv'
    BY DEF CacheInv, PurgeInv
<1>3. PurgeTruthful'
    BY DEF CacheInv, PurgeTruthful
<1>4. QED
    BY <1>1, <1>2, <1>3 DEF CacheInv

LEMMA CacheStays == ASSUME CacheInv, UNCHANGED <<redis, scope>> PROVE CacheInv'
    BY LossInv DEF CacheInv, scope

(* The steps of a clear. *)
LEMMA ClearInv ==
    ASSUME CacheInv, ClearStep
    PROVE  CacheInv'
<1>1. CASE ClearCommits
    <2>1. generation' \in Generations /\ generation' = generation + 1 /\ generation \in Nat
        BY <1>1, MemoAssumption DEF ClearCommits, CacheInv, Generations, MemoAssumption
    <2>2. PurgeInv'
        BY <1>1, <2>1, MemoAssumption DEF ClearCommits, CacheInv, PurgeInv, MemoAssumption, Keys, Generations
    <2>3. QED
        BY <1>1, <2>1, <2>2 DEF ClearCommits, CacheInv, LifetimeKept, PurgeTruthful
<1>2. CASE Wipe
    <2>1. PurgeInv'
        BY <1>2 DEF Wipe, RetiredKeys, InRedis, CacheInv, PurgeInv
    <2>2. QED
        BY <1>2, <2>1 DEF Wipe, CacheInv, LifetimeKept, PurgeTruthful
<1>3. CASE WipeFails
    BY <1>3 DEF WipeFails, CacheInv, LifetimeKept, PurgeTruthful, PurgeInv
<1>4. CASE PurgeBatch
    <2>1. PICK batch \in SUBSET InRedis(retiring) :
              /\ redis' = [k \in Keys |-> IF k \in batch THEN Nothing ELSE redis[k]]
              /\ todo' = todo \ batch
        BY <1>4 DEF PurgeBatch
    <2>2. redis' \in [Keys -> Entry \cup {Nothing}]
        BY <2>1 DEF CacheInv
    <2>3. QED
        BY <1>4, <2>1, <2>2, LossInv DEF PurgeBatch
<1>5. CASE Purged
    <2>1. \A k \in Keys : k[1] = retiring /\ redis[k] # Nothing => redis[k].stray
        BY <1>5 DEF Purged, CacheInv, PurgeInv
    <2>2. QED
        BY <1>5, <2>1 DEF Purged, CacheInv, LifetimeKept, PurgeTruthful, PurgeInv
<1>6. CASE PurgeFails
    BY <1>6 DEF PurgeFails, CacheInv, LifetimeKept, PurgeTruthful, PurgeInv
<1>7. QED
    BY <1>1, <1>2, <1>3, <1>4, <1>5, <1>6 DEF ClearStep

-----------------------------------------------------------------------------
(* Model calls *)

LEMMA GoInv ==
    ASSUME CallsInv, NEW o \in Ops, NEW place \in Places, NEW expiry \in Nat \cup {Nothing},
           Go(o, place, expiry), pc[o] # "idle",
           place \in CacheSteps => pc[o] \in CacheSteps,
           place = "refill" => expiry \in Nat /\ expiry > began[o],
           now' = now, memo' \in [Keys -> Nat \cup {Nothing}]
    PROVE  CallsInv'
<1>1. /\ pc' \in [Ops -> Places] /\ pc'[o] = place /\ \A u \in Ops \ {o} : pc'[u] = pc[u]
      /\ value' \in [Ops -> Nat \cup {Nothing}] /\ value'[o] = expiry
      /\ \A u \in Ops \ {o} : value'[u] = value[u]
    BY DEF Go, CallsInv
<1>2. /\ key' \in [Ops -> Keys \cup {Nothing}]
      /\ place # "idle" => key'[o] = key[o]
      /\ \A u \in Ops \ {o} : key'[u] = key[u]
    BY DEF Go, CallsInv
<1>3. /\ began' \in [Ops -> Nat \cup {Nothing}]
      /\ place \in CacheSteps => began'[o] = began[o]
      /\ \A u \in Ops \ {o} : began'[u] = began[u]
    BY DEF Go, CallsInv
<1>4. "refill" \in CacheSteps
    BY DEF CacheSteps
<1>5. QED
    BY <1>1, <1>2, <1>3, <1>4 DEF CallsInv

LEMMA BudgetNotNegative == ASSUME NEW n \in Nat PROVE n <= n /\ n <= n + Overhead
    BY MemoAssumption DEF MemoAssumption

(* A lookup or a write begins now. *)
LEMMA BeginInv ==
    ASSUME CallsInv, NEW o \in Ops, NEW place \in {"get", "local get", "local set"},
           Begin(o, place), pc[o] # "idle", UNCHANGED <<now, memo>>
    PROVE  CallsInv'
<1>1. place \in Places /\ place # "refill"
    BY DEF Places, Commanding
<1>2. /\ pc' \in [Ops -> Places] /\ pc'[o] = place /\ \A u \in Ops \ {o} : pc'[u] = pc[u]
      /\ began' \in [Ops -> Nat \cup {Nothing}] /\ began'[o] = now
      /\ \A u \in Ops \ {o} : began'[u] = began[u]
    BY <1>1 DEF Begin, CallsInv
<1>3. now \in Nat
    BY DEF CallsInv
<1>4. now <= now /\ now <= now + Overhead
    BY <1>3, BudgetNotNegative
<1>5. UNCHANGED <<now, memo, key, value>>
    BY DEF Begin
<1>6. \A u \in Ops : pc'[u] \in CacheSteps =>
          began'[u] \in Nat /\ began'[u] <= now' /\ now' <= began'[u] + Overhead
    <2>1. ASSUME NEW u \in Ops \ {o}, pc'[u] \in CacheSteps
          PROVE  began'[u] \in Nat /\ began'[u] <= now' /\ now' <= began'[u] + Overhead
        BY <1>2, <1>5, <2>1 DEF CallsInv
    <2>2. began'[o] \in Nat /\ began'[o] <= now' /\ now' <= began'[o] + Overhead
        BY <1>2, <1>3, <1>4, <1>5, Zenon
    <2>3. QED
        BY <2>1, <2>2
<1>7. QED
    BY <1>1, <1>2, <1>3, <1>5, <1>6 DEF CallsInv

LEMMA DoneInv ==
    ASSUME CallsInv, NEW o \in Ops, Done(o), pc[o] # "idle",
           now' = now, memo' \in [Keys -> Nat \cup {Nothing}]
    PROVE  CallsInv'
    BY GoInv DEF Done, Places, CacheSteps

LEMMA MissInv ==
    ASSUME CallsInv, NEW o \in Ops, Miss(o), pc[o] # "idle", UNCHANGED <<now, memo>>
    PROVE  CallsInv'
    BY GoInv DEF Miss, Places, CallsInv, CacheSteps

(* No step of a call keeps one of another from knowing what it does. *)
LEMMA CallStepCalls ==
    ASSUME IInv, NEW o \in Ops, CallStep(o)
    PROVE  CallsInv'
<1>1. CallsInv /\ generation \in Generations
    BY DEF IInv, CacheInv
<1>2. ASSUME NEW r \in Requests, Ask(o, r) PROVE CallsInv'
    <2>1. <<generation, r>> \in Keys
        BY <1>1 DEF Keys
    <2>2. QED
        BY <1>1, <1>2, <2>1 DEF Ask, CallsInv, Places, CacheSteps
<1>3. CASE Lookup(o)
    BY <1>1, <1>3, BeginInv DEF Lookup
<1>4. CASE RedisAnswers(o)
    <2>1. Go(o, "local get", Nothing) \/ Done(o) \/ Miss(o)
        BY <1>4 DEF RedisAnswers, Serve
    <2>2. QED
        BY <1>1, <1>4, <2>1, GoInv, DoneInv, MissInv DEF RedisAnswers, Places, CallsInv, CacheSteps
<1>5. CASE RedisFails(o)
    BY <1>1, <1>5, GoInv DEF RedisFails, Places, CallsInv, CacheSteps
<1>6. CASE LocalAnswers(o)
    <2>1. pc[o] # "idle" /\ pc[o] \in CacheSteps /\ UNCHANGED <<now, memo>>
        BY <1>6 DEF LocalAnswers, CacheSteps
    <2>2. key[o] \in Keys /\ memo[key[o]] \in Nat \cup {Nothing}
        BY <1>1, <2>1 DEF CallsInv
    <2>3. \/ Go(o, "refill", memo[key[o]]) /\ memo[key[o]] # Nothing /\ memo[key[o]] > began[o]
          \/ Done(o)
          \/ Miss(o)
        BY <1>6 DEF LocalAnswers, Fresh, Serve
    <2>4. "refill" \in Places
        BY DEF Places, Commanding
    <2>5. QED
        BY <1>1, <2>1, <2>2, <2>3, <2>4, GoInv, DoneInv, MissInv DEF CallsInv
<1>7. CASE Refill(o)
    BY <1>1, <1>7, DoneInv DEF Refill, Serve, CallsInv
<1>8. CASE ModelAnswers(o)
    BY <1>1, <1>8, BeginInv DEF ModelAnswers
<1>9. CASE ModelFails(o)
    BY <1>1, <1>9, DoneInv DEF ModelFails, CallsInv
<1>10. CASE LocalSet(o)
    <2>1. pc[o] # "idle" /\ pc[o] \in CacheSteps /\ now' = now
        BY <1>10 DEF LocalSet, CacheSteps
    <2>2. memo' \in [Keys -> Nat \cup {Nothing}]
        <3>1. began[o] + Lifetime \in Nat
            BY <1>1, <1>10, <2>1, MemoAssumption DEF CallsInv, MemoAssumption
        <3>2. QED
            BY <1>1, <1>10, <3>1 DEF LocalSet, CallsInv
    <2>3. Go(o, "set", Nothing) \/ Go(o, "idle", Nothing)
        BY <1>10 DEF LocalSet, Done
    <2>4. QED
        BY <1>1, <2>1, <2>2, <2>3, GoInv DEF Places, Commanding
<1>11. CASE RedisSet(o)
    BY <1>1, <1>11, DoneInv DEF RedisSet, CallsInv
<1>12. CASE Cut(o)
    BY <1>1, <1>12, DoneInv, MissInv DEF Cut, CallsInv
<1>13. QED
    BY <1>2, <1>3, <1>4, <1>5, <1>6, <1>7, <1>8, <1>9, <1>10, <1>11, <1>12 DEF CallStep

(* What a call writes keeps to its lifetime. *)
LEMMA CallStepCache ==
    ASSUME IInv, NEW o \in Ops, CallStep(o)
    PROVE  CacheInv'
<1>1. UNCHANGED scope
    BY DEF CallStep, Ask, Lookup, RedisAnswers, RedisFails, LocalAnswers, Refill, ModelAnswers,
           ModelFails, LocalSet, RedisSet, Cut, clear, scope
<1>2. CASE UNCHANGED redis
    BY <1>1, <1>2, CacheStays DEF IInv
<1>3. CASE pc[o] = "refill" /\ redis' = Refilled(o)
    <2>1. /\ key[o] \in Keys /\ value[o] \in Nat /\ now \in Nat /\ began[o] \in Nat
          /\ value[o] > began[o] /\ now <= began[o] + Overhead
        BY <1>3 DEF IInv, CallsInv, CacheSteps
    <2> DEFINE ttl == TimeToLive(value[o] - began[o])
    <2>2. ttl \in Nat /\ (ttl <= value[o] - began[o] \/ ttl = Second)
        BY <2>1, TimeToLiveBounded
    <2>3. redis' = Put(key[o], value[o], now + ttl)
        BY <1>3 DEF Refilled
    <2> HIDE DEF ttl
    <2>4. now + ttl \in Nat /\ now + ttl < value[o] + Second + Overhead
        BY <2>1, <2>2, MemoAssumption DEF MemoAssumption
    <2>5. QED
        BY <1>1, <2>1, <2>3, <2>4, PutInv DEF IInv
<1>4. CASE pc[o] = "set" /\ redis' = Written(o)
    <2>1. key[o] \in Keys /\ now \in Nat /\ began[o] \in Nat /\ now <= began[o] + Overhead
        BY <1>4 DEF IInv, CallsInv, CacheSteps
    <2> DEFINE ttl == TimeToLive(Lifetime)
    <2>2. ttl \in Nat /\ (ttl <= Lifetime \/ ttl = Second)
        BY TimeToLiveBounded, MemoAssumption DEF MemoAssumption
    <2>3. redis' = Put(key[o], began[o] + Lifetime, now + ttl)
        BY <1>4 DEF Written
    <2> HIDE DEF ttl
    <2>4. /\ began[o] + Lifetime \in Nat
          /\ now + ttl \in Nat /\ now + ttl < (began[o] + Lifetime) + Second + Overhead
        BY <2>1, <2>2, MemoAssumption DEF MemoAssumption
    <2>5. QED
        BY <1>1, <2>1, <2>3, <2>4, PutInv DEF IInv
<1>5. UNCHANGED redis \/ (pc[o] = "refill" /\ redis' = Refilled(o)) \/ (pc[o] = "set" /\ redis' = Written(o))
    BY DEF CallStep, Ask, Lookup, RedisAnswers, RedisFails, LocalAnswers, Refill, ModelAnswers,
           ModelFails, LocalSet, RedisSet, Cut
<1>6. QED
    BY <1>2, <1>3, <1>4, <1>5

-----------------------------------------------------------------------------
(* The circuit breaker *)

LEMMA OpsCount == IsFiniteSet(Ops) /\ Cardinality(Ops) \in Nat
    BY MemoAssumption, FS_CardinalityType DEF MemoAssumption

LEMMA CommandsCount ==
    /\ IsFiniteSet(Commands)
    /\ Cardinality(Commands) \in Nat
    /\ Cardinality(Commands) <= Cardinality(Ops)
    BY OpsCount, FS_Subset, FS_CardinalityType DEF Commands

(* As the commands under way become fewer, or Redis is available anyway.   *)
LEMMA BreakerStays ==
    ASSUME BreakerInv, UNCHANGED breaker, UNCHANGED now, Available \/ Commands' \subseteq Commands
    PROVE  BreakerInv'
<1>1. Available' = Available
    BY DEF Available, breaker
<1>2. CASE Available
    BY <1>1, <1>2 DEF BreakerInv, breaker
<1>3. CASE Commands' \subseteq Commands /\ ~Available
    <2>1. Cardinality(Commands') \in Nat /\ Cardinality(Commands') <= Cardinality(Commands)
        BY <1>3, CommandsCount, FS_Subset, FS_CardinalityType
    <2>2. refused + Cardinality(Commands) <= Cardinality(Ops) /\ refused \in Nat
        BY <1>3 DEF BreakerInv
    <2>3. refused + Cardinality(Commands') <= Cardinality(Ops)
        BY <2>1, <2>2, CommandsCount, OpsCount
    <2>4. QED
        BY <1>1, <2>3 DEF BreakerInv, breaker
<1>4. QED
    BY <1>2, <1>3

LEMMA SuccessInv == ASSUME NoteSuccess PROVE BreakerInv'
    BY OpsCount DEF NoteSuccess, BreakerInv, Available

LEMMA TripTypes ==
    ASSUME BreakerInv, Trip, now \in Nat
    PROVE  failures' \in Nat /\ openUntil' \in Nat \cup {Nothing}
    BY MemoAssumption DEF BreakerInv, Trip, MemoAssumption

(* A command of o has failed: from now on it is among the refused ones.    *)
LEMMA FailureInv ==
    ASSUME BreakerInv, now \in Nat, NEW o \in Commands, NoteFailure,
           Commands' \subseteq Commands \ {o}
    PROVE  BreakerInv'
<1>1. failures' \in Nat /\ openUntil' \in Nat \cup {Nothing}
    BY TripTypes DEF NoteFailure
<1>2. /\ Cardinality(Commands') \in Nat
      /\ Cardinality(Commands') <= Cardinality(Commands) - 1
    <2>1. IsFiniteSet(Commands \ {o}) /\ Cardinality(Commands \ {o}) = Cardinality(Commands) - 1
        BY CommandsCount, FS_RemoveElement
    <2>2. QED
        BY <2>1, FS_Subset, FS_CardinalityType
<1>3. CASE Available
    <2>1. refused' = 0
        BY <1>3 DEF NoteFailure
    <2>2. refused' + Cardinality(Commands') <= Cardinality(Ops)
        BY <1>2, <2>1, CommandsCount, OpsCount
    <2>3. QED
        BY <1>1, <2>1, <2>2, OpsCount DEF BreakerInv
<1>4. CASE ~Available
    <2>1. refused' = refused + 1 /\ refused \in Nat
        BY <1>4 DEF NoteFailure, BreakerInv
    <2>2. refused + Cardinality(Commands) <= Cardinality(Ops)
        BY <1>4 DEF BreakerInv
    <2>3. refused' + Cardinality(Commands') <= Cardinality(Ops) /\ refused' <= Cardinality(Ops)
        BY <1>2, <2>1, <2>2, CommandsCount, OpsCount
    <2>4. QED
        BY <1>1, <2>1, <2>3 DEF BreakerInv
<1>5. QED
    BY <1>3, <1>4

LEMMA CallStepBreaker ==
    ASSUME IInv, NEW o \in Ops, CallStep(o)
    PROVE  BreakerInv'
<1>1. BreakerInv /\ now \in Nat /\ pc \in [Ops -> Places]
    BY DEF IInv, CallsInv
<1>2. UNCHANGED now
    BY DEF CallStep, Ask, Lookup, RedisAnswers, RedisFails, LocalAnswers, Refill, ModelAnswers,
           ModelFails, LocalSet, RedisSet, Cut
<1>3. \A u \in Ops \ {o} : pc'[u] = pc[u]
    BY <1>1 DEF CallStep, Ask, Lookup, RedisAnswers, RedisFails, LocalAnswers, Refill, ModelAnswers,
                ModelFails, LocalSet, RedisSet, Cut, Serve, Done, Miss, Go, Begin
<1>4. ASSUME NoteFailure, o \in Commands, pc'[o] \notin Commanding
      PROVE  BreakerInv'
    BY <1>1, <1>3, <1>4, FailureInv DEF Commands
<1>5. ASSUME UNCHANGED breaker, Available \/ o \in Commands \/ pc'[o] \notin Commanding
      PROVE  BreakerInv'
    <2>1. Available \/ Commands' \subseteq Commands
        BY <1>3, <1>5 DEF Commands
    <2>2. QED
        BY <1>1, <1>2, <1>5, <2>1, BreakerStays
<1>6. ASSUME NEW r \in Requests, Ask(o, r) PROVE BreakerInv'
    BY <1>1, <1>5, <1>6 DEF Ask, Commanding
<1>7. CASE Lookup(o)
    BY <1>1, <1>5, <1>7 DEF Lookup, Begin, Commanding
<1>8. CASE RedisAnswers(o)
    BY <1>8, SuccessInv DEF RedisAnswers
<1>9. CASE RedisFails(o)
    BY <1>1, <1>4, <1>9 DEF RedisFails, Go, Commands, Commanding
<1>10. CASE LocalAnswers(o)
    <2>1. Available \/ pc'[o] \notin Commanding
        BY <1>1, <1>10 DEF LocalAnswers, Serve, Done, Miss, Go, Commanding
    <2>2. QED
        BY <1>5, <1>10, <2>1 DEF LocalAnswers
<1>11. CASE Refill(o)
    <2>1. o \in Commands /\ pc'[o] \notin Commanding
        BY <1>1, <1>11 DEF Refill, Serve, Done, Go, Commands, Commanding
    <2>2. QED
        BY <1>4, <1>11, <2>1, SuccessInv DEF Refill
<1>12. CASE ModelAnswers(o)
    BY <1>1, <1>5, <1>12 DEF ModelAnswers, Begin, Commanding
<1>13. CASE ModelFails(o)
    BY <1>1, <1>5, <1>13 DEF ModelFails, Done, Go, Commanding
<1>14. CASE LocalSet(o)
    <2>1. Available \/ pc'[o] \notin Commanding
        BY <1>1, <1>14 DEF LocalSet, Done, Go, Commanding
    <2>2. QED
        BY <1>5, <1>14, <2>1 DEF LocalSet
<1>15. CASE RedisSet(o)
    <2>1. o \in Commands /\ pc'[o] \notin Commanding
        BY <1>1, <1>15 DEF RedisSet, Done, Go, Commands, Commanding
    <2>2. QED
        BY <1>4, <1>15, <2>1, SuccessInv DEF RedisSet
<1>16. CASE Cut(o)
    <2>1. pc'[o] \notin Commanding
        BY <1>1, <1>16 DEF Cut, Done, Miss, Go, Commanding
    <2>2. QED
        BY <1>5, <1>16, <2>1 DEF Cut
<1>17. QED
    BY <1>6, <1>7, <1>8, <1>9, <1>10, <1>11, <1>12, <1>13, <1>14, <1>15, <1>16 DEF CallStep

(* A purge that fails counts for the breaker, but is no call. *)
LEMMA ClearBreaker ==
    ASSUME IInv, ClearStep
    PROVE  BreakerInv'
<1>1. BreakerInv /\ now \in Nat
    BY DEF IInv, CallsInv
<1>2. UNCHANGED <<now, pc>> /\ Commands' = Commands
    BY DEF ClearStep, ClearCommits, Wipe, WipeFails, PurgeBatch, Purged, PurgeFails, calls, Commands
<1>3. CASE UNCHANGED breaker
    BY <1>1, <1>2, <1>3, BreakerStays
<1>4. CASE Trip /\ refused' = IF Available THEN 0 ELSE refused
    <2>1. failures' \in Nat /\ openUntil' \in Nat \cup {Nothing}
        BY <1>1, <1>4, TripTypes
    <2>2. refused' \in Nat /\ refused' <= Cardinality(Ops) /\ refused' + Cardinality(Commands) <= Cardinality(Ops)
        BY <1>1, <1>4, OpsCount, CommandsCount DEF BreakerInv
    <2>3. QED
        BY <1>2, <2>1, <2>2 DEF BreakerInv
<1>5. QED
    BY <1>3, <1>4 DEF ClearStep, ClearCommits, Wipe, WipeFails, PurgeBatch, Purged, PurgeFails

-----------------------------------------------------------------------------
(* The steps of the rest *)

LEMMA ClearCalls == ASSUME IInv, ClearStep PROVE CallsInv'
    BY DEF ClearStep, ClearCommits, Wipe, WipeFails, PurgeBatch, Purged, PurgeFails, calls, IInv, CallsInv

LEMMA TickInv ==
    ASSUME IInv, Tick
    PROVE  IInv'
<1>1. CallsInv'
    <2>1. /\ now \in Nat /\ now' = now + 1 /\ UNCHANGED <<memo, pc, key, began, value>>
          /\ \A o \in Ops : pc[o] \in CacheSteps => now < began[o] + Overhead
        BY DEF Tick, calls, IInv, CallsInv
    <2>2. ASSUME NEW o \in Ops, pc[o] \in CacheSteps
          PROVE  began[o] \in Nat /\ began[o] <= now' /\ now' <= began[o] + Overhead
        BY <2>1, <2>2, MemoAssumption DEF IInv, CallsInv, MemoAssumption
    <2>3. QED
        BY <2>1, <2>2 DEF IInv, CallsInv
<1>2. CacheInv'
    <2>1. redis' \in [Keys -> Entry \cup {Nothing}]
        BY DEF Tick, IInv, CacheInv
    <2>2. \A k \in Keys : redis'[k] \in {redis[k], Nothing}
        BY DEF Tick
    <2>3. UNCHANGED <<generation, clearing, retiring, purged, todo>>
        BY DEF Tick, clear
    <2>4. QED
        BY <2>1, <2>2, <2>3, LossInv DEF IInv
<1>3. BreakerInv'
    <2>1. Commands' = Commands
        BY DEF Tick, calls, Commands
    <2>2. ~Available' => ~Available
        BY DEF Tick, IInv, CallsInv, BreakerInv, Available, breaker
    <2>3. QED
        BY <2>1, <2>2 DEF Tick, IInv, BreakerInv, breaker
<1>4. QED
    BY <1>1, <1>2, <1>3 DEF IInv

LEMMA LoseOneInv ==
    ASSUME IInv, NEW k \in Keys, Evict(k) \/ Corrupt(k)
    PROVE  IInv'
<1>1. CallsInv' /\ BreakerInv'
    BY DEF Evict, Corrupt, calls, breaker, IInv, CallsInv, BreakerInv, Available, Commands
<1>2. CASE Evict(k)
    BY <1>1, <1>2, LossInv DEF Evict, clear, IInv, CacheInv
<1>3. CASE Corrupt(k)
    <2>1. redis[k] \in Entry
        BY <1>3 DEF Corrupt, IInv, CacheInv
    <2>2. /\ redis' \in [Keys -> Entry \cup {Nothing}]
          /\ \A x \in Keys \ {k} : redis'[x] = redis[x]
          /\ redis'[k].expiry = redis[k].expiry
          /\ redis'[k].until = redis[k].until
          /\ redis'[k].stray = redis[k].stray
        BY <1>3, <2>1 DEF Corrupt, IInv, CacheInv, Entry
    <2>3. CacheInv'
        BY <1>3, <2>2 DEF Corrupt, clear, IInv, CacheInv, LifetimeKept, PurgeInv, PurgeTruthful
    <2>4. QED
        BY <1>1, <2>3 DEF IInv
<1>4. QED
    BY <1>2, <1>3

LEMMA CrashInv == ASSUME IInv, Crash PROVE IInv'
<1>1. CallsInv'
    BY DEF Crash, IInv, CallsInv, Places, CacheSteps
<1>2. CacheInv'
    BY DEF Crash, IInv, CacheInv, LifetimeKept, PurgeInv, PurgeTruthful
<1>3. BreakerInv'
    BY OpsCount DEF Crash, BreakerInv, Available
<1>4. QED
    BY <1>1, <1>2, <1>3 DEF IInv

LEMMA NextInv ==
    ASSUME IInv, [Next]_vars
    PROVE  IInv'
<1>1. ASSUME NEW o \in Ops, CallStep(o) PROVE IInv'
    BY <1>1, CallStepCalls, CallStepCache, CallStepBreaker DEF IInv
<1>2. CASE ClearStep
    BY <1>2, ClearCalls, ClearInv, ClearBreaker DEF IInv
<1>3. CASE UNCHANGED vars
    <2>1. CallsInv' /\ BreakerInv'
        BY <1>3 DEF vars, IInv, CallsInv, BreakerInv, Available, Commands
    <2>2. CacheInv'
        BY <1>3, CacheStays DEF vars, scope, IInv
    <2>3. QED
        BY <2>1, <2>2 DEF IInv
<1>4. QED
    BY <1>1, <1>2, <1>3, TickInv, LoseOneInv, CrashInv DEF Next

-----------------------------------------------------------------------------
(* The theorems *)

(* The inductive invariant holds in every reachable state. *)
THEOREM MemoInvariance == Spec => []IInv
<1>1. MemoInit => IInv
    BY InitInv
<1>2. IInv /\ [Next]_vars => IInv'
    BY NextInv
<1>3. QED
    BY <1>1, <1>2, PTL DEF Spec

(* However late Redis executes a write or a refill, and though a time to   *)
(* live is of whole seconds and at least one, no record stays for a second *)
(* and the overhead budget beyond its lifetime, and refills do not add up  *)
(* (RedisMemoCache.get and .set of cache.py).                              *)
THEOREM LifetimesKept == Spec => []LifetimeKept
<1>1. IInv => LifetimeKept
    BY DEF IInv, CacheInv
<1>2. QED
    BY <1>1, MemoInvariance, PTL

(* When purge_prefix reports a generation as purged, what was there when   *)
(* it was retired is gone, whatever calls write meanwhile (clear.py:121).  *)
THEOREM PurgesTruthful == Spec => []PurgeTruthful
<1>1. IInv => PurgeTruthful
    BY DEF IInv, CacheInv
<1>2. QED
    BY <1>1, MemoInvariance, PTL

(* An open breaker lets no command fail but those that were on their way.  *)
THEOREM BreakerProtects == Spec => []BreakerShields
<1>1. IInv => BreakerShields
    BY DEF IInv, BreakerInv, BreakerShields
<1>2. QED
    BY <1>1, MemoInvariance, PTL

=============================================================================
