------------------------------ MODULE AskProofs ------------------------------
(***************************************************************************)
(* Proofs about the slots and the budget of the provider, and about what   *)
(* ask() returns, for any number of requests, slots and attempts; and      *)
(* about the messages that a question or a context is given to begin with  *)
(* (Selection), for histories of any length and any limits.                *)
(***************************************************************************)
EXTENDS Ask, Selection, SetsAndQueues

-----------------------------------------------------------------------------
(* The queue of the semaphore *)

(* _wake_up_next wakes sleepers only, and no more than it has slots for.   *)
LEMMA WokenFew ==
    ASSUME NEW n \in Nat, NEW ws \in Seq(Ops)
    PROVE  /\ \A u \in Woken(n, ws) : pc[u] = "waiting" /\ \E i \in 1..Len(ws) : u = ws[i]
           /\ IsFiniteSet(Woken(n, ws))
           /\ Cardinality(Woken(n, ws)) \in Nat
           /\ Cardinality(Woken(n, ws)) <= n
<1> DEFINE A == Asleep(ws)
           before(j) == {k \in A : k < j}
           J == {j \in A : Cardinality(before(j)) < n}
           rank == [j \in J |-> Cardinality(before(j))]
           at == [j \in J |-> ws[j]]
           W == Woken(n, ws)
<1>1. A \subseteq 1..Len(ws) /\ IsFiniteSet(A)
    BY FS_Interval, FS_Subset DEF Asleep
<1>2. \A j \in A : IsFiniteSet(before(j)) /\ Cardinality(before(j)) \in Nat
    BY <1>1, FS_Subset, FS_CardinalityType
<1>3. W = {ws[i] : i \in J}
    BY DEF Woken
<1>4. \A i, j \in A : i < j => Cardinality(before(i)) < Cardinality(before(j))
    <2>1. SUFFICES ASSUME NEW i \in A, NEW j \in A, i < j
                   PROVE  Cardinality(before(i)) < Cardinality(before(j))
        OBVIOUS
    <2>2. before(i) \subseteq before(j) /\ i \in before(j) /\ i \notin before(i)
        BY <1>1, <2>1
    <2>3. QED
        <3> HIDE DEF before
        <3>1. QED
            BY <1>2, <2>2, FS_Subset
<1>5. IsFiniteSet(J) /\ J \subseteq A
    BY <1>1, FS_Subset
<1>6. rank \in Injection(J, 0..(n - 1))
    <2>1. rank \in [J -> 0..(n - 1)]
        <3> HIDE DEF before
        <3>1. QED
            BY <1>2
    <2>2. \A i, j \in J : rank[i] = rank[j] => i = j
        <3>1. SUFFICES ASSUME NEW i \in J, NEW j \in J, rank[i] = rank[j], i # j PROVE FALSE
            OBVIOUS
        <3>2. i < j \/ j < i
            BY <1>1, <3>1
        <3>3. Cardinality(before(i)) = Cardinality(before(j))
            BY <3>1
        <3> HIDE DEF before
        <3>4. QED
            BY <1>2, <1>4, <3>1, <3>2, <3>3
    <2>3. QED
        BY <2>1, <2>2 DEF Injection, IsInjective
<1>7. Cardinality(0..(n - 1)) = n /\ IsFiniteSet(0..(n - 1))
    BY FS_Interval
<1>8. Cardinality(J) <= n
    BY <1>6, <1>7, FS_Injection
<1>9. at \in Surjection(J, W)
    BY <1>3 DEF Surjection
<1>10. IsFiniteSet(W) /\ Cardinality(W) <= Cardinality(J)
    BY <1>5, <1>9, FS_Surjection
<1>11. \A u \in W : pc[u] = "waiting" /\ \E i \in 1..Len(ws) : u = ws[i]
    BY <1>3, <1>5, <1>1 DEF Asleep
<1>12. QED
    <2> HIDE DEF J
    <2>1. QED
        BY <1>5, <1>8, <1>10, <1>11, FS_CardinalityType

-----------------------------------------------------------------------------
(* The inductive invariant of the provider *)

Places == {"idle", "waiting", "granted"} \cup Holding
Owning == Holding \cup {"granted"}
Results == {"none", "response", "timeout", "budget", "provider_error", "crash", "cancelled"}

ProviderTypeOK ==
    /\ free \in Nat
    /\ waiters \in Seq(Ops)
    /\ pc \in [Ops -> Places]
    /\ tries \in [Ops -> Nat]
    /\ calls \in [Ops -> Nat]
    /\ late \in [Ops -> BOOLEAN]
    /\ result \in [Ops -> Results]

(* The queue has those that wait, and those that were woken and have not   *)
(* run: each once.                                                         *)
QueueInv ==
    /\ EachOnce(waiters)
    /\ \A i \in 1..Len(waiters) : pc[waiters[i]] \in {"waiting", "granted"}

SlotInv ==
    /\ free \in Nat
    /\ waiters \in Seq(Ops)
    /\ pc \in [Ops -> Places]
    /\ QueueInv
    /\ SlotsConserved

ProviderInv == ProviderTypeOK /\ QueueInv /\ SlotsConserved /\ BudgetKept

LEMMA OwnersFinite == IsFiniteSet(Owners) /\ Cardinality(Owners) \in Nat
    BY ProviderAssumption, FS_Subset, FS_CardinalityType DEF Owners, ProviderAssumption

(* The owners after o went to place and the woken ones got their slots.    *)
LEMMA OwnersMoved ==
    ASSUME pc \in [Ops -> Places], NEW o \in Ops, NEW place \in Places,
           NEW woken \in SUBSET Ops, \A u \in woken : pc[u] = "waiting",
           o \notin woken, Moved(o, place, woken)
    PROVE  /\ pc' \in [Ops -> Places]
           /\ Cardinality(Owners') = Cardinality(Owners \ {o}) + Cardinality(woken)
                                     + (IF place \in Owning THEN 1 ELSE 0)
<1> DEFINE others == Owners \ {o}
<1>1. /\ pc' \in [Ops -> Places]
      /\ pc'[o] = place
      /\ \A u \in Ops \ {o} : pc'[u] = IF u \in woken THEN "granted" ELSE pc[u]
    BY DEF Moved, Places
<1>2. IsFiniteSet(others) /\ IsFiniteSet(woken)
    BY ProviderAssumption, FS_Subset DEF Owners, ProviderAssumption
<1>3. others \cap woken = {}
    BY DEF Owners, Holding
<1>4. /\ IsFiniteSet(others \cup woken)
      /\ Cardinality(others \cup woken) = Cardinality(others) + Cardinality(woken)
    <2>1. Cardinality(others \cap woken) = 0
        BY <1>3, FS_EmptySet
    <2> HIDE DEF others
    <2>2. Cardinality(others) \in Nat /\ Cardinality(woken) \in Nat
        BY <1>2, FS_CardinalityType
    <2>3. /\ IsFiniteSet(others \cup woken)
          /\ Cardinality(others \cup woken)
                = Cardinality(others) + Cardinality(woken) - Cardinality(others \cap woken)
        BY <1>2, FS_Union
    <2>4. QED
        BY <2>1, <2>2, <2>3
<1>5. CASE place \in Owning
    <2>1. Owners' = (others \cup woken) \cup {o}
        BY <1>1, <1>5 DEF Owners, Owning
    <2>2. o \notin others \cup woken
        OBVIOUS
    <2>3. QED
        BY <1>1, <1>4, <1>5, <2>1, <2>2, FS_AddElement
<1>6. CASE place \notin Owning
    <2>1. Owners' = others \cup woken
        BY <1>1, <1>6 DEF Owners, Owning
    <2>2. Cardinality(others \cup woken) \in Nat
        BY <1>4, FS_CardinalityType
    <2>3. QED
        BY <1>1, <1>4, <1>6, <2>1, <2>2
<1>7. QED
    BY <1>5, <1>6

(* o leaves with its slot or without, n slots are at hand, and up to m of  *)
(* the queue ws are woken, which they suffice for: the slots still add up. *)
LEMMA HandedOn ==
    ASSUME SlotInv, NEW o \in Ops, NEW place \in Places,
           NEW n \in Nat, NEW m \in Nat, m <= n,
           NEW ws \in Seq(Ops), EachOnce(ws),
           \A i \in 1..Len(ws) : ws[i] # o /\ pc[ws[i]] \in {"waiting", "granted"},
           n + Cardinality(Owners \ {o}) + (IF place \in Owning THEN 1 ELSE 0) = Slots,
           waiters' = ws,
           Moved(o, place, Woken(m, ws)),
           free' = n - Cardinality(Woken(m, ws))
    PROVE  SlotInv'
<1> DEFINE woken == Woken(m, ws)
<1>1. /\ \A u \in woken : pc[u] = "waiting" /\ \E i \in 1..Len(ws) : u = ws[i]
      /\ Cardinality(woken) \in Nat
      /\ Cardinality(woken) <= n
    BY WokenFew
<1>2. woken \in SUBSET Ops /\ o \notin woken
    BY <1>1
<1> HIDE DEF woken
<1>3. /\ pc' \in [Ops -> Places]
      /\ Cardinality(Owners') = Cardinality(Owners \ {o}) + Cardinality(woken)
                                + (IF place \in Owning THEN 1 ELSE 0)
    BY <1>1, <1>2, OwnersMoved DEF SlotInv, woken
<1>4. free' \in Nat
    BY <1>1 DEF woken
<1>5. Cardinality(Owners \ {o}) \in Nat
    BY OwnersFinite, FS_RemoveElement, FS_CardinalityType
<1>6. free' + Cardinality(Owners') = Slots
    <2>1. free' = n - Cardinality(woken)
        BY DEF woken
    <2> DEFINE own == IF place \in Owning THEN 1 ELSE 0
    <2>2. own \in Nat /\ n + Cardinality(Owners \ {o}) + own = Slots
        OBVIOUS
    <2>3. Cardinality(Owners') = Cardinality(Owners \ {o}) + Cardinality(woken) + own
        BY <1>3
    <2> HIDE DEF own
    <2>4. QED
        BY <1>1, <1>5, <2>1, <2>2, <2>3
<1>7. \A i \in 1..Len(ws) : pc'[ws[i]] \in {"waiting", "granted"}
    BY DEF Moved
<1>8. QED
    BY <1>3, <1>4, <1>6, <1>7 DEF SlotInv, QueueInv, SlotsConserved

-----------------------------------------------------------------------------
(* The steps of a provider call *)

(* A call that holds a slot gives it back and wakes the first sleeper.     *)
LEMMA ReleaseSlots ==
    ASSUME SlotInv, NEW o \in Ops, pc[o] \in Holding, NEW how, Release(o, how)
    PROVE  SlotInv'
<1> DEFINE value == free + 1
<1>1. /\ o \in Owners
      /\ Cardinality(Owners \ {o}) = Cardinality(Owners) - 1
    BY OwnersFinite, FS_RemoveElement DEF Owners
<1>2. "idle" \in Places /\ "idle" \notin Owning
    BY DEF Places, Owning, Holding
<1>3. value + Cardinality(Owners \ {o}) + (IF "idle" \in Owning THEN 1 ELSE 0) = Slots
    BY <1>1, <1>2, OwnersFinite DEF SlotInv, SlotsConserved
<1>4. \A i \in 1..Len(waiters) : waiters[i] # o /\ pc[waiters[i]] \in {"waiting", "granted"}
    BY DEF SlotInv, QueueInv, Holding
<1>5. value \in Nat /\ 1 \in Nat /\ 1 <= value
    BY DEF SlotInv
<1>6. Moved(o, "idle", Woken(1, waiters)) /\ waiters' = waiters
    BY DEF Release
<1>7. free' = value - Cardinality(Woken(1, waiters))
    <2>1. Cardinality(Woken(1, waiters)) \in Nat
        BY WokenFew DEF SlotInv
    <2>2. free' = free + 1 - Cardinality(Woken(1, waiters))
        BY DEF Release
    <2>3. QED
        BY <2>1, <2>2 DEF SlotInv
<1>8. waiters \in Seq(Ops) /\ EachOnce(waiters)
    BY DEF SlotInv, QueueInv
<1> HIDE DEF value
<1>9. QED
    BY <1>2, <1>3, <1>4, <1>5, <1>6, <1>7, <1>8, HandedOn

(* What the queue is without o. *)
LEMMA QueueWithout ==
    ASSUME SlotInv, NEW o \in Ops
    PROVE  /\ Without(o) \in Seq(Ops)
           /\ EachOnce(Without(o))
           /\ \A i \in 1..Len(Without(o)) :
                 Without(o)[i] # o /\ pc[Without(o)[i]] \in {"waiting", "granted"}
    BY Left DEF SlotInv, QueueInv, Without

(* A waiter leaves: a slot it was given in the meantime is not lost.       *)
LEMMA LeaveQueueSlots ==
    ASSUME SlotInv, NEW o \in Ops, pc[o] \in {"waiting", "granted"}, NEW how, LeaveQueue(o, how)
    PROVE  SlotInv'
<1> DEFINE value == IF pc[o] = "granted" THEN free + 1 ELSE free
<1>1. value \in Nat
    BY DEF SlotInv
<1>2. value + Cardinality(Owners \ {o}) = Slots
    <2>1. CASE pc[o] = "granted"
        <3>1. o \in Owners
            BY <2>1 DEF Owners
        <3>2. Cardinality(Owners \ {o}) = Cardinality(Owners) - 1
            BY <3>1, OwnersFinite, FS_RemoveElement
        <3>3. QED
            BY <2>1, <3>2, OwnersFinite DEF SlotInv, SlotsConserved
    <2>2. CASE pc[o] = "waiting"
        <3>1. Owners \ {o} = Owners
            BY <2>2 DEF Owners, Holding
        <3>2. QED
            BY <2>2, <3>1 DEF SlotInv, SlotsConserved
    <2>3. QED
        BY <2>1, <2>2
<1>3. /\ waiters' = Without(o)
      /\ Moved(o, "idle", Woken(value, Without(o)))
      /\ free' = value - Cardinality(Woken(value, Without(o)))
    BY DEF LeaveQueue
<1>4. "idle" \in Places /\ "idle" \notin Owning
    BY DEF Places, Owning, Holding
<1> HIDE DEF value
<1>5. value + Cardinality(Owners \ {o}) + (IF "idle" \in Owning THEN 1 ELSE 0) = Slots
    BY <1>1, <1>2, <1>4, OwnersFinite, FS_RemoveElement, FS_CardinalityType
<1>6. value <= value
    BY <1>1
<1>7. QED
    BY <1>1, <1>3, <1>4, <1>5, <1>6, QueueWithout, HandedOn

(* The woken waiter runs and passes on what slots there are.               *)
LEMMA AdmittedSlots ==
    ASSUME SlotInv, NEW o \in Ops, Admitted(o)
    PROVE  SlotInv'
<1>1. o \in Owners
    BY DEF Admitted, Owners
<1>2. Cardinality(Owners \ {o}) = Cardinality(Owners) - 1
    BY <1>1, OwnersFinite, FS_RemoveElement
<1>3. "admitted" \in Places /\ "admitted" \in Owning
    BY DEF Places, Owning, Holding
<1>4. free + Cardinality(Owners \ {o}) + (IF "admitted" \in Owning THEN 1 ELSE 0) = Slots
    BY <1>2, <1>3, OwnersFinite DEF SlotInv, SlotsConserved
<1>5. /\ waiters' = Without(o)
      /\ Moved(o, "admitted", Woken(free, Without(o)))
      /\ free' = free - Cardinality(Woken(free, Without(o)))
    BY DEF Admitted
<1>6. free \in Nat /\ free <= free
    BY DEF SlotInv
<1>7. QED
    BY <1>3, <1>4, <1>5, <1>6, QueueWithout, HandedOn

(* A call goes on with the slot it holds. *)
LEMMA HeldSlots ==
    ASSUME SlotInv, NEW o \in Ops, pc[o] \in Holding, NEW place \in Holding,
           pc' = [pc EXCEPT ![o] = place], UNCHANGED <<free, waiters>>
    PROVE  SlotInv'
<1>1. Owners' = Owners
    BY DEF SlotInv, Owners
<1>2. pc' \in [Ops -> Places]
    BY DEF SlotInv, Places
<1>3. \A i \in 1..Len(waiters) : pc'[waiters[i]] \in {"waiting", "granted"}
    BY DEF SlotInv, QueueInv, Holding
<1>4. QED
    BY <1>1, <1>2, <1>3 DEF SlotInv, QueueInv, SlotsConserved

(* A call begins: refused, with a free slot, or at the end of the queue.   *)
LEMMA BeginSlots ==
    ASSUME SlotInv, NEW o \in Ops, Begin(o)
    PROVE  SlotInv'
<1>1. pc[o] = "idle" /\ o \notin Owners
    BY DEF Begin, Owners, Holding
<1>2. \A i \in 1..Len(waiters) : waiters[i] # o
    BY <1>1 DEF SlotInv, QueueInv
<1>3. CASE UNCHANGED <<free, waiters, pc>>
    BY <1>3 DEF SlotInv, QueueInv, SlotsConserved, Owners
<1>4. CASE /\ free > 0 /\ waiters = <<>> /\ UNCHANGED waiters
           /\ free' = free - 1
           /\ pc' = [pc EXCEPT ![o] = "admitted"]
    <2>1. Owners' = Owners \cup {o}
        BY <1>4 DEF SlotInv, Owners, Holding
    <2>2. Cardinality(Owners') = Cardinality(Owners) + 1
        BY <1>1, <2>1, OwnersFinite, FS_AddElement
    <2>3. pc' \in [Ops -> Places] /\ free' \in Nat
        BY <1>4 DEF SlotInv, Places, Holding
    <2>4. free' + Cardinality(Owners') = Slots
        BY <1>4, <2>2, OwnersFinite DEF SlotInv, SlotsConserved
    <2>5. QED
        BY <1>4, <2>3, <2>4 DEF SlotInv, QueueInv, SlotsConserved, EachOnce
<1>5. CASE /\ waiters' = Append(waiters, o)
           /\ pc' = [pc EXCEPT ![o] = "waiting"]
           /\ UNCHANGED free
    <2>1. Owners' = Owners
        BY <1>1, <1>5 DEF SlotInv, Owners, Holding
    <2>2. pc' \in [Ops -> Places]
        BY <1>5 DEF SlotInv, Places
    <2>3. /\ waiters' \in Seq(Ops)
          /\ Len(waiters') = Len(waiters) + 1
          /\ \A i \in 1..Len(waiters') : waiters'[i] = IF i <= Len(waiters) THEN waiters[i] ELSE o
        BY <1>5 DEF SlotInv
    <2>4. EachOnce(waiters')
        BY <1>2, <2>3 DEF SlotInv, QueueInv, EachOnce
    <2>5. \A i \in 1..Len(waiters') : pc'[waiters'[i]] \in {"waiting", "granted"}
        BY <1>5, <2>3 DEF SlotInv, QueueInv
    <2>6. QED
        BY <1>5, <2>1, <2>2, <2>3, <2>4, <2>5 DEF SlotInv, QueueInv, SlotsConserved
<1>6. QED
    BY <1>3, <1>4, <1>5 DEF Begin

(* The figures of a call that changes nothing but its place. *)
LEMMA AccountsKept ==
    ASSUME ProviderInv, SlotInv', result' \in [Ops -> Results], UNCHANGED accounts
    PROVE  ProviderInv'
    BY DEF ProviderInv, ProviderTypeOK, SlotInv, BudgetKept, accounts

LEMMA SlotsOfInv == ASSUME ProviderInv PROVE SlotInv
    BY DEF ProviderInv, ProviderTypeOK, SlotInv

(* Ends of a call: with its slot, or from the queue. *)
LEMMA ReleaseInv ==
    ASSUME ProviderInv, NEW o \in Ops, pc[o] \in Holding, NEW how \in Results,
           Release(o, how), UNCHANGED accounts
    PROVE  ProviderInv'
<1>1. result' \in [Ops -> Results]
    BY DEF Release, ProviderInv, ProviderTypeOK
<1>2. QED
    BY <1>1, SlotsOfInv, ReleaseSlots, AccountsKept

LEMMA LeaveQueueInv ==
    ASSUME ProviderInv, NEW o \in Ops, pc[o] \in {"waiting", "granted"}, NEW how \in Results,
           LeaveQueue(o, how), UNCHANGED accounts
    PROVE  ProviderInv'
<1>1. result' \in [Ops -> Results]
    BY DEF LeaveQueue, ProviderInv, ProviderTypeOK
<1>2. QED
    BY <1>1, SlotsOfInv, LeaveQueueSlots, AccountsKept

(* A physical attempt, which the budget has to allow. *)
LEMMA DispatchInv ==
    ASSUME ProviderInv, NEW o \in Ops, pc[o] = "admitted", calls[o] < Limit, Dispatch(o)
    PROVE  ProviderInv'
<1>1. SlotInv'
    BY SlotsOfInv, HeldSlots DEF Dispatch, Holding
<1>2. /\ tries' \in [Ops -> Nat] /\ calls' \in [Ops -> Nat]
      /\ late' \in [Ops -> BOOLEAN] /\ result' \in [Ops -> Results]
    BY DEF Dispatch, ProviderInv, ProviderTypeOK
<1>3. BudgetKept'
    BY ProviderAssumption DEF Dispatch, ProviderInv, ProviderTypeOK, BudgetKept, ProviderAssumption
<1>4. QED
    BY <1>1, <1>2, <1>3 DEF ProviderInv, ProviderTypeOK, SlotInv

(* Every step inside of complete() keeps the invariant. *)
LEMMA ProviderStepInv ==
    ASSUME ProviderInv, NEW o \in Ops, ProviderStep(o)
    PROVE  ProviderInv'
<1>1. CASE Admitted(o)
    BY <1>1, SlotsOfInv, AdmittedSlots, AccountsKept DEF Admitted, ProviderInv, ProviderTypeOK
<1>2. CASE AdmissionTimesOut(o)
    BY <1>2, LeaveQueueInv DEF AdmissionTimesOut, Results
<1>3. CASE Attempt(o)
    <2>1. pc[o] \in Holding
        BY <1>3 DEF Attempt, Holding
    <2>2. CASE \E how \in Results : Release(o, how) /\ UNCHANGED accounts
        BY <2>1, <2>2, ReleaseInv
    <2>3. CASE calls[o] < Limit /\ Dispatch(o)
        BY <1>3, <2>3, DispatchInv DEF Attempt
    <2>4. QED
        BY <1>3, <2>2, <2>3 DEF Attempt, Results
<1>4. CASE Answers(o)
    BY <1>4, ReleaseInv DEF Answers, Holding, Results
<1>5. CASE \E how \in {"provider_error", "crash"} : CallFails(o, how)
    BY <1>5, ReleaseInv DEF CallFails, Holding, Results
<1>6. CASE CallTimesOut(o)
    <2>1. pc[o] \in Holding /\ "timeout" \in Results /\ "backoff" \in Holding
        BY <1>6 DEF CallTimesOut, Holding, Results
    <2>2. CASE Release(o, "timeout")
        BY <1>6, <2>1, <2>2, ReleaseInv DEF CallTimesOut
    <2>3. CASE pc' = [pc EXCEPT ![o] = "backoff"] /\ UNCHANGED <<free, waiters, result>>
        BY <1>6, <2>1, <2>3, SlotsOfInv, HeldSlots, AccountsKept
           DEF CallTimesOut, ProviderInv, ProviderTypeOK
    <2>4. QED
        BY <1>6, <2>2, <2>3 DEF CallTimesOut
<1>7. CASE BackoffEnds(o)
    <2>1. pc[o] \in Holding /\ "admitted" \in Holding
        BY <1>7 DEF BackoffEnds, Holding
    <2>2. QED
        BY <1>7, <2>1, SlotsOfInv, HeldSlots, AccountsKept
           DEF BackoffEnds, ProviderInv, ProviderTypeOK
<1>8. QED
    BY <1>1, <1>2, <1>3, <1>4, <1>5, <1>6, <1>7 DEF ProviderStep

(* So does being cut off from outside, wherever the call is. *)
LEMMA CutOffInv ==
    ASSUME ProviderInv, NEW o \in Ops, NEW how \in Results, CutOff(o, how)
    PROVE  ProviderInv'
    BY LeaveQueueInv, ReleaseInv DEF CutOff, Holding

(* And a new call, or a memo in its place. *)
LEMMA BeginInv ==
    ASSUME ProviderInv, NEW o \in Ops, Begin(o) \/ FromCache(o)
    PROVE  ProviderInv'
<1>1. CASE Begin(o)
    <2>1. SlotInv'
        BY <1>1, SlotsOfInv, BeginSlots
    <2>2. result' \in [Ops -> Results]
        BY <1>1 DEF Begin, Results, ProviderInv, ProviderTypeOK
    <2>3. tries' \in [Ops -> Nat] /\ UNCHANGED <<calls, late>>
        BY <1>1 DEF Begin, ProviderInv, ProviderTypeOK
    <2>4. QED
        BY <2>1, <2>2, <2>3 DEF ProviderInv, ProviderTypeOK, SlotInv, BudgetKept
<1>2. CASE FromCache(o)
    <2>1. /\ result' \in [Ops -> Results]
          /\ UNCHANGED <<free, waiters, pc, accounts>>
        BY <1>2 DEF FromCache, Results, ProviderInv, ProviderTypeOK
    <2>2. SlotInv'
        BY <2>1, SlotsOfInv DEF SlotInv, QueueInv, SlotsConserved, Owners
    <2>3. QED
        BY <2>1, <2>2, AccountsKept
<1>3. QED
    BY <1>1, <1>2

-----------------------------------------------------------------------------
(* The inductive invariant of ask() *)

Outcomes == {"none", "answered", "partial", "insufficient_evidence", "conflict", "raised", "cancelled"}

AskTypeOK ==
    /\ phase \in [Ops -> Active \cup {"ended"}]
    /\ steps \in [Ops -> Nat]
    /\ found \in [Ops -> BOOLEAN]
    /\ retired \in [Ops -> BOOLEAN]
    /\ cites \in [Ops -> Answer]
    /\ outcome \in [Ops -> Outcomes]

(* Whoever asks the model for an answer has evidence for it. *)
AsksWithEvidence ==
    \A o \in Ops : phase[o] \in {"retrieved", "synthesis", "repair"} => found[o]

AskInv == AskTypeOK /\ AsksWithEvidence /\ AnswerBacked

IInv == ProviderInv /\ AskInv

LEMMA InitInv == ASSUME AskInit PROVE IInv
<1>1. Owners = {}
    BY DEF AskInit, ProviderInit, Owners, Holding
<1>2. SlotsConserved
    BY <1>1, FS_EmptySet, ProviderAssumption
       DEF AskInit, ProviderInit, SlotsConserved, ProviderAssumption
<1>3. ProviderTypeOK /\ BudgetKept
    BY ProviderAssumption
       DEF AskInit, ProviderInit, ProviderTypeOK, Places, Results, BudgetKept, ProviderAssumption
<1>4. QueueInv
    BY DEF AskInit, ProviderInit, QueueInv, EachOnce
<1>5. AskInv
    BY DEF AskInit, AskInv, AskTypeOK, AsksWithEvidence, AnswerBacked, Answer, Outcomes, Active
<1>6. QED
    BY <1>2, <1>3, <1>4, <1>5 DEF IInv, ProviderInv

(* A request that ends takes its budget with it; an answer has to be       *)
(* backed.                                                                 *)
LEMMA EndInv ==
    ASSUME IInv, NEW o \in Ops, NEW how \in Outcomes, End(o, how), UNCHANGED found,
           cites' \in [Ops -> Answer], \A u \in Ops \ {o} : cites'[u] = cites[u],
           how = "answered" => cites'[o] = "own" /\ found[o]
    PROVE  IInv'
<1>1. SlotInv'
    BY SlotsOfInv DEF IInv, End, SlotInv, QueueInv, SlotsConserved, Owners
<1>2. /\ tries' \in [Ops -> Nat] /\ calls' \in [Ops -> Nat]
      /\ late' \in [Ops -> BOOLEAN] /\ result' \in [Ops -> Results]
    BY DEF IInv, End, ProviderInv, ProviderTypeOK, Results
<1>3. BudgetKept'
    BY ProviderAssumption DEF IInv, End, ProviderInv, ProviderTypeOK, BudgetKept, ProviderAssumption
<1>4. AskTypeOK'
    BY DEF IInv, End, AskInv, AskTypeOK
<1>5. AsksWithEvidence'
    BY DEF IInv, End, AskInv, AskTypeOK, AsksWithEvidence
<1>6. AnswerBacked'
    BY DEF IInv, End, AskInv, AskTypeOK, AnswerBacked
<1>7. QED
    BY <1>1, <1>2, <1>3, <1>4, <1>5, <1>6 DEF IInv, AskInv, ProviderInv, ProviderTypeOK, SlotInv

(* A step of the provider's call alone. *)
LEMMA OnlyProvider ==
    ASSUME IInv, ProviderInv', UNCHANGED askVars
    PROVE  IInv'
    BY DEF IInv, AskInv, AskTypeOK, AsksWithEvidence, AnswerBacked, askVars

(* Asking for an answer, or returning what there is instead. *)
LEMMA AskInvLemma ==
    ASSUME IInv, NEW o \in Ops, NEW next \in {"synthesis", "repair"}, found[o],
           phase[o] \in Active, Ask(o, next), UNCHANGED <<found, cites>>
    PROVE  IInv'
<1>1. CASE Emit(o, "partial")
    <2>1. PICK how \in {"conflict", "partial"} : End(o, how)
        BY <1>1 DEF Emit
    <2>2. QED
        BY <2>1, EndInv DEF Outcomes, IInv, AskInv, AskTypeOK
<1>2. CASE /\ phase' = [phase EXCEPT ![o] = next]
           /\ Begin(o)
           /\ UNCHANGED <<steps, retired, outcome>>
    <2>1. ProviderInv'
        BY <1>2, BeginInv DEF IInv
    <2>2. AskTypeOK' /\ AsksWithEvidence' /\ AnswerBacked'
        BY <1>2 DEF IInv, AskInv, AskTypeOK, AsksWithEvidence, AnswerBacked, Active
    <2>3. QED
        BY <2>1, <2>2 DEF IInv, AskInv
<1>3. QED
    BY <1>1, <1>2 DEF Ask

LEMMA StepInv ==
    ASSUME IInv, NEW o \in Ops, AskStep(o)
    PROVE  IInv'
<1>1. CASE Navigate(o)
    BY <1>1, BeginInv, OnlyProvider DEF Navigate, IInv
<1>2. CASE NavigationEnds(o)
    <2>1. CASE \E how \in {"raised", "cancelled"} : End(o, how)
        BY <1>2, <2>1, EndInv DEF NavigationEnds, Outcomes, IInv, AskInv, AskTypeOK
    <2>2. CASE /\ steps' = [steps EXCEPT ![o] = IF result[o] = "response" THEN @ + 1 ELSE MaxNavigation]
               /\ result' = [result EXCEPT ![o] = "none"]
               /\ UNCHANGED <<free, waiters, pc, accounts, phase, retired, outcome>>
        <3>1. SlotInv' /\ result' \in [Ops -> Results]
            BY <2>2, SlotsOfInv
               DEF IInv, SlotInv, QueueInv, SlotsConserved, Owners, ProviderInv, ProviderTypeOK, Results
        <3>2. ProviderInv'
            BY <2>2, <3>1, AccountsKept DEF IInv
        <3>3. AskTypeOK'
            BY <1>2, <2>2, NavigationAssumption DEF NavigationEnds, NavigationAssumption, IInv, AskInv, AskTypeOK
        <3>4. QED
            BY <1>2, <2>2, <3>2, <3>3
               DEF NavigationEnds, IInv, AskInv, AsksWithEvidence, AnswerBacked
    <2>3. QED
        BY <1>2, <2>1, <2>2 DEF NavigationEnds
<1>3. CASE Retrieved(o)
    <2>1. CASE \E how \in {"conflict", "insufficient_evidence"} : End(o, how) /\ UNCHANGED found
        BY <1>3, <2>1, EndInv DEF Retrieved, Outcomes, IInv, AskInv, AskTypeOK
    <2>2. CASE /\ found' = [found EXCEPT ![o] = TRUE]
               /\ phase' = [phase EXCEPT ![o] = "retrieved"]
               /\ UNCHANGED <<providerVars, steps, retired, outcome>>
        <3>1. ProviderInv'
            BY <2>2 DEF IInv, ProviderInv, ProviderTypeOK, QueueInv, SlotsConserved, Owners,
                        BudgetKept, providerVars
        <3>2. AskTypeOK' /\ AsksWithEvidence' /\ AnswerBacked'
            BY <1>3, <2>2 DEF Retrieved, IInv, AskInv, AskTypeOK, AsksWithEvidence, AnswerBacked, Active
        <3>3. QED
            BY <3>1, <3>2 DEF IInv, AskInv
    <2>3. QED
        BY <1>3, <2>1, <2>2 DEF Retrieved, Emit
<1>4. CASE Synthesize(o)
    BY <1>4, AskInvLemma DEF Synthesize, Active, IInv, AskInv, AsksWithEvidence
<1>5. ASSUME NEW a \in Answer, Judge(o, a)
      PROVE  IInv'
    <2>1. phase[o] \in {"synthesis", "repair"} /\ found[o] /\ UNCHANGED found
        BY <1>5 DEF Judge, Answered, IInv, AskInv, AsksWithEvidence
    <2>2. CASE End(o, "raised") /\ UNCHANGED cites
        BY <2>1, <2>2, EndInv DEF Outcomes, IInv, AskInv, AskTypeOK
    <2>3. CASE a = "own" /\ Emit(o, "answered") /\ cites' = [cites EXCEPT ![o] = a]
        <3>1. PICK how \in {"conflict", "answered"} : End(o, how)
            BY <2>3 DEF Emit
        <3>2. cites' \in [Ops -> Answer] /\ cites'[o] = "own" /\ \A u \in Ops \ {o} : cites'[u] = cites[u]
            BY <2>3 DEF Answer, IInv, AskInv, AskTypeOK
        <3>3. QED
            BY <2>1, <3>1, <3>2, EndInv DEF Outcomes
    <2>4. CASE Ask(o, "repair") /\ UNCHANGED cites
        BY <2>1, <2>4, AskInvLemma DEF Active
    <2>5. CASE Emit(o, "partial") /\ UNCHANGED cites
        <3>1. PICK how \in {"conflict", "partial"} : End(o, how)
            BY <2>5 DEF Emit
        <3>2. QED
            BY <2>1, <2>5, <3>1, EndInv DEF Outcomes, IInv, AskInv, AskTypeOK
    <2>6. QED
        BY <1>5, <2>2, <2>3, <2>4, <2>5 DEF Judge
<1>6. CASE NoAnswer(o)
    <2>1. PICK how \in {"conflict", "partial", "raised", "cancelled"} : End(o, how)
        BY <1>6 DEF NoAnswer, Emit
    <2>2. QED
        BY <1>6, <2>1, EndInv DEF NoAnswer, Outcomes, IInv, AskInv, AskTypeOK
<1>7. CASE ProviderStep(o) /\ UNCHANGED askVars
    BY <1>7, ProviderStepInv, OnlyProvider DEF IInv
<1>8. QED
    BY <1>1, <1>2, <1>3, <1>4, <1>5, <1>6, <1>7 DEF AskStep

LEMMA NextInv ==
    ASSUME IInv, [Next]_vars
    PROVE  IInv'
<1>1. ASSUME NEW o \in Ops, AskCall(o)
      PROVE  IInv'
    <2>1. ProviderInv'
        BY <1>1 DEF AskCall, IInv, ProviderInv, ProviderTypeOK, QueueInv, SlotsConserved, Owners,
                    BudgetKept, providerVars
    <2>2. AskTypeOK' /\ AsksWithEvidence' /\ AnswerBacked'
        BY <1>1 DEF AskCall, IInv, AskInv, AskTypeOK, AsksWithEvidence, AnswerBacked, Active,
                    Answer, Outcomes
    <2>3. QED
        BY <2>1, <2>2 DEF IInv, AskInv
<1>2. ASSUME NEW o \in Ops, AskStep(o)
      PROVE  IInv'
    BY <1>2, StepInv
<1>3. ASSUME NEW o \in Ops, CutNavigation(o)
      PROVE  IInv'
    BY <1>3, CutOffInv, OnlyProvider DEF CutNavigation, Results, IInv
<1>4. ASSUME NEW o \in Ops, Expire(o)
      PROVE  IInv'
    <2>1. ProviderInv'
        BY <1>4 DEF Expire, IInv, ProviderInv, ProviderTypeOK, QueueInv, SlotsConserved, Owners, BudgetKept
    <2>2. QED
        BY <1>4, <2>1, OnlyProvider DEF Expire
<1>5. ASSUME NEW o \in Ops, Cancelled(o)
      PROVE  IInv'
    BY <1>5, CutOffInv, OnlyProvider DEF Cancelled, Results, IInv
<1>6. CASE Clear
    <2>1. ProviderInv'
        BY <1>6 DEF Clear, IInv, ProviderInv, ProviderTypeOK, QueueInv, SlotsConserved, Owners,
                    BudgetKept, providerVars
    <2>2. AskTypeOK' /\ AsksWithEvidence' /\ AnswerBacked'
        BY <1>6 DEF Clear, IInv, AskInv, AskTypeOK, AsksWithEvidence, AnswerBacked
    <2>3. QED
        BY <2>1, <2>2 DEF IInv, AskInv
<1>7. CASE UNCHANGED vars
    BY <1>7 DEF vars, askVars, providerVars, IInv, ProviderInv, ProviderTypeOK, QueueInv,
                SlotsConserved, Owners, BudgetKept, AskInv, AskTypeOK, AsksWithEvidence, AnswerBacked
<1>8. QED
    BY <1>1, <1>2, <1>3, <1>4, <1>5, <1>6, <1>7 DEF Next

-----------------------------------------------------------------------------
(* The theorems *)

(* The inductive invariant holds in every reachable state. *)
THEOREM AskInvariance == Spec => []IInv
<1>1. AskInit => IInv
    BY InitInv
<1>2. IInv /\ [Next]_vars => IInv'
    BY NextInv
<1>3. QED
    BY <1>1, <1>2, PTL DEF Spec

(* Every slot of the provider is free or has exactly one owner, through    *)
(* waking, timeouts, failures and cancellation of any number of requests   *)
(* (the semaphore around complete() in provider.py).                       *)
THEOREM SlotsNeverLost == Spec => []SlotsConserved
<1>1. IInv => SlotsConserved
    BY DEF IInv, ProviderInv
<1>2. QED
    BY <1>1, AskInvariance, PTL

(* There are never more calls under way than per_provider_concurrency.     *)
THEOREM SlotsSuffice == Spec => [](Cardinality(Owners) <= Slots)
<1>1. IInv => Cardinality(Owners) <= Slots
    BY OwnersFinite, ProviderAssumption
       DEF IInv, ProviderInv, ProviderTypeOK, SlotsConserved, ProviderAssumption
<1>2. QED
    BY <1>1, AskInvariance, PTL

(* A request makes no more physical attempts than its budget, navigation,  *)
(* synthesis, repair and their retries taken together (CallBudget).        *)
THEOREM BudgetNeverExceeded == Spec => []BudgetKept
<1>1. IInv => BudgetKept
    BY DEF IInv, ProviderInv
<1>2. QED
    BY <1>1, AskInvariance, PTL

(* What ask() returns as answered cites its own evidence. *)
THEOREM AnswersAreBacked == Spec => []AnswerBacked
<1>1. IInv => AnswerBacked
    BY DEF IInv, AskInv
<1>2. QED
    BY <1>1, AskInvariance, PTL

(* How a request ends: with a result only while its history is there, with *)
(* an exception only after the provider failed or answered.                *)
EndsWell(o) ==
    /\ outcome'[o] \in {"answered", "partial", "insufficient_evidence"} => ~retired[o]
    /\ outcome'[o] = "raised" => result[o] \in {"response", "timeout", "provider_error", "crash"}

LEMMA EndsAlone ==
    ASSUME IInv, NEW o \in Ops, NEW how, End(o, how)
    PROVE  outcome'[o] = how /\ \A u \in Ops \ {o} : outcome'[u] = outcome[u]
    BY DEF End, IInv, AskInv, AskTypeOK

LEMMA EmitsWell ==
    ASSUME IInv, NEW o \in Ops, NEW status \in {"answered", "partial", "insufficient_evidence"},
           Emit(o, status)
    PROVE  EndsWell(o) /\ \A u \in Ops \ {o} : outcome'[u] = outcome[u]
    BY EndsAlone DEF Emit, EndsWell, IInv, AskInv, AskTypeOK

LEMMA StepsEndWell ==
    ASSUME IInv, NEW o \in Ops, AskStep(o)
    PROVE  \A u \in Ops : outcome'[u] # outcome[u] => EndsWell(u)
<1> DEFINE Good == \A u \in Ops : outcome'[u] # outcome[u] => EndsWell(u)
<1>1. ASSUME UNCHANGED outcome PROVE Good
    BY <1>1 DEF EndsWell
<1>2. ASSUME NEW status \in {"answered", "partial", "insufficient_evidence"}, Emit(o, status)
      PROVE  Good
    <2>1. EndsWell(o) /\ \A u \in Ops \ {o} : outcome'[u] = outcome[u]
        BY <1>2, EmitsWell
    <2>2. QED
        BY <2>1 DEF EndsWell
<1>3. ASSUME NEW how \in {"raised", "conflict", "cancelled"}, End(o, how),
             how = "raised" => result[o] \in {"response", "timeout", "provider_error", "crash"}
      PROVE  Good
    <2>1. outcome'[o] = how /\ \A u \in Ops \ {o} : outcome'[u] = outcome[u]
        BY <1>3, EndsAlone
    <2>2. QED
        BY <1>3, <2>1 DEF EndsWell
<1> SUFFICES Good
    OBVIOUS
<1> HIDE DEF Good
<1>4. ASSUME NEW next, Ask(o, next) PROVE Good
    BY <1>1, <1>2, <1>4 DEF Ask
<1>5. CASE Navigate(o)
    BY <1>1, <1>5 DEF Navigate, askVars
<1>6. CASE NavigationEnds(o)
    BY <1>1, <1>3, <1>6 DEF NavigationEnds
<1>7. CASE Retrieved(o)
    BY <1>1, <1>2, <1>3, <1>7 DEF Retrieved
<1>8. CASE Synthesize(o)
    BY <1>4, <1>8 DEF Synthesize
<1>9. ASSUME NEW a \in Answer, Judge(o, a) PROVE Good
    BY <1>2, <1>3, <1>4, <1>9 DEF Judge, Answered
<1>10. CASE NoAnswer(o)
    BY <1>2, <1>3, <1>10 DEF NoAnswer
<1>11. CASE ProviderStep(o) /\ UNCHANGED askVars
    BY <1>1, <1>11 DEF askVars
<1>12. QED
    BY <1>5, <1>6, <1>7, <1>8, <1>9, <1>10, <1>11 DEF AskStep

LEMMA NextEndsWell ==
    ASSUME IInv, [Next]_vars
    PROVE  \A u \in Ops : outcome'[u] # outcome[u] /\ outcome'[u] # "none" => EndsWell(u)
<1>1. ASSUME NEW o \in Ops, AskCall(o)
      PROVE  \A u \in Ops : outcome'[u] # outcome[u] => outcome'[u] = "none"
    BY <1>1 DEF AskCall, IInv, AskInv, AskTypeOK
<1>2. ASSUME NEW o \in Ops, CutNavigation(o) \/ Expire(o) \/ Cancelled(o)
      PROVE  UNCHANGED outcome
    BY <1>2 DEF CutNavigation, Expire, Cancelled, askVars
<1>3. Clear \/ UNCHANGED vars => UNCHANGED outcome
    BY DEF Clear, vars, askVars
<1>4. QED
    BY <1>1, <1>2, <1>3, StepsEndWell DEF Next

(* No result is returned of a history that was cleared since its snapshot, *)
(* whichever model call the clear fell into.                               *)
THEOREM NothingRetiredReturned == Spec => NothingOfARetiredHistory
<1>1. IInv /\ [Next]_vars =>
        [\A o \in Ops :
            outcome'[o] # outcome[o] /\ outcome'[o] \in {"answered", "partial", "insufficient_evidence"}
                => ~retired[o]]_vars
    BY NextEndsWell DEF EndsWell
<1>2. QED
    BY <1>1, AskInvariance, PTL DEF Spec, NothingOfARetiredHistory

(* A spent budget alone never makes a request raise. *)
THEOREM BudgetRaisesNothing == Spec => BudgetNeverLosesEvidence
<1>1. IInv /\ [Next]_vars =>
        [\A o \in Ops :
            outcome'[o] # outcome[o] /\ outcome'[o] = "raised"
                => result[o] \in {"response", "timeout", "provider_error", "crash"}]_vars
    BY NextEndsWell DEF EndsWell
<1>2. QED
    BY <1>1, AskInvariance, PTL DEF Spec, BudgetNeverLosesEvidence

-----------------------------------------------------------------------------
(* Selection: lists *)

LEMMA PutAdds ==
    ASSUME NEW S, NEW list \in Seq(S), NEW m \in S
    PROVE  Put(list, m) \in Seq(S) /\ ToSet(Put(list, m)) = ToSet(list) \cup {m}
BY OneAdded DEF Put

(* PutAll puts one after the other. *)
LEMMA PutTraced ==
    ASSUME NEW S, NEW list \in Seq(S), NEW more \in Seq(S)
    PROVE  \E r \in [0..Len(more) -> Seq(S)] :
                /\ r[0] = list
                /\ \A k \in 1..Len(more) : r[k] = Put(r[k - 1], more[k])
                /\ PutAll(list, more) = r[Len(more)]
<1> DEFINE n == Len(more)
           step == [p \in Seq(S) \X (1..n) |-> Put(p[1], more[p[2]])]
           Folds(iter) ==
                iter = [t \in SUBSET DOMAIN more |->
                        IF t = {} THEN list
                        ELSE Put(iter[t \ {Max(t)}], more[Max(t)])]
<1>1. n \in Nat /\ DOMAIN more = 1..n /\ list \in Seq(S)
    BY NothingIsList
<1>2. step \in [Seq(S) \X (1..n) -> Seq(S)]
    BY <1>1, PutAdds
<1>3. PutAll(list, more) = (CHOOSE iter : Folds(iter))[1..n]
    BY <1>1 DEF PutAll, FoldLeft, MapThenFoldSet
<1>4. \A a \in Seq(S) : \A k \in 1..n : step[<<a, k>>] = Put(a, more[k])
    OBVIOUS
<1>5. \A t \in SUBSET (1..n) : t # {} => Max(t) \in 1..n
    BY <1>1, MaxInRange
<1> HIDE DEF n, step
<1>6. PICK iter : Folded(iter, n, Seq(S), list, step)
    BY <1>1, <1>2, FoldExists
<1>7. Folds(iter)
    <2>1. \A t \in SUBSET (1..n) : t \ {Max(t)} \in SUBSET (1..n)
        OBVIOUS
    <2>2. \A t \in SUBSET (1..n) : iter[t] \in Seq(S)
        BY <1>6 DEF Folded
    <2>3. ASSUME NEW t \in SUBSET (1..n)
          PROVE  iter[t] = IF t = {} THEN list
                           ELSE Put(iter[t \ {Max(t)}], more[Max(t)])
        <3>1. CASE t = {}
            BY <1>6, <3>1 DEF Folded
        <3>2. CASE t # {}
            <4>1. iter[t] = step[<<iter[t \ {Max(t)}], Max(t)>>]
                BY <1>6, <3>2 DEF Folded
            <4>2. QED
                BY <1>4, <1>5, <2>1, <2>2, <3>2, <4>1
        <3>3. QED
            BY <3>1, <3>2
    <2>4. iter = [t \in SUBSET (1..n) |-> iter[t]]
        BY <1>6 DEF Folded
    <2>5. QED
        BY <1>1, <2>3, <2>4
<1>8. PICK f : f = CHOOSE g : Folds(g)
    OBVIOUS
<1>9. Folds(f)
    <2> HIDE DEF Folds
    <2>1. QED
        BY <1>7, <1>8
<1>10. Follows(f, n, Seq(S), list, step)
    <2>1. f[{}] = list
        BY <1>9
    <2>2. ASSUME NEW t \in SUBSET (1..n), t # {}, f[t \ {Max(t)}] \in Seq(S)
          PROVE  f[t] = step[<<f[t \ {Max(t)}], Max(t)>>]
        <3>1. f[t] = Put(f[t \ {Max(t)}], more[Max(t)])
            BY <1>1, <1>9, <2>2
        <3>2. QED
            BY <1>4, <1>5, <2>2, <3>1
    <2>3. QED
        BY <2>1, <2>2 DEF Follows
<1> HIDE DEF Folds
<1>11. PICK r : Traced(r, n, Seq(S), list, step) /\ r[n] = f[1..n]
    <2>1. LeadsTo(f, n, Seq(S), list, step)
        BY <1>1, <1>2, <1>10, FoldTraced
    <2>2. QED
        BY <2>1 DEF LeadsTo
<1>12. /\ r \in [0..n -> Seq(S)] /\ r[0] = list
       /\ \A k \in 1..n : r[k] = step[<<r[k - 1], k>>]
    BY <1>11 DEF Traced
<1>13. ASSUME NEW k \in 1..n PROVE r[k] = Put(r[k - 1], more[k])
    <2>1. k - 1 \in 0..n
        BY <1>1
    <2>2. r[k - 1] \in Seq(S)
        BY <1>12, <2>1
    <2>3. QED
        BY <1>4, <1>12, <2>2
<1>14. PutAll(list, more) = r[n]
    BY <1>3, <1>8, <1>11
<1>15. QED
    BY <1>12, <1>13, <1>14 DEF n

LEMMA PutAllIs ==
    ASSUME NEW S, NEW list \in Seq(S), NEW more \in Seq(S)
    PROVE  PutAll(list, more) \in Seq(S) /\ ToSet(PutAll(list, more)) = ToSet(list) \cup ToSet(more)
<1> DEFINE n == Len(more)
           upto(k) == {more[i] : i \in 1..k}
<1>1. n \in Nat /\ DOMAIN more = 1..n /\ \A k \in 1..n : more[k] \in S
    OBVIOUS
<1>2. PICK r \in [0..n -> Seq(S)] :
            /\ r[0] = list
            /\ \A k \in 1..n : r[k] = Put(r[k - 1], more[k])
            /\ PutAll(list, more) = r[n]
    BY PutTraced
<1> DEFINE holds == {k \in Nat : k <= n => ToSet(r[k]) = ToSet(list) \cup upto(k)}
<1> HIDE DEF n
<1>3. 0 \in holds
    <2>1. upto(0) = {}
        OBVIOUS
    <2> HIDE DEF upto
    <2>2. QED
        BY <1>2, <2>1
<1>4. ASSUME NEW k \in 1..n, k - 1 \in holds
      PROVE  k \in holds
    <2>1. k - 1 \in 0..n /\ k \in Nat
        BY <1>1
    <2>2. ToSet(r[k - 1]) = ToSet(list) \cup upto(k - 1) /\ r[k - 1] \in Seq(S)
        BY <1>2, <1>4, <2>1
    <2>3. ToSet(r[k]) = ToSet(r[k - 1]) \cup {more[k]}
        <3>1. more[k] \in S /\ r[k] = Put(r[k - 1], more[k]) /\ r[k - 1] \in Seq(S)
            BY <1>1, <1>2, <2>2
        <3>2. PICK before \in Seq(S), m \in S : before = r[k - 1] /\ m = more[k]
            BY <3>1
        <3>3. ToSet(Put(before, m)) = ToSet(before) \cup {m}
            BY PutAdds
        <3>4. QED
            BY <3>1, <3>2, <3>3
    <2>4. upto(k) = upto(k - 1) \cup {more[k]}
        <3>1. 1..k = (1..(k - 1)) \cup {k}
            BY <2>1
        <3>2. QED
            BY <3>1
    <2> HIDE DEF upto
    <2>5. ToSet(r[k]) = ToSet(list) \cup upto(k)
        BY <2>2, <2>3, <2>4
    <2>6. QED
        BY <2>1, <2>5
<1>5. 0..n \subseteq holds
    <2>1. holds \in SUBSET Nat
        OBVIOUS
    <2> HIDE DEF holds
    <2>2. QED
        BY <1>1, <1>3, <1>4, <2>1, UpTo
<1>6. n \in holds /\ n \in 0..n
    BY <1>1, <1>5
<1>7. upto(n) = ToSet(more)
    BY <1>1 DEF ToSet
<1> HIDE DEF upto
<1>8. ToSet(r[n]) = ToSet(list) \cup ToSet(more) /\ r[n] \in Seq(S)
    BY <1>6, <1>7
<1>9. QED
    BY <1>2, <1>8

LEMMA OnlyIs ==
    ASSUME NEW S, NEW list \in Seq(S), NEW set
    PROVE  Only(set, list) \in Seq(S) /\ ToSet(Only(set, list)) = set \cap ToSet(list)
<1> DEFINE parts == [i \in DOMAIN list |-> IF list[i] \in set THEN <<list[i]>> ELSE <<>>]
<1>1. PICK n : n = Len(list)
    OBVIOUS
<1>2. n \in Nat /\ DOMAIN list = 1..n /\ \A i \in 1..n : list[i] \in S
    BY <1>1
<1>3. \A i \in 1..n : /\ parts[i] \in Seq(S)
                      /\ ToSet(parts[i]) = IF list[i] \in set THEN {list[i]} ELSE {}
    BY <1>2, Single, NothingIsList
<1>4. parts = [i \in 1..n |-> parts[i]]
    BY <1>2
<1> HIDE DEF parts
<1>5. parts \in Seq(Seq(S)) /\ DOMAIN parts = 1..n
    <2>1. parts \in [1..n -> Seq(S)]
        BY <1>3, <1>4
    <2>2. QED
        BY <1>2, <2>1, IsList
<1>6. FlattenSeq(parts) \in Seq(S)
    BY <1>5, Flattened
<1>7. ToSet(FlattenSeq(parts)) = UNION {ToSet(parts[i]) : i \in 1..n}
    BY <1>5, Flattened
<1>8. UNION {ToSet(parts[i]) : i \in 1..n} = set \cap ToSet(list)
    <2>1. ToSet(list) = {list[i] : i \in 1..n}
        BY <1>2 DEF ToSet
    <2>2. ASSUME NEW x PROVE x \in UNION {ToSet(parts[i]) : i \in 1..n} <=>
                                \E i \in 1..n : x \in ToSet(parts[i])
        OBVIOUS
    <2>3. ASSUME NEW x PROVE (\E i \in 1..n : x \in ToSet(parts[i])) <=>
                                x \in set /\ \E i \in 1..n : x = list[i]
        BY <1>3
    <2>4. QED
        BY <2>1, <2>2, <2>3
<1>9. QED
    BY <1>6, <1>7, <1>8 DEF Only, parts

LEMMA NewestIs ==
    ASSUME NEW set \in SUBSET Messages
    PROVE  NewestFirst(set) \in Seq(Messages) /\ ToSet(NewestFirst(set)) = set
<1> DEFINE all == [i \in Messages |-> LastSeq + 1 - i]
<1>1. LastSeq \in Nat /\ Messages = 1..LastSeq
    BY SelectionAssumption DEF Messages
<1>2. \A i \in Messages : LastSeq + 1 - i \in Messages /\ LastSeq + 1 - (LastSeq + 1 - i) = i
    BY <1>1
<1>3. all \in Seq(Messages) /\ DOMAIN all = Messages
    BY <1>1, <1>2
<1>4. ToSet(all) = Messages
    BY <1>2, <1>3 DEF ToSet
<1> HIDE DEF all
<1>5. Only(set, all) \in Seq(Messages) /\ ToSet(Only(set, all)) = set \cap Messages
    BY <1>3, <1>4, OnlyIs
<1>6. QED
    BY <1>5 DEF NewestFirst, all

LEMMA FirstIs ==
    ASSUME NEW S, NEW list \in Seq(S), NEW n \in Nat
    PROVE  /\ First(list, n) \in Seq(S)
           /\ Len(list) <= n => First(list, n) = list
<1>1. PICK k : k = IF n < Len(list) THEN n ELSE Len(list)
    OBVIOUS
<1>2. k \in 0..Len(list) /\ First(list, n) = SubSeq(list, 1, k)
    BY <1>1 DEF First
<1>3. SubSeq(list, 1, k) \in Seq(S)
    BY <1>2
<1>4. SubSeq(list, 1, Len(list)) = list
    OBVIOUS
<1>5. First(list, n) \in Seq(S)
    BY <1>2, <1>3
<1>6. ASSUME Len(list) <= n PROVE First(list, n) = list
    <2>1. Len(list) \in Nat
        OBVIOUS
    <2>2. k = Len(list)
        BY <1>1, <1>6, <2>1
    <2>3. QED
        BY <1>2, <1>4, <2>2
<1>7. QED
    BY <1>5, <1>6

-----------------------------------------------------------------------------
(* Hits, links and what is ordered from them *)

Pair == [source : Messages, linked : Messages]

LEMMA MessagesFinite ==
    Messages \in SUBSET Nat /\ IsFiniteSet(Messages) /\ MaxMessages \in Nat
<1>1. LastSeq \in Nat /\ MaxMessages \in Nat /\ Messages = 1..LastSeq
    BY SelectionAssumption DEF Messages
<1>2. IsFiniteSet(1..LastSeq)
    BY <1>1, FS_Interval
<1>3. QED
    BY <1>1, <1>2

LEMMA HitsType == Hits \in Seq(Messages)
<1>1. PICK set : set = {m \in Messages : text[m] \in matches}
    OBVIOUS
<1>2. set \in SUBSET Messages
    BY <1>1
<1>3. NewestFirst(set) \in Seq(Messages)
    BY <1>2, NewestIs
<1>4. First(NewestFirst(set), MaxMessages) \in Seq(Messages)
    BY <1>3, MessagesFinite, FirstIs
<1>5. QED
    BY <1>1, <1>4 DEF Hits

LEMMA LinkType ==
    ASSUME NEW linksSoFar \in Seq(Pair), NEW source \in Messages
    PROVE  Link(linksSoFar, source) \in Seq(Pair)
<1> DEFINE later == {m \in Messages :
                       /\ m > source
                       /\ anchor[text[source]] \in mentions[text[m]]
                       /\ text[m] # text[source]
                       /\ \A i \in DOMAIN linksSoFar : linksSoFar[i].linked # m}
<1>1. later \in SUBSET Messages
    OBVIOUS
<1>2. Link(linksSoFar, source) = IF later = {} \/ Len(linksSoFar) >= MaxLinked THEN linksSoFar
                            ELSE Append(linksSoFar, [source |-> source, linked |-> Max(later)])
    BY DEF Link
<1> HIDE DEF later
<1>3. ASSUME later # {}
      PROVE  Append(linksSoFar, [source |-> source, linked |-> Max(later)]) \in Seq(Pair)
    <2>1. IsFiniteSet(later) /\ later \in SUBSET Nat
        BY <1>1, MessagesFinite, FS_Subset
    <2>2. Max(later) \in Messages
        BY <1>1, <1>3, <2>1, MaxOfFinite
    <2>3. [source |-> source, linked |-> Max(later)] \in Pair
        BY <2>2 DEF Pair
    <2>4. QED
        BY <2>3, OneAdded
<1>4. QED
    BY <1>2, <1>3

(* linked_corrections takes one hit after the other. *)
LEMMA LinkTraced ==
    ASSUME NEW list \in Seq(Messages)
    PROVE  \E r \in [0..Len(list) -> Seq(Pair)] :
                /\ r[0] = <<>>
                /\ \A k \in 1..Len(list) : r[k] = Link(r[k - 1], list[k])
                /\ FoldLeft(Link, <<>>, list) = r[Len(list)]
<1> DEFINE n == Len(list)
           step == [p \in Seq(Pair) \X (1..n) |-> Link(p[1], list[p[2]])]
           Folds(iter) ==
                iter = [t \in SUBSET DOMAIN list |->
                        IF t = {} THEN <<>>
                        ELSE Link(iter[t \ {Max(t)}], list[Max(t)])]
<1>1. n \in Nat /\ DOMAIN list = 1..n /\ <<>> \in Seq(Pair)
    BY NothingIsList
<1>2. step \in [Seq(Pair) \X (1..n) -> Seq(Pair)]
    BY <1>1, LinkType
<1>3. FoldLeft(Link, <<>>, list) = (CHOOSE iter : Folds(iter))[1..n]
    BY <1>1 DEF FoldLeft, MapThenFoldSet
<1>4. \A a \in Seq(Pair) : \A k \in 1..n : step[<<a, k>>] = Link(a, list[k])
    OBVIOUS
<1>5. \A t \in SUBSET (1..n) : t # {} => Max(t) \in 1..n
    BY <1>1, MaxInRange
<1> HIDE DEF n, step
<1>6. PICK iter : Folded(iter, n, Seq(Pair), <<>>, step)
    BY <1>1, <1>2, FoldExists
<1>7. Folds(iter)
    <2>1. \A t \in SUBSET (1..n) : t \ {Max(t)} \in SUBSET (1..n)
        OBVIOUS
    <2>2. \A t \in SUBSET (1..n) : iter[t] \in Seq(Pair)
        BY <1>6 DEF Folded
    <2>3. ASSUME NEW t \in SUBSET (1..n)
          PROVE  iter[t] = IF t = {} THEN <<>>
                           ELSE Link(iter[t \ {Max(t)}], list[Max(t)])
        <3>1. CASE t = {}
            BY <1>6, <3>1 DEF Folded
        <3>2. CASE t # {}
            <4>1. iter[t] = step[<<iter[t \ {Max(t)}], Max(t)>>]
                BY <1>6, <3>2 DEF Folded
            <4>2. QED
                BY <1>4, <1>5, <2>1, <2>2, <3>2, <4>1
        <3>3. QED
            BY <3>1, <3>2
    <2>4. iter = [t \in SUBSET (1..n) |-> iter[t]]
        BY <1>6 DEF Folded
    <2>5. QED
        BY <1>1, <2>3, <2>4
<1>8. PICK f : f = CHOOSE g : Folds(g)
    OBVIOUS
<1>9. Folds(f)
    <2> HIDE DEF Folds
    <2>1. QED
        BY <1>7, <1>8
<1>10. Follows(f, n, Seq(Pair), <<>>, step)
    <2>1. f[{}] = <<>>
        BY <1>9
    <2>2. ASSUME NEW t \in SUBSET (1..n), t # {}, f[t \ {Max(t)}] \in Seq(Pair)
          PROVE  f[t] = step[<<f[t \ {Max(t)}], Max(t)>>]
        <3>1. f[t] = Link(f[t \ {Max(t)}], list[Max(t)])
            BY <1>1, <1>9, <2>2
        <3>2. QED
            BY <1>4, <1>5, <2>2, <3>1
    <2>3. QED
        BY <2>1, <2>2 DEF Follows
<1> HIDE DEF Folds
<1>11. PICK r : Traced(r, n, Seq(Pair), <<>>, step) /\ r[n] = f[1..n]
    <2>1. LeadsTo(f, n, Seq(Pair), <<>>, step)
        BY <1>1, <1>2, <1>10, FoldTraced
    <2>2. QED
        BY <2>1 DEF LeadsTo
<1>12. /\ r \in [0..n -> Seq(Pair)] /\ r[0] = <<>>
       /\ \A k \in 1..n : r[k] = step[<<r[k - 1], k>>]
    BY <1>11 DEF Traced
<1>13. ASSUME NEW k \in 1..n PROVE r[k] = Link(r[k - 1], list[k])
    <2>1. k - 1 \in 0..n
        BY <1>1
    <2>2. r[k - 1] \in Seq(Pair)
        BY <1>12, <2>1
    <2>3. QED
        BY <1>4, <1>12, <2>2
<1>14. FoldLeft(Link, <<>>, list) = r[n]
    BY <1>3, <1>8, <1>11
<1>15. QED
    BY <1>12, <1>13, <1>14 DEF n

LEMMA PairsType ==
    ASSUME NEW list \in Seq(Messages)
    PROVE  Pairs(list) \in Seq(Pair)
<1>1. PICK tops : tops = First(list, 4)
    OBVIOUS
<1>2. tops \in Seq(Messages)
    BY <1>1, FirstIs
<1>3. PICK r \in [0..Len(tops) -> Seq(Pair)] : FoldLeft(Link, <<>>, tops) = r[Len(tops)]
    BY <1>2, LinkTraced
<1>4. Len(tops) \in 0..Len(tops)
    BY <1>2
<1>5. QED
    BY <1>1, <1>3, <1>4 DEF Pairs

LEMMA LinkedToType ==
    ASSUME NEW links \in Seq(Pair), NEW m
    PROVE  LinkedTo(links, m) \in Seq(Messages)
<1>1. PICK same : same = Only({pair \in ToSet(links) : text[pair.source] = text[m]}, links)
    OBVIOUS
<1>2. same \in Seq(Pair)
    BY <1>1, OnlyIs
<1>3. PICK n : n = Len(same)
    OBVIOUS
<1>4. n \in Nat /\ DOMAIN same = 1..n /\ \A i \in 1..n : same[i] \in Pair
    BY <1>2, <1>3
<1>5. \A i \in 1..n : same[i].linked \in Messages
    BY <1>4 DEF Pair
<1>6. [i \in DOMAIN same |-> same[i].linked] \in Seq(Messages)
    BY <1>4, <1>5, IsList
<1>7. QED
    BY <1>1, <1>6 DEF LinkedTo

LEMMA LexicalIs ==
    ASSUME NEW list \in Seq(Messages), NEW links \in Seq(Pair)
    PROVE  /\ Lexical(list, links) \in Seq(Messages)
           /\ \A m \in ToSet(list) : ToSet(LinkedTo(links, m)) \subseteq ToSet(Lexical(list, links))
<1> DEFINE parts == [i \in DOMAIN list |-> <<list[i]>> \o LinkedTo(links, list[i])]
<1>1. PICK n : n = Len(list)
    OBVIOUS
<1>2. n \in Nat /\ DOMAIN list = 1..n /\ \A i \in 1..n : list[i] \in Messages
    BY <1>1
<1>3. ASSUME NEW i \in 1..n
      PROVE  parts[i] \in Seq(Messages) /\ ToSet(LinkedTo(links, list[i])) \subseteq ToSet(parts[i])
    <2>1. PICK m \in Messages : m = list[i]
        BY <1>2
    <2>2. <<m>> \in Seq(Messages) /\ LinkedTo(links, m) \in Seq(Messages)
        BY Single, LinkedToType
    <2>3. parts[i] = <<m>> \o LinkedTo(links, m)
        BY <1>2, <2>1
    <2>4. PICK a \in Seq(Messages), b \in Seq(Messages) : a = <<m>> /\ b = LinkedTo(links, m)
        BY <2>2
    <2>5. a \o b \in Seq(Messages) /\ ToSet(a \o b) = ToSet(a) \cup ToSet(b)
        BY Joined
    <2> HIDE DEF parts
    <2>6. QED
        BY <2>1, <2>3, <2>4, <2>5
<1>4. parts = [i \in 1..n |-> parts[i]]
    BY <1>2
<1>5. Lexical(list, links) = PutAll(<<>>, FlattenSeq(parts))
    BY DEF Lexical
<1> HIDE DEF parts
<1>6. parts \in Seq(Seq(Messages)) /\ DOMAIN parts = 1..n
    <2>1. parts \in [1..n -> Seq(Messages)]
        BY <1>3, <1>4
    <2>2. QED
        BY <1>2, <2>1, IsList
<1>7. /\ FlattenSeq(parts) \in Seq(Messages)
      /\ ToSet(FlattenSeq(parts)) = UNION {ToSet(parts[i]) : i \in 1..n}
    BY <1>6, Flattened
<1>8. /\ Lexical(list, links) \in Seq(Messages)
      /\ ToSet(Lexical(list, links)) = UNION {ToSet(parts[i]) : i \in 1..n}
    <2>1. PICK more \in Seq(Messages) : more = FlattenSeq(parts)
        BY <1>7
    <2>2. <<>> \in Seq(Messages) /\ ToSet(<<>>) = {}
        BY NothingIsList
    <2>3. PICK empty \in Seq(Messages) : empty = <<>>
        BY <2>2
    <2>4. PutAll(empty, more) \in Seq(Messages) /\ ToSet(PutAll(empty, more)) = ToSet(empty) \cup ToSet(more)
        BY PutAllIs
    <2>5. QED
        BY <1>5, <1>7, <2>1, <2>2, <2>3, <2>4
<1>9. ASSUME NEW m \in ToSet(list)
      PROVE  ToSet(LinkedTo(links, m)) \subseteq UNION {ToSet(parts[i]) : i \in 1..n}
    <2>1. PICK i \in 1..n : m = list[i]
        BY <1>2 DEF ToSet
    <2>2. QED
        BY <1>3, <2>1
<1>10. QED
    BY <1>8, <1>9

-----------------------------------------------------------------------------
(* What is kept of a list when there is room for some of it *)

LEMMA KeepType ==
    ASSUME NEW kept \in Seq(Messages), NEW m \in Messages
    PROVE  /\ Keep(kept, m) \in Seq(Messages)
           /\ \/ Keep(kept, m) = kept
              \/ /\ Len(Keep(kept, m)) = Len(kept) + 1
                 /\ ToSet(Keep(kept, m)) = ToSet(kept) \cup {m}
BY OneAdded DEF Keep

(* Evidence is kept item by item. *)
LEMMA KeepTraced ==
    ASSUME NEW list \in Seq(Messages)
    PROVE  \E r \in [0..Len(list) -> Seq(Messages)] :
                /\ r[0] = <<>>
                /\ \A k \in 1..Len(list) : r[k] = Keep(r[k - 1], list[k])
                /\ Bounded(list) = r[Len(list)]
<1> DEFINE n == Len(list)
           step == [p \in Seq(Messages) \X (1..n) |-> Keep(p[1], list[p[2]])]
           Folds(iter) ==
                iter = [t \in SUBSET DOMAIN list |->
                        IF t = {} THEN <<>>
                        ELSE Keep(iter[t \ {Max(t)}], list[Max(t)])]
<1>1. n \in Nat /\ DOMAIN list = 1..n /\ <<>> \in Seq(Messages)
    BY NothingIsList
<1>2. step \in [Seq(Messages) \X (1..n) -> Seq(Messages)]
    BY <1>1, KeepType
<1>3. Bounded(list) = (CHOOSE iter : Folds(iter))[1..n]
    BY <1>1 DEF Bounded, FoldLeft, MapThenFoldSet
<1>4. \A a \in Seq(Messages) : \A k \in 1..n : step[<<a, k>>] = Keep(a, list[k])
    OBVIOUS
<1>5. \A t \in SUBSET (1..n) : t # {} => Max(t) \in 1..n
    BY <1>1, MaxInRange
<1> HIDE DEF n, step
<1>6. PICK iter : Folded(iter, n, Seq(Messages), <<>>, step)
    BY <1>1, <1>2, FoldExists
<1>7. Folds(iter)
    <2>1. \A t \in SUBSET (1..n) : t \ {Max(t)} \in SUBSET (1..n)
        OBVIOUS
    <2>2. \A t \in SUBSET (1..n) : iter[t] \in Seq(Messages)
        BY <1>6 DEF Folded
    <2>3. ASSUME NEW t \in SUBSET (1..n)
          PROVE  iter[t] = IF t = {} THEN <<>>
                           ELSE Keep(iter[t \ {Max(t)}], list[Max(t)])
        <3>1. CASE t = {}
            BY <1>6, <3>1 DEF Folded
        <3>2. CASE t # {}
            <4>1. iter[t] = step[<<iter[t \ {Max(t)}], Max(t)>>]
                BY <1>6, <3>2 DEF Folded
            <4>2. QED
                BY <1>4, <1>5, <2>1, <2>2, <3>2, <4>1
        <3>3. QED
            BY <3>1, <3>2
    <2>4. iter = [t \in SUBSET (1..n) |-> iter[t]]
        BY <1>6 DEF Folded
    <2>5. QED
        BY <1>1, <2>3, <2>4
<1>8. PICK f : f = CHOOSE g : Folds(g)
    OBVIOUS
<1>9. Folds(f)
    <2> HIDE DEF Folds
    <2>1. QED
        BY <1>7, <1>8
<1>10. Follows(f, n, Seq(Messages), <<>>, step)
    <2>1. f[{}] = <<>>
        BY <1>9
    <2>2. ASSUME NEW t \in SUBSET (1..n), t # {}, f[t \ {Max(t)}] \in Seq(Messages)
          PROVE  f[t] = step[<<f[t \ {Max(t)}], Max(t)>>]
        <3>1. f[t] = Keep(f[t \ {Max(t)}], list[Max(t)])
            BY <1>1, <1>9, <2>2
        <3>2. QED
            BY <1>4, <1>5, <2>2, <3>1
    <2>3. QED
        BY <2>1, <2>2 DEF Follows
<1> HIDE DEF Folds
<1>11. PICK r : Traced(r, n, Seq(Messages), <<>>, step) /\ r[n] = f[1..n]
    <2>1. LeadsTo(f, n, Seq(Messages), <<>>, step)
        BY <1>1, <1>2, <1>10, FoldTraced
    <2>2. QED
        BY <2>1 DEF LeadsTo
<1>12. /\ r \in [0..n -> Seq(Messages)] /\ r[0] = <<>>
       /\ \A k \in 1..n : r[k] = step[<<r[k - 1], k>>]
    BY <1>11 DEF Traced
<1>13. ASSUME NEW k \in 1..n PROVE r[k] = Keep(r[k - 1], list[k])
    <2>1. k - 1 \in 0..n
        BY <1>1
    <2>2. r[k - 1] \in Seq(Messages)
        BY <1>12, <2>1
    <2>3. QED
        BY <1>4, <1>12, <2>2
<1>14. Bounded(list) = r[n]
    BY <1>3, <1>8, <1>11
<1>15. QED
    BY <1>12, <1>13, <1>14 DEF n

(* What is as long as before has everything that was there before.         *)
LEMMA BoundedIs ==
    ASSUME NEW list \in Seq(Messages)
    PROVE  /\ Bounded(list) \in Seq(Messages)
           /\ ToSet(Bounded(list)) \subseteq ToSet(list)
           /\ Len(Bounded(list)) < Len(list) \/ ToSet(Bounded(list)) = ToSet(list)
<1> DEFINE upto(k) == {list[i] : i \in 1..k}
<1>1. PICK n : n = Len(list)
    OBVIOUS
<1>2. n \in Nat /\ DOMAIN list = 1..n /\ \A k \in 1..n : list[k] \in Messages
    BY <1>1
<1>3. PICK r \in [0..n -> Seq(Messages)] :
            /\ r[0] = <<>>
            /\ \A k \in 1..n : r[k] = Keep(r[k - 1], list[k])
            /\ Bounded(list) = r[n]
    BY <1>1, KeepTraced
<1> DEFINE holds == {k \in Nat : k <= n =>
                        /\ ToSet(r[k]) \subseteq upto(k) /\ Len(r[k]) <= k
                        /\ Len(r[k]) = k => ToSet(r[k]) = upto(k)}
<1>4. 0 \in holds
    <2>1. ToSet(r[0]) = {} /\ Len(r[0]) = 0
        BY <1>3, NothingIsList
    <2>2. upto(0) = {}
        OBVIOUS
    <2> HIDE DEF upto
    <2>3. /\ ToSet(r[0]) \subseteq upto(0) /\ Len(r[0]) <= 0
          /\ ToSet(r[0]) = upto(0)
        BY <2>1, <2>2
    <2>4. QED
        BY <2>3
<1>5. ASSUME NEW k \in 1..n, k - 1 \in holds
      PROVE  k \in holds
    <2>1. k - 1 \in 0..n /\ k \in Nat
        BY <1>2
    <2>2. PICK before \in Seq(Messages), m \in Messages : before = r[k - 1] /\ m = list[k]
        BY <1>2, <1>3, <2>1
    <2>3. upto(k) = upto(k - 1) \cup {m}
        <3>1. 1..k = (1..(k - 1)) \cup {k}
            BY <2>1
        <3>2. QED
            BY <2>2, <3>1
    <2> HIDE DEF upto
    <2>4. /\ ToSet(before) \subseteq upto(k - 1) /\ Len(before) <= k - 1
          /\ Len(before) = k - 1 => ToSet(before) = upto(k - 1)
        BY <1>5, <2>1, <2>2
    <2>5. PICK after \in Seq(Messages) : after = Keep(before, m)
        BY KeepType
    <2>6. \/ after = before
          \/ Len(after) = Len(before) + 1 /\ ToSet(after) = ToSet(before) \cup {m}
        BY <2>5, KeepType
    <2>7. Len(before) \in Nat /\ Len(after) \in Nat
        OBVIOUS
    <2>8. /\ ToSet(after) \subseteq upto(k) /\ Len(after) <= k
          /\ Len(after) = k => ToSet(after) = upto(k)
        <3>1. CASE after = before
            BY <2>1, <2>3, <2>4, <2>7, <3>1
        <3>2. CASE Len(after) = Len(before) + 1 /\ ToSet(after) = ToSet(before) \cup {m}
            BY <2>1, <2>3, <2>4, <2>7, <3>2
        <3>3. QED
            BY <2>6, <3>1, <3>2
    <2>9. r[k] = after
        BY <1>3, <2>2, <2>5
    <2>10. QED
        BY <2>1, <2>8, <2>9
<1>6. 0..n \subseteq holds
    <2>1. holds \in SUBSET Nat
        OBVIOUS
    <2> HIDE DEF holds
    <2>2. QED
        BY <1>2, <1>4, <1>5, <2>1, UpTo
<1>7. n \in holds /\ n \in 0..n
    <2>1. n \in 0..n
        BY <1>2
    <2>2. n \in holds
        BY <1>6, <2>1
    <2>3. QED
        BY <2>1, <2>2
<1>8. upto(n) = ToSet(list)
    BY <1>2 DEF ToSet
<1> HIDE DEF upto
<1>9. /\ ToSet(r[n]) \subseteq ToSet(list) /\ Len(r[n]) <= n
      /\ Len(r[n]) = n => ToSet(r[n]) = ToSet(list)
    BY <1>7, <1>8
<1>10. r[n] \in Seq(Messages) /\ Len(r[n]) \in Nat
    BY <1>7
<1>11. QED
    BY <1>1, <1>2, <1>3, <1>9, <1>10

-----------------------------------------------------------------------------
(* What is found and what is returned *)

SelectionInv ==
    /\ stage \in {"search", "order", "pack", "done"}
    /\ stage # "search" => hits \in Seq(Messages) /\ pairs \in Seq(Pair)
    /\ stage \in {"pack", "done"} => evidence \in Seq(Messages)
    /\ SeparationReported

LEMMA RetrieveSeparates ==
    ASSUME hits \in Seq(Messages), pairs \in Seq(Pair), Retrieve
    PROVE  /\ evidence' \in Seq(Messages)
           /\ \A m \in ToSet(hits) \cap ToSet(evidence') :
                ToSet(LinkedTo(pairs, m)) \subseteq ToSet(evidence') \/ limited'
<1>1. PICK chunk \in {<<>>} \cup {<<m>> : m \in Messages} :
            LET offered == PutAll(First(Lexical(hits, pairs), MaxMessages), chunk)
            IN /\ evidence' = Bounded(offered)
               /\ limited' = Limited(hits, pairs, Bounded(offered), offered)
    BY DEF Retrieve
<1>2. chunk \in Seq(Messages)
    <2>1. CASE chunk = <<>>
        BY <2>1, NothingIsList
    <2>2. CASE chunk # <<>>
        <3>1. PICK m \in Messages : chunk = <<m>>
            BY <1>1, <2>2
        <3>2. QED
            BY <3>1, Single
    <2>3. QED
        BY <2>1, <2>2
<1>3. PICK lexical : lexical = Lexical(hits, pairs)
    OBVIOUS
<1>4. /\ lexical \in Seq(Messages)
      /\ \A m \in ToSet(hits) : ToSet(LinkedTo(pairs, m)) \subseteq ToSet(lexical)
    BY <1>3, LexicalIs
<1>5. PICK first : first = First(lexical, MaxMessages)
    OBVIOUS
<1>6. first \in Seq(Messages) /\ (Len(lexical) <= MaxMessages => first = lexical)
    BY <1>4, <1>5, MessagesFinite, FirstIs
<1>7. PICK offered : offered = PutAll(first, chunk)
    OBVIOUS
<1>8. offered \in Seq(Messages) /\ ToSet(first) \subseteq ToSet(offered)
    BY <1>2, <1>6, <1>7, PutAllIs
<1>9. PICK kept : kept = Bounded(offered)
    OBVIOUS
<1>10. /\ kept \in Seq(Messages)
       /\ Len(kept) < Len(offered) \/ ToSet(kept) = ToSet(offered)
    BY <1>8, <1>9, BoundedIs
<1>11. evidence' = kept /\ limited' = Limited(hits, pairs, kept, offered)
    BY <1>1, <1>3, <1>5, <1>7, <1>9
<1>12. ASSUME ~limited', NEW m \in ToSet(hits)
       PROVE  ToSet(LinkedTo(pairs, m)) \subseteq ToSet(kept)
    <2>1. ~(Len(lexical) > MaxMessages) /\ ~(Len(kept) < Len(offered))
        BY <1>3, <1>11, <1>12 DEF Limited
    <2>2. Len(lexical) \in Nat /\ MaxMessages \in Nat
        BY <1>4, MessagesFinite
    <2>3. first = lexical /\ ToSet(kept) = ToSet(offered)
        BY <1>6, <1>10, <2>1, <2>2
    <2>4. QED
        BY <1>4, <1>8, <2>3
<1>13. QED
    BY <1>10, <1>11, <1>12

LEMMA SelectionInvHolds == SelectionSpec => []SelectionInv
<1>1. SelectionInit => SelectionInv
    BY DEF SelectionInit, SelectionInv, SeparationReported
<1>2. SelectionInv /\ [SelectionNext]_selectionVars => SelectionInv'
    <2> SUFFICES ASSUME SelectionInv, [SelectionNext]_selectionVars
                 PROVE  SelectionInv'
        OBVIOUS
    <2>1. CASE Search
        <3>1. stage' = "order" /\ hits' \in Seq(Messages) /\ pairs' \in Seq(Pair)
            BY <2>1, HitsType, PairsType DEF Search
        <3>2. QED
            BY <3>1 DEF SelectionInv, SeparationReported
    <2>2. CASE Retrieve
        <3>1. stage = "order" /\ stage' = "pack" /\ UNCHANGED <<corpus, hits, pairs>>
            BY <2>2 DEF Retrieve
        <3>2. hits \in Seq(Messages) /\ pairs \in Seq(Pair)
            BY <3>1 DEF SelectionInv
        <3>3. /\ evidence' \in Seq(Messages)
              /\ \A m \in ToSet(hits) \cap ToSet(evidence') :
                    ToSet(LinkedTo(pairs, m)) \subseteq ToSet(evidence') \/ limited'
            BY <2>2, <3>2, RetrieveSeparates
        <3>4. \A m : LinkedTo(pairs, m)' = LinkedTo(pairs, m)
            BY <3>1 DEF LinkedTo, corpus
        <3>5. SeparationReported'
            BY <3>1, <3>3, <3>4 DEF SeparationReported
        <3>6. QED
            BY <3>1, <3>2, <3>3, <3>5 DEF SelectionInv
    <2>3. CASE Prepare
        <3>1. stage = "pack" /\ stage' = "done" /\ UNCHANGED <<corpus, hits, pairs, evidence, limited>>
            BY <2>3 DEF Prepare
        <3>2. \A m : LinkedTo(pairs, m)' = LinkedTo(pairs, m)
            BY <3>1 DEF LinkedTo, corpus
        <3>3. SeparationReported'
            BY <3>1, <3>2 DEF SelectionInv, SeparationReported
        <3>4. QED
            BY <3>1, <3>3 DEF SelectionInv
    <2>4. CASE UNCHANGED selectionVars
        <3>1. UNCHANGED <<stage, corpus, hits, pairs, evidence, limited>>
            BY <2>4 DEF selectionVars, corpus
        <3>2. \A m : LinkedTo(pairs, m)' = LinkedTo(pairs, m)
            BY <3>1 DEF LinkedTo, corpus
        <3>3. SeparationReported'
            BY <3>1, <3>2 DEF SelectionInv, SeparationReported
        <3>4. QED
            BY <3>1, <3>3 DEF SelectionInv
    <2>5. QED
        BY <2>1, <2>2, <2>3, <2>4 DEF SelectionNext
<1>3. QED
    BY <1>1, <1>2, PTL DEF SelectionSpec

(* A hit that is returned without a later mention that was found for it is *)
(* never presented as full coverage, for histories of any length, any      *)
(* texts and links, and any limits.  retrieve.py: coverage_limited.        *)
THEOREM SeparationsReported == SelectionSpec => []SeparationReported
<1>1. SelectionInv => SeparationReported
    BY DEF SelectionInv
<1>2. QED
    BY <1>1, SelectionInvHolds, PTL

-----------------------------------------------------------------------------
(* What is packed together *)

Pack == [admitted : SUBSET Messages, considered : SUBSET Messages]

(* What does not fit into a pack does not fit when more is in it.          *)
LEMMA FullStaysFull ==
    ASSUME NEW more \in SUBSET Messages, NEW chosen \in SUBSET more, NEW m \in Messages,
           Fits(more, {m})
    PROVE  Fits(chosen, {m})
<1> DEFINE lengthy(set) == {x \in set : text[x] \in long}
<1>1. IsFiniteSet(more) /\ IsFiniteSet(lengthy(more))
    BY MessagesFinite, FS_Subset
<1>2. /\ IsFiniteSet(chosen) /\ IsFiniteSet(lengthy(chosen))
      /\ Cardinality(chosen) <= Cardinality(more)
      /\ Cardinality(lengthy(chosen)) <= Cardinality(lengthy(more))
    <2>1. lengthy(chosen) \subseteq lengthy(more)
        OBVIOUS
    <2> HIDE DEF lengthy
    <2>2. QED
        BY <1>1, <2>1, FS_Subset
<1>3. IsFiniteSet({m}) /\ IsFiniteSet(lengthy({m}))
    <2>1. lengthy({m}) \subseteq {m} /\ IsFiniteSet({m})
        BY FS_Singleton
    <2> HIDE DEF lengthy
    <2>2. QED
        BY <2>1, FS_Subset
<1>4. /\ Cardinality(chosen) \in Nat /\ Cardinality(more) \in Nat
      /\ Cardinality(lengthy(chosen)) \in Nat /\ Cardinality(lengthy(more)) \in Nat
      /\ Cardinality({m}) \in Nat /\ Cardinality(lengthy({m})) \in Nat
    <2> HIDE DEF lengthy
    <2>1. QED
        BY <1>1, <1>2, <1>3, FS_CardinalityType
<1>5. /\ Cardinality(more) + Cardinality({m}) <= MaxMessages
      /\ Cardinality(more) + Cardinality(lengthy(more))
            + (Cardinality({m}) + Cardinality(lengthy({m}))) <= MaxRoom
    BY DEF Fits, RoomOf
<1>6. MaxMessages \in Nat /\ MaxRoom \in Nat
    BY SelectionAssumption
<1> DEFINE roomOf(set) == Cardinality(set) + Cardinality(lengthy(set))
<1>7. /\ Cardinality(chosen) + Cardinality({m}) <= MaxMessages
      /\ roomOf(chosen) + roomOf({m}) <= MaxRoom
    <2> HIDE DEF lengthy
    <2>1. QED
        BY <1>2, <1>4, <1>5, <1>6
<1>8. QED
    BY <1>7 DEF Fits, RoomOf

(* A pack with as many messages as it may have takes no other.             *)
LEMMA NothingFitsTheFull ==
    ASSUME NEW chosen \in SUBSET Messages, Cardinality(chosen) >= MaxMessages, NEW m
    PROVE  ~Fits(chosen, {m})
<1>1. IsFiniteSet(chosen) /\ Cardinality(chosen) \in Nat
    BY MessagesFinite, FS_Subset, FS_CardinalityType
<1>2. Cardinality({m}) = 1 /\ MaxMessages \in Nat
    BY FS_Singleton, SelectionAssumption
<1>3. QED
    BY <1>1, <1>2 DEF Fits

LEMMA AdmitIs ==
    ASSUME NEW pack \in Pack, NEW more \in SUBSET Messages
    PROVE  /\ Admit(pack, more) \in Pack
           /\ Admit(pack, more).considered = pack.considered
           /\ \/ Admit(pack, more) = pack /\ ~Fits(pack.admitted, more)
              \/ Admit(pack, more).admitted = pack.admitted \cup more
BY DEF Admit, Pack

(* Messages are admitted one after the other. *)
LEMMA AdmitTraced ==
    ASSUME NEW pack \in Pack, NEW list \in Seq(Messages)
    PROVE  \E r \in [0..Len(list) -> Pack] :
                /\ r[0] = pack
                /\ \A k \in 1..Len(list) : r[k] = Admit(r[k - 1], {list[k]})
                /\ AdmitEach(pack, list) = r[Len(list)]
<1> DEFINE n == Len(list)
           step == [p \in Pack \X (1..n) |-> Admit(p[1], {list[p[2]]})]
           Folds(iter) ==
                iter = [t \in SUBSET DOMAIN list |->
                        IF t = {} THEN pack
                        ELSE Admit(iter[t \ {Max(t)}], {list[Max(t)]})]
<1>1. n \in Nat /\ DOMAIN list = 1..n /\ pack \in Pack
    BY NothingIsList
<1>2. step \in [Pack \X (1..n) -> Pack]
    BY <1>1, AdmitIs
<1>3. AdmitEach(pack, list) = (CHOOSE iter : Folds(iter))[1..n]
    BY <1>1 DEF AdmitEach, FoldLeft, MapThenFoldSet
<1>4. \A a \in Pack : \A k \in 1..n : step[<<a, k>>] = Admit(a, {list[k]})
    OBVIOUS
<1>5. \A t \in SUBSET (1..n) : t # {} => Max(t) \in 1..n
    BY <1>1, MaxInRange
<1> HIDE DEF n, step
<1>6. PICK iter : Folded(iter, n, Pack, pack, step)
    BY <1>1, <1>2, FoldExists
<1>7. Folds(iter)
    <2>1. \A t \in SUBSET (1..n) : t \ {Max(t)} \in SUBSET (1..n)
        OBVIOUS
    <2>2. \A t \in SUBSET (1..n) : iter[t] \in Pack
        BY <1>6 DEF Folded
    <2>3. ASSUME NEW t \in SUBSET (1..n)
          PROVE  iter[t] = IF t = {} THEN pack
                           ELSE Admit(iter[t \ {Max(t)}], {list[Max(t)]})
        <3>1. CASE t = {}
            BY <1>6, <3>1 DEF Folded
        <3>2. CASE t # {}
            <4>1. iter[t] = step[<<iter[t \ {Max(t)}], Max(t)>>]
                BY <1>6, <3>2 DEF Folded
            <4>2. QED
                BY <1>4, <1>5, <2>1, <2>2, <3>2, <4>1
        <3>3. QED
            BY <3>1, <3>2
    <2>4. iter = [t \in SUBSET (1..n) |-> iter[t]]
        BY <1>6 DEF Folded
    <2>5. QED
        BY <1>1, <2>3, <2>4
<1>8. PICK f : f = CHOOSE g : Folds(g)
    OBVIOUS
<1>9. Folds(f)
    <2> HIDE DEF Folds
    <2>1. QED
        BY <1>7, <1>8
<1>10. Follows(f, n, Pack, pack, step)
    <2>1. f[{}] = pack
        BY <1>9
    <2>2. ASSUME NEW t \in SUBSET (1..n), t # {}, f[t \ {Max(t)}] \in Pack
          PROVE  f[t] = step[<<f[t \ {Max(t)}], Max(t)>>]
        <3>1. f[t] = Admit(f[t \ {Max(t)}], {list[Max(t)]})
            BY <1>1, <1>9, <2>2
        <3>2. QED
            BY <1>4, <1>5, <2>2, <3>1
    <2>3. QED
        BY <2>1, <2>2 DEF Follows
<1> HIDE DEF Folds
<1>11. PICK r : Traced(r, n, Pack, pack, step) /\ r[n] = f[1..n]
    <2>1. LeadsTo(f, n, Pack, pack, step)
        BY <1>1, <1>2, <1>10, FoldTraced
    <2>2. QED
        BY <2>1 DEF LeadsTo
<1>12. /\ r \in [0..n -> Pack] /\ r[0] = pack
       /\ \A k \in 1..n : r[k] = step[<<r[k - 1], k>>]
    BY <1>11 DEF Traced
<1>13. ASSUME NEW k \in 1..n PROVE r[k] = Admit(r[k - 1], {list[k]})
    <2>1. k - 1 \in 0..n
        BY <1>1
    <2>2. r[k - 1] \in Pack
        BY <1>12, <2>1
    <2>3. QED
        BY <1>4, <1>12, <2>2
<1>14. AdmitEach(pack, list) = r[n]
    BY <1>3, <1>8, <1>11
<1>15. QED
    BY <1>12, <1>13, <1>14 DEF n

LEMMA AdmitEachIs ==
    ASSUME NEW pack \in Pack, NEW list \in Seq(Messages)
    PROVE  /\ AdmitEach(pack, list) \in Pack
           /\ pack.admitted \subseteq AdmitEach(pack, list).admitted
           /\ AdmitEach(pack, list).admitted \subseteq pack.admitted \cup ToSet(list)
           /\ AdmitEach(pack, list).considered = pack.considered
           /\ \A x \in ToSet(list) :
                \/ x \in AdmitEach(pack, list).admitted
                \/ ~Fits(AdmitEach(pack, list).admitted, {x})
<1>1. PICK n : n = Len(list)
    OBVIOUS
<1>2. n \in Nat /\ DOMAIN list = 1..n /\ \A k \in 1..n : list[k] \in Messages
    BY <1>1
<1>3. \A k \in 1..n : list[k] \in ToSet(list)
    BY <1>2 DEF ToSet
<1>4. PICK r \in [0..n -> Pack] :
            /\ r[0] = pack
            /\ \A k \in 1..n : r[k] = Admit(r[k - 1], {list[k]})
            /\ AdmitEach(pack, list) = r[n]
    BY <1>1, AdmitTraced
<1> DEFINE holds == {k \in Nat : k <= n =>
                        /\ pack.admitted \subseteq r[k].admitted
                        /\ r[k].admitted \subseteq pack.admitted \cup ToSet(list)
                        /\ r[k].considered = pack.considered
                        /\ \A i \in 1..k : \/ list[i] \in r[k].admitted
                                          \/ ~Fits(r[k].admitted, {list[i]})}
<1>5. 0 \in holds
    BY <1>4
<1>6. ASSUME NEW k \in 1..n, k - 1 \in holds
      PROVE  k \in holds
    <2>1. k - 1 \in 0..n /\ k \in Nat
        BY <1>2
    <2>2. PICK before \in Pack, m \in Messages : before = r[k - 1] /\ m = list[k]
        BY <1>2, <1>4, <2>1
    <2>3. /\ pack.admitted \subseteq before.admitted
          /\ before.admitted \subseteq pack.admitted \cup ToSet(list)
        BY <1>6, <2>1, <2>2
    <2>4. r[k] = Admit(before, {m})
        BY <1>4, <2>2
    <2>5. /\ r[k] \in Pack
          /\ r[k].considered = before.considered
          /\ \/ r[k] = before /\ ~Fits(before.admitted, {m})
             \/ r[k].admitted = before.admitted \cup {m}
        <3>1. {m} \in SUBSET Messages
            BY <2>2
        <3>2. QED
            BY <2>4, <3>1, AdmitIs
    <2>6. m \in ToSet(list)
        BY <1>3, <2>2
    <2>7. /\ pack.admitted \subseteq r[k].admitted
          /\ r[k].admitted \subseteq pack.admitted \cup ToSet(list)
          /\ r[k].considered = pack.considered
        BY <1>6, <2>1, <2>2, <2>3, <2>5, <2>6
    <2>8. /\ r[k].admitted \in SUBSET Messages
          /\ before.admitted \in SUBSET r[k].admitted
        BY <2>5 DEF Pack
    <2>9. ASSUME NEW i \in 1..k
          PROVE  list[i] \in r[k].admitted \/ ~Fits(r[k].admitted, {list[i]})
        <3>1. CASE i = k
            BY <2>2, <2>5, <3>1
        <3>2. CASE i # k
            <4>1. i \in 1..(k - 1) /\ list[i] \in Messages
                BY <1>2, <3>2
            <4>2. list[i] \in before.admitted \/ ~Fits(before.admitted, {list[i]})
                BY <1>6, <2>1, <2>2, <4>1
            <4>3. QED
                BY <2>8, <4>1, <4>2, FullStaysFull
        <3>3. QED
            BY <3>1, <3>2
    <2>10. QED
        BY <2>1, <2>7, <2>9
<1>7. 0..n \subseteq holds
    <2>1. holds \in SUBSET Nat
        OBVIOUS
    <2> HIDE DEF holds
    <2>2. QED
        BY <1>2, <1>5, <1>6, <2>1, UpTo
<1> HIDE DEF holds
<1>8. n \in holds /\ n \in 0..n
    BY <1>2, <1>7
<1> USE DEF holds
<1>9. \A x \in ToSet(list) : \E i \in 1..n : x = list[i]
    BY <1>2 DEF ToSet
<1>10. QED
    BY <1>4, <1>8, <1>9

(* Message m is packed, or there is no room for it, or it is a source and  *)
(* may have been left out with its newer statement.                        *)
Settled(links, offered, pack, m) ==
    \/ m \in pack.admitted
    \/ ~Fits(pack.admitted, {m})
    \/ Newer(links, offered, m) # {}

(* Nothing that was considered is left open. *)
NothingOpen(links, offered, pack) ==
    \A m \in pack.considered : Settled(links, offered, pack, m)

(* Every source has its newer statements with it, unless it is itself one. *)
Accompanied(links, offered, chosen) ==
    \A s \in chosen : \/ \E m \in Messages : m # s /\ <<m, s>> \in links
                      \/ Newer(links, offered, s) \subseteq chosen

LEMMA ConsiderIs ==
    ASSUME NEW links, NEW offered \in Seq(Messages), NEW pack \in Pack, NEW m \in Messages
    PROVE  /\ Consider(links, offered, pack, m) \in Pack
           /\ Accompanied(links, offered, pack.admitted) =>
                Accompanied(links, offered, Consider(links, offered, pack, m).admitted)
           /\ pack.admitted \subseteq Consider(links, offered, pack, m).admitted
<1>1. PICK newer, pending, seen, all, after :
            /\ newer = Newer(links, offered, m)
            /\ pending = newer \ pack.admitted
            /\ seen = [pack EXCEPT !.considered = @ \cup {m}]
            /\ all = [pack EXCEPT !.considered = @ \cup {m} \cup pending]
            /\ after = Consider(links, offered, pack, m)
    OBVIOUS
<1>2. \/ after = pack
      \/ after = seen
      \/ after = Admit(all, {m} \cup pending)
      \/ after = AdmitEach(all, NewestFirst(pending))
    BY <1>1 DEF Consider
<1>3. newer \in SUBSET Messages /\ \A k \in newer : k # m /\ <<m, k>> \in links
    <2>1. ToSet(offered) \subseteq Messages
        BY DEF ToSet
    <2>2. QED
        BY <1>1, <2>1 DEF Newer
<1>4. /\ seen \in Pack /\ all \in Pack /\ pending \in SUBSET Messages
      /\ seen.admitted = pack.admitted /\ all.admitted = pack.admitted
    BY <1>1, <1>3 DEF Pack
<1>5. /\ after \in Pack
      /\ \/ pack.admitted \subseteq after.admitted /\ after.admitted \subseteq pack.admitted \cup pending
         \/ after.admitted = pack.admitted \cup {m} \cup pending
    <2>1. CASE after = pack \/ after = seen
        BY <1>4, <2>1
    <2>2. CASE after = Admit(all, {m} \cup pending)
        <3>1. {m} \cup pending \in SUBSET Messages
            BY <1>4
        <3>2. after \in Pack /\ (after = all \/ after.admitted = all.admitted \cup ({m} \cup pending))
            BY <1>4, <2>2, <3>1, AdmitIs
        <3>3. QED
            BY <1>4, <3>2
    <2>3. CASE after = AdmitEach(all, NewestFirst(pending))
        <3>1. NewestFirst(pending) \in Seq(Messages) /\ ToSet(NewestFirst(pending)) = pending
            BY <1>4, NewestIs
        <3>2. /\ after \in Pack /\ all.admitted \subseteq after.admitted
              /\ after.admitted \subseteq all.admitted \cup ToSet(NewestFirst(pending))
            BY <1>4, <2>3, <3>1, AdmitEachIs
        <3>3. QED
            BY <1>4, <3>1, <3>2
    <2>4. QED
        BY <1>2, <2>1, <2>2, <2>3
<1>6. ASSUME Accompanied(links, offered, pack.admitted), NEW s \in after.admitted
      PROVE  \/ \E k \in Messages : k # s /\ <<k, s>> \in links
             \/ Newer(links, offered, s) \subseteq after.admitted
    <2>1. CASE s \in pack.admitted
        BY <1>5, <1>6, <2>1 DEF Accompanied
    <2>2. CASE s \in pending
        BY <1>1, <1>3, <2>2
    <2>3. CASE s = m /\ after.admitted = pack.admitted \cup {m} \cup pending
        BY <1>1, <2>3
    <2>4. QED
        BY <1>5, <2>1, <2>2, <2>3
<1>7. QED
    BY <1>1, <1>5, <1>6 DEF Accompanied

(* What was settled stays so, and the candidate is settled now.            *)
LEMMA ConsiderSettles ==
    ASSUME NEW links, NEW offered \in Seq(Messages), NEW pack \in Pack, NEW m \in Messages,
           NothingOpen(links, offered, pack)
    PROVE  LET after == Consider(links, offered, pack, m)
           IN  /\ NothingOpen(links, offered, after)
               /\ Settled(links, offered, after, m)
               /\ \A x \in Messages : Settled(links, offered, pack, x)
                                    => Settled(links, offered, after, x)
<1>1. PICK newer, pending, leftOut, seen, all, after :
            /\ newer = Newer(links, offered, m)
            /\ pending = newer \ pack.admitted
            /\ leftOut = (newer \cap pack.considered) \ pack.admitted
            /\ seen = [pack EXCEPT !.considered = @ \cup {m}]
            /\ all = [pack EXCEPT !.considered = @ \cup {m} \cup pending]
            /\ after = Consider(links, offered, pack, m)
    OBVIOUS
<1>2. newer \in SUBSET Messages /\ pending \in SUBSET Messages
    <2>1. ToSet(offered) \subseteq Messages
        BY DEF ToSet
    <2>2. QED
        BY <1>1, <2>1 DEF Newer
<1>3. /\ pack.admitted \in SUBSET Messages /\ pack.considered \in SUBSET Messages
      /\ seen \in Pack /\ all \in Pack
      /\ seen.admitted = pack.admitted /\ all.admitted = pack.admitted
      /\ seen.considered = pack.considered \cup {m}
      /\ all.considered = pack.considered \cup {m} \cup pending
    BY <1>1, <1>2 DEF Pack
<1>4. after \in Pack /\ pack.admitted \subseteq after.admitted
    BY <1>1, ConsiderIs
<1>5. \A x \in Messages : Settled(links, offered, pack, x) => Settled(links, offered, after, x)
    <2>1. after.admitted \in SUBSET Messages /\ pack.admitted \in SUBSET after.admitted
        BY <1>4 DEF Pack
    <2>2. QED
        BY <1>4, <2>1, FullStaysFull DEF Settled
<1>6. \/ /\ after = pack
         /\ Cardinality(pack.admitted) >= MaxMessages \/ m \in pack.considered
      \/ after = seen /\ leftOut # {}
      \/ /\ after = Admit(all, {m} \cup pending)
         /\ Fits(pack.admitted, {m} \cup pending)
      \/ /\ after = AdmitEach(all, NewestFirst(pending))
         /\ ~Fits(pack.admitted, {m} \cup pending)
    BY <1>1 DEF Consider
<1>7. /\ Settled(links, offered, after, m)
      /\ \A x \in after.considered : x \notin pack.considered /\ x # m =>
                                        Settled(links, offered, after, x)
    <2>1. CASE /\ after = pack
               /\ Cardinality(pack.admitted) >= MaxMessages \/ m \in pack.considered
        BY <1>3, <2>1, NothingFitsTheFull DEF Settled, NothingOpen
    <2>2. CASE after = seen /\ leftOut # {}
        BY <1>1, <1>3, <2>2 DEF Settled
    <2>3. CASE after = Admit(all, {m} \cup pending) /\ Fits(pack.admitted, {m} \cup pending)
        <3>1. after.considered = all.considered
            BY <1>2, <1>3, <2>3, AdmitIs
        <3>2. after.admitted = all.admitted \cup ({m} \cup pending)
            BY <1>3, <2>3 DEF Admit, Pack
        <3>3. QED
            BY <1>3, <3>1, <3>2 DEF Settled
    <2>4. CASE /\ after = AdmitEach(all, NewestFirst(pending))
               /\ ~Fits(pack.admitted, {m} \cup pending)
        <3>1. NewestFirst(pending) \in Seq(Messages) /\ ToSet(NewestFirst(pending)) = pending
            BY <1>2, NewestIs
        <3>2. /\ after.considered = all.considered
              /\ \A x \in pending : x \in after.admitted \/ ~Fits(after.admitted, {x})
            BY <1>3, <2>4, <3>1, AdmitEachIs
        <3>3. \A x \in pending : Settled(links, offered, after, x)
            BY <3>2 DEF Settled
        <3>4. CASE newer # {}
            BY <1>1, <1>3, <3>2, <3>3, <3>4 DEF Settled
        <3>5. CASE newer = {}
            <4>1. pending = {} /\ {m} \cup pending = {m}
                BY <1>1, <3>5
            <4>2. ~Fits(pack.admitted, {m})
                BY <2>4, <4>1
            <4>3. Settled(links, offered, pack, m)
                BY <4>2 DEF Settled
            <4>4. QED
                BY <1>3, <1>5, <3>2, <4>1, <4>3
        <3>6. QED
            BY <3>4, <3>5
    <2>5. QED
        BY <1>6, <2>1, <2>2, <2>3, <2>4
<1>8. \A x \in pack.considered : Settled(links, offered, after, x)
    BY <1>3, <1>5 DEF NothingOpen
<1>9. QED
    BY <1>1, <1>5, <1>7, <1>8 DEF NothingOpen

(* pack_context considers one candidate after the other. *)
LEMMA ConsiderTraced ==
    ASSUME NEW links, NEW offered \in Seq(Messages)
    PROVE  \E r \in [0..Len(offered) -> Pack] :
                /\ r[0] = [admitted |-> {}, considered |-> {}]
                /\ \A k \in 1..Len(offered) : r[k] = Consider(links, offered, r[k - 1], offered[k])
                /\ Choice(links, offered) = r[Len(offered)]
<1> DEFINE n == Len(offered)
           step == [p \in Pack \X (1..n) |-> Consider(links, offered, p[1], offered[p[2]])]
           Folds(iter) ==
                iter = [t \in SUBSET DOMAIN offered |->
                        IF t = {} THEN [admitted |-> {}, considered |-> {}]
                        ELSE Consider(links, offered, iter[t \ {Max(t)}], offered[Max(t)])]
<1>1. n \in Nat /\ DOMAIN offered = 1..n /\ [admitted |-> {}, considered |-> {}] \in Pack
    BY DEF Pack
<1>2. step \in [Pack \X (1..n) -> Pack]
    <2>1. \A a \in Pack : \A m \in Messages : Consider(links, offered, a, m) \in Pack
        BY ConsiderIs
    <2>2. \A k \in 1..n : offered[k] \in Messages
        BY <1>1
    <2>3. QED
        BY <2>1, <2>2
<1>3. Choice(links, offered) = (CHOOSE iter : Folds(iter))[1..n]
    BY <1>1 DEF Choice, FoldLeft, MapThenFoldSet
<1>4. \A a \in Pack : \A k \in 1..n : step[<<a, k>>] = Consider(links, offered, a, offered[k])
    OBVIOUS
<1>5. \A t \in SUBSET (1..n) : t # {} => Max(t) \in 1..n
    BY <1>1, MaxInRange
<1> HIDE DEF n, step
<1>6. PICK iter : Folded(iter, n, Pack, [admitted |-> {}, considered |-> {}], step)
    BY <1>1, <1>2, FoldExists
<1>7. Folds(iter)
    <2>1. \A t \in SUBSET (1..n) : t \ {Max(t)} \in SUBSET (1..n)
        OBVIOUS
    <2>2. \A t \in SUBSET (1..n) : iter[t] \in Pack
        BY <1>6 DEF Folded
    <2>3. ASSUME NEW t \in SUBSET (1..n)
          PROVE  iter[t] = IF t = {} THEN [admitted |-> {}, considered |-> {}]
                           ELSE Consider(links, offered, iter[t \ {Max(t)}], offered[Max(t)])
        <3>1. CASE t = {}
            BY <1>6, <3>1 DEF Folded
        <3>2. CASE t # {}
            <4>1. iter[t] = step[<<iter[t \ {Max(t)}], Max(t)>>]
                BY <1>6, <3>2 DEF Folded
            <4>2. QED
                BY <1>4, <1>5, <2>1, <2>2, <3>2, <4>1
        <3>3. QED
            BY <3>1, <3>2
    <2>4. iter = [t \in SUBSET (1..n) |-> iter[t]]
        BY <1>6 DEF Folded
    <2>5. QED
        BY <1>1, <2>3, <2>4
<1>8. PICK f : f = CHOOSE g : Folds(g)
    OBVIOUS
<1>9. Folds(f)
    <2> HIDE DEF Folds
    <2>1. QED
        BY <1>7, <1>8
<1>10. Follows(f, n, Pack, [admitted |-> {}, considered |-> {}], step)
    <2>1. f[{}] = [admitted |-> {}, considered |-> {}]
        BY <1>9
    <2>2. ASSUME NEW t \in SUBSET (1..n), t # {}, f[t \ {Max(t)}] \in Pack
          PROVE  f[t] = step[<<f[t \ {Max(t)}], Max(t)>>]
        <3>1. f[t] = Consider(links, offered, f[t \ {Max(t)}], offered[Max(t)])
            BY <1>1, <1>9, <2>2
        <3>2. QED
            BY <1>4, <1>5, <2>2, <3>1
    <2>3. QED
        BY <2>1, <2>2 DEF Follows
<1> HIDE DEF Folds
<1>11. PICK r : Traced(r, n, Pack, [admitted |-> {}, considered |-> {}], step) /\ r[n] = f[1..n]
    <2>1. LeadsTo(f, n, Pack, [admitted |-> {}, considered |-> {}], step)
        BY <1>1, <1>2, <1>10, FoldTraced
    <2>2. QED
        BY <2>1 DEF LeadsTo
<1>12. /\ r \in [0..n -> Pack] /\ r[0] = [admitted |-> {}, considered |-> {}]
       /\ \A k \in 1..n : r[k] = step[<<r[k - 1], k>>]
    BY <1>11 DEF Traced
<1>13. ASSUME NEW k \in 1..n PROVE r[k] = Consider(links, offered, r[k - 1], offered[k])
    <2>1. k - 1 \in 0..n
        BY <1>1
    <2>2. r[k - 1] \in Pack
        BY <1>12, <2>1
    <2>3. QED
        BY <1>4, <1>12, <2>2
<1>14. Choice(links, offered) = r[n]
    BY <1>3, <1>8, <1>11
<1>15. QED
    BY <1>12, <1>13, <1>14 DEF n

LEMMA PackedIs ==
    ASSUME NEW links, NEW offered \in Seq(Messages)
    PROVE  /\ Packed(links, offered) \in SUBSET Messages
           /\ Accompanied(links, offered, Packed(links, offered))
           /\ \A m \in ToSet(offered) : \/ m \in Packed(links, offered)
                                        \/ ~Fits(Packed(links, offered), {m})
                                        \/ Newer(links, offered, m) # {}
<1>1. PICK n : n = Len(offered)
    OBVIOUS
<1>2. n \in Nat /\ DOMAIN offered = 1..n /\ \A k \in 1..n : offered[k] \in Messages
    BY <1>1
<1>3. PICK r \in [0..n -> Pack] :
            /\ r[0] = [admitted |-> {}, considered |-> {}]
            /\ \A k \in 1..n : r[k] = Consider(links, offered, r[k - 1], offered[k])
            /\ Choice(links, offered) = r[n]
    BY <1>1, ConsiderTraced
<1> DEFINE holds == {k \in Nat : k <= n =>
                        /\ Accompanied(links, offered, r[k].admitted)
                        /\ NothingOpen(links, offered, r[k])
                        /\ \A i \in 1..k : Settled(links, offered, r[k], offered[i])}
<1>4. 0 \in holds
    <2>1. r[0].admitted = {} /\ r[0].considered = {} /\ 1..0 = {}
        BY <1>3
    <2>2. QED
        BY <2>1 DEF Accompanied, NothingOpen
<1>5. ASSUME NEW k \in 1..n, k - 1 \in holds
      PROVE  k \in holds
    <2>1. k - 1 \in 0..n /\ k \in Nat
        BY <1>2
    <2>2. PICK before \in Pack, m \in Messages : before = r[k - 1] /\ m = offered[k]
        BY <1>2, <1>3, <2>1
    <2>3. /\ Accompanied(links, offered, before.admitted)
          /\ NothingOpen(links, offered, before)
          /\ \A i \in 1..(k - 1) : Settled(links, offered, before, offered[i])
        BY <1>5, <2>1, <2>2
    <2>4. r[k] = Consider(links, offered, before, m)
        BY <1>3, <2>2
    <2>5. Accompanied(links, offered, r[k].admitted)
        BY <2>3, <2>4, ConsiderIs
    <2>6. /\ NothingOpen(links, offered, r[k])
          /\ Settled(links, offered, r[k], m)
          /\ \A x \in Messages : Settled(links, offered, before, x)
                               => Settled(links, offered, r[k], x)
        BY <2>3, <2>4, ConsiderSettles
    <2>7. ASSUME NEW i \in 1..k PROVE Settled(links, offered, r[k], offered[i])
        <3>1. CASE i = k
            BY <2>2, <2>6, <3>1
        <3>2. CASE i # k
            <4>1. i \in 1..(k - 1) /\ offered[i] \in Messages
                BY <1>2, <3>2
            <4>2. QED
                BY <2>3, <2>6, <4>1
        <3>3. QED
            BY <3>1, <3>2
    <2>8. QED
        BY <2>1, <2>5, <2>6, <2>7
<1>6. 0..n \subseteq holds
    <2>1. holds \in SUBSET Nat
        OBVIOUS
    <2> HIDE DEF holds
    <2>2. QED
        BY <1>2, <1>4, <1>5, <2>1, UpTo
<1>7. n \in holds /\ n \in 0..n
    BY <1>2, <1>6
<1>8. r[n] \in Pack
    BY <1>3, <1>7
<1>9. \A m \in ToSet(offered) : \E i \in 1..n : m = offered[i]
    BY <1>2 DEF ToSet
<1>10. \A m \in ToSet(offered) : Settled(links, offered, r[n], m)
    BY <1>7, <1>9
<1>11. QED
    BY <1>3, <1>7, <1>8, <1>10 DEF Pack, Packed, Settled

(* The first copy of all evidence is offered.                              *)
LEMMA OriginalIs ==
    ASSUME NEW list \in Seq(Messages), NEW m \in ToSet(list)
    PROVE  Original(list, m) \in ToSet(list)
<1>1. PICK copies : copies = {n \in ToSet(list) : text[n] = text[m]}
    OBVIOUS
<1>2. ToSet(list) \subseteq Messages
    BY DEF ToSet
<1>3. copies \in SUBSET Nat /\ copies # {}
    BY <1>1, <1>2, MessagesFinite
<1>4. Min(copies) \in copies
    BY <1>3, MinOfNats
<1>5. QED
    BY <1>1, <1>4 DEF Original

LEMMA CandidatesAre ==
    ASSUME NEW list \in Seq(Messages), NEW recent \in Seq(Messages)
    PROVE  /\ Candidates(list, recent) \in Seq(Messages)
           /\ \A m \in ToSet(list) : Original(list, m) \in ToSet(Candidates(list, recent))
<1>1. PICK n : n = Len(list)
    OBVIOUS
<1>2. n \in Nat /\ DOMAIN list = 1..n /\ \A i \in 1..n : list[i] \in Messages
    BY <1>1
<1>3. ToSet(list) \subseteq Messages /\ \A i \in 1..n : list[i] \in ToSet(list)
    BY <1>2 DEF ToSet
<1>4. PICK firsts : firsts = [i \in DOMAIN list |-> Original(list, list[i])]
    OBVIOUS
<1>5. firsts \in Seq(Messages) /\ DOMAIN firsts = 1..n
    <2>1. \A i \in 1..n : Original(list, list[i]) \in Messages
        BY <1>3, OriginalIs
    <2>2. firsts \in [1..n -> Messages]
        BY <1>2, <1>4, <2>1
    <2>3. QED
        BY <1>2, <2>2, IsList
<1>6. \A m \in ToSet(list) : Original(list, m) \in ToSet(firsts)
    <2>1. ASSUME NEW m \in ToSet(list) PROVE Original(list, m) \in ToSet(firsts)
        <3>1. PICK i \in 1..n : m = list[i]
            BY <1>2 DEF ToSet
        <3>2. firsts[i] = Original(list, m)
            BY <1>2, <1>4, <3>1
        <3>3. QED
            BY <1>5, <3>2 DEF ToSet
    <2>2. QED
        BY <2>1
<1>7. PICK originals : originals = PutAll(<<>>, firsts)
    OBVIOUS
<1>8. originals \in Seq(Messages) /\ ToSet(originals) = ToSet(firsts)
    <2>1. PICK empty \in Seq(Messages) : empty = <<>> /\ ToSet(empty) = {}
        BY NothingIsList
    <2>2. PutAll(empty, firsts) \in Seq(Messages)
        BY <1>5, PutAllIs
    <2>3. ToSet(PutAll(empty, firsts)) = ToSet(empty) \cup ToSet(firsts)
        BY <1>5, PutAllIs
    <2>4. QED
        BY <1>7, <2>1, <2>2, <2>3
<1> DEFINE copies(m) == Only({k \in ToSet(list) : text[k] = text[m] /\ k # m}, list)
           rest == [i \in DOMAIN originals |-> copies(originals[i])]
<1>9. \A m : copies(m) \in Seq(Messages)
    BY OnlyIs
<1> HIDE DEF copies
<1>10. FlattenSeq(rest) \in Seq(Messages)
    <2>1. PICK k : k = Len(originals)
        OBVIOUS
    <2>2. k \in Nat /\ DOMAIN originals = 1..k
        BY <1>8, <2>1
    <2>3. rest \in [1..k -> Seq(Messages)]
        BY <1>9, <2>2
    <2>4. rest \in Seq(Seq(Messages))
        BY <2>2, <2>3, IsList
    <2> HIDE DEF rest
    <2>5. QED
        BY <2>4, Flattened
<1>11. Candidates(list, recent) = PutAll(recent, originals \o FlattenSeq(rest))
    BY <1>4, <1>7 DEF Candidates, copies
<1> HIDE DEF rest
<1>12. PICK a \in Seq(Messages), b \in Seq(Messages) : a = originals /\ b = FlattenSeq(rest)
    BY <1>8, <1>10
<1>13. PICK more \in Seq(Messages) : more = a \o b /\ ToSet(a) \subseteq ToSet(more)
    BY Joined
<1>14. PutAll(recent, more) \in Seq(Messages) /\ ToSet(more) \subseteq ToSet(PutAll(recent, more))
    BY PutAllIs
<1>15. QED
    BY <1>6, <1>8, <1>11, <1>12, <1>13, <1>14

(* The newest messages, in order, are messages.                            *)
LEMMA NewestListed ==
    ASSUME NEW set
    PROVE  NewestFirst(set) \in Seq(Messages)
<1>1. LastSeq \in Nat \ {0} /\ Messages = 1..LastSeq
    BY SelectionAssumption DEF Messages
<1>2. PICK list : list = [i \in Messages |-> LastSeq + 1 - i]
    OBVIOUS
<1>3. list \in [1..LastSeq -> Messages]
    BY <1>1, <1>2
<1>4. list \in Seq(Messages)
    BY <1>1, <1>3, IsList
<1>5. QED
    BY <1>2, <1>4, OnlyIs DEF NewestFirst

(* What NewerStatementFirst says, of any links and any choice.             *)
Corrected(links, chosen) ==
    \A link \in links :
        /\ (link[1] \in chosen /\ ~(\E other \in links :
                                      other[2] = link[1] /\ other[1] # link[1]))
              => link[2] \in chosen
        /\ ~(\E other \in links : other[1] = link[2] /\ other[2] # link[2])
              => link[2] \in chosen \/ ~Fits(chosen, {link[2]})

LEMMA PackedTogether ==
    ASSUME evidence \in Seq(Messages), Prepare
    PROVE  Corrected(PackLinks(evidence, pairs), selected')
<1>1. PICK n \in 0..MaxMessages :
            LET recent == NewestFirst((LastSeq + 1 - n)..LastSeq)
            IN  selected' = Packed(PackLinks(evidence, pairs), Candidates(evidence, recent))
    BY DEF Prepare
<1>2. PICK links : links = PackLinks(evidence, pairs)
    OBVIOUS
<1>3. PICK recent : recent = NewestFirst((LastSeq + 1 - n)..LastSeq)
    OBVIOUS
<1>4. recent \in Seq(Messages)
    BY <1>3, NewestListed
<1>5. PICK offered : offered = Candidates(evidence, recent)
    OBVIOUS
<1>6. /\ offered \in Seq(Messages)
      /\ \A m \in ToSet(evidence) : Original(evidence, m) \in ToSet(offered)
    BY <1>4, <1>5, CandidatesAre
<1>7. /\ selected' \in SUBSET Messages /\ Accompanied(links, offered, selected')
      /\ \A m \in ToSet(offered) : \/ m \in selected'
                                   \/ ~Fits(selected', {m})
                                   \/ Newer(links, offered, m) # {}
    BY <1>1, <1>2, <1>3, <1>5, <1>6, PackedIs
<1>8. \A link \in links : link = <<link[1], link[2]>> /\ link[2] \in ToSet(offered)
    <2>1. ASSUME NEW link \in links
          PROVE  link = <<link[1], link[2]>> /\ link[2] \in ToSet(offered)
        <3>1. PICK returned \in ToSet(evidence) \X ToSet(evidence) :
                link = <<Representative(evidence, returned[1]), Representative(evidence, returned[2])>>
            BY <1>2 DEF PackLinks, ReturnedLinks
        <3>2. link[2] = Original(evidence, returned[2])
            BY <3>1 DEF Representative
        <3>3. QED
            BY <1>6, <3>1, <3>2
    <2>2. QED
        BY <2>1
<1>9. ASSUME NEW link \in links, link[1] \in selected',
             ~(\E other \in links : other[2] = link[1] /\ other[1] # link[1])
      PROVE  link[2] \in selected'
    <2>1. PICK s : s = link[1]
        OBVIOUS
    <2>2. ~(\E m \in Messages : m # s /\ <<m, s>> \in links)
        <3>1. ASSUME NEW m \in Messages, m # s, <<m, s>> \in links PROVE FALSE
            <4>1. <<m, s>>[2] = s /\ <<m, s>>[1] = m
                OBVIOUS
            <4>2. QED
                BY <1>9, <2>1, <3>1, <4>1
        <3>2. QED
            BY <3>1
    <2>3. Newer(links, offered, s) \subseteq selected'
        BY <1>7, <1>9, <2>1, <2>2 DEF Accompanied
    <2>4. CASE link[2] = s
        BY <1>9, <2>1, <2>4
    <2>5. CASE link[2] # s
        <3>1. link[2] \in Newer(links, offered, s)
            BY <1>8, <2>1, <2>5 DEF Newer
        <3>2. QED
            BY <2>3, <3>1
    <2>6. QED
        BY <2>4, <2>5
<1>10. ASSUME NEW link \in links,
              ~(\E other \in links : other[1] = link[2] /\ other[2] # link[2])
       PROVE  link[2] \in selected' \/ ~Fits(selected', {link[2]})
    <2>1. PICK newer : newer = link[2]
        OBVIOUS
    <2>2. ASSUME NEW m \in Newer(links, offered, newer) PROVE FALSE
        <3>1. m # newer /\ <<newer, m>> \in links
            BY DEF Newer
        <3>2. <<newer, m>>[1] = newer /\ <<newer, m>>[2] = m
            OBVIOUS
        <3>3. QED
            BY <1>10, <2>1, <3>1, <3>2
    <2>3. newer \in ToSet(offered)
        BY <1>8, <2>1
    <2>4. QED
        BY <1>7, <2>1, <2>2, <2>3
<1>11. QED
    BY <1>2, <1>9, <1>10 DEF Corrected

(* The choice of pack_context is corrected as NewerStatementFirst says.    *)
LEMMA CorrectedMeans ==
    ASSUME Corrected(PackLinks(evidence, pairs), selected)
    PROVE  NewerStatementFirst
<1>1. PICK links : links = PackLinks(evidence, pairs)
    OBVIOUS
<1>2. ASSUME NEW link \in ReturnedLinks(evidence, pairs)
      PROVE  \E packed \in links : /\ packed[1] = Representative(evidence, link[1])
                                  /\ packed[2] = Representative(evidence, link[2])
    <2>1. PICK packed : packed = <<Representative(evidence, link[1]),
                                   Representative(evidence, link[2])>>
        OBVIOUS
    <2>2. packed \in links
        BY <1>1, <2>1 DEF PackLinks
    <2>3. QED
        BY <2>1, <2>2
<1>3. QED
    BY <1>1, <1>2 DEF Corrected, NewerStatementFirst

PackCorrected == stage = "done" => Corrected(PackLinks(evidence, pairs), selected)

(* In every context a superseded message is corrected while there is room: *)
(* whatever of its text is packed, and whether as evidence or as a recent  *)
(* message, the statement linked to it is packed, or no longer fits and    *)
(* the first copy is left out too; for histories of any length, any texts, *)
(* links and limits.   memory.py: "when both cannot fit, only the newer    *)
(* ones are packed".                                                       *)
THEOREM NewerStatementsPacked == SelectionSpec => []NewerStatementFirst
<1>1. SelectionInit => PackCorrected
    BY DEF SelectionInit, PackCorrected
<1>2. SelectionInv /\ PackCorrected /\ [SelectionNext]_selectionVars => PackCorrected'
    <2> SUFFICES ASSUME SelectionInv, PackCorrected, [SelectionNext]_selectionVars
                 PROVE  PackCorrected'
        OBVIOUS
    <2>1. CASE Search \/ Retrieve
        <3>1. stage' # "done"
            BY <2>1 DEF Search, Retrieve
        <3>2. QED
            BY <3>1 DEF PackCorrected
    <2>2. CASE Prepare
        <3>1. stage = "pack" /\ UNCHANGED <<corpus, hits, pairs, evidence>>
            BY <2>2 DEF Prepare
        <3>2. evidence \in Seq(Messages)
            BY <3>1 DEF SelectionInv
        <3>3. PackLinks(evidence, pairs)' = PackLinks(evidence, pairs)
            BY <3>1 DEF PackLinks, ReturnedLinks, Representative, Original, LinkedTo, corpus
        <3>4. Corrected(PackLinks(evidence, pairs), selected')
            BY <2>2, <3>2, PackedTogether
        <3>5. Corrected(PackLinks(evidence, pairs), selected)'
            BY <3>1, <3>3, <3>4 DEF Corrected, Fits, RoomOf, corpus
        <3>6. QED
            BY <3>5 DEF PackCorrected
    <2>3. CASE UNCHANGED selectionVars
        <3>1. UNCHANGED <<stage, corpus, hits, pairs, evidence, selected>>
            BY <2>3 DEF selectionVars, corpus
        <3>2. PackLinks(evidence, pairs)' = PackLinks(evidence, pairs)
            BY <3>1 DEF PackLinks, ReturnedLinks, Representative, Original, LinkedTo, corpus
        <3>3. QED
            BY <3>1, <3>2 DEF PackCorrected, Corrected, Fits, RoomOf, corpus
    <2>4. QED
        BY <2>1, <2>2, <2>3 DEF SelectionNext
<1>3. PackCorrected => NewerStatementFirst
    BY CorrectedMeans DEF PackCorrected, NewerStatementFirst
<1>4. QED
    BY <1>1, <1>2, <1>3, SelectionInvHolds, PTL DEF SelectionSpec
=============================================================================
