------------------------------- MODULE Provider -------------------------------
(***************************************************************************)
(* MemoizedProvider.complete() (provider.py) with CallBudget and           *)
(* async_retry (retry.py): admission to a limited number of slots, the     *)
(* attempts of one call, and the budget that all calls of a request share. *)
(*                                                                         *)
(* Time is three events: the deadline of a request passes (late), the      *)
(* provider's own call deadline cuts a call, and a backoff sleep ends.     *)
(* The slots are an asyncio.Semaphore: a waiter that was woken owns its    *)
(* slot before it runs, and newcomers queue behind waiters.                *)
(***************************************************************************)
EXTENDS Integers, SequencesExt

CONSTANTS
    Ops,        \* requests that use the provider, each with a budget of its own
    Slots,      \* per_provider_concurrency
    Limit,      \* provider_attempt_limit_ask
    MaxTries    \* max_provider_attempts_per_op

ASSUME ProviderAssumption ==
    /\ IsFiniteSet(Ops)
    /\ Slots \in Nat \ {0}
    /\ Limit \in Nat \ {0}
    /\ MaxTries \in Nat \ {0}

VARIABLES
    free,       \* _semaphore._value
    waiters,    \* the requests in _semaphore._waiters, woken ones included
    pc,         \* where each request's provider call is
    tries,      \* attempts of the current call
    calls,      \* CallBudget.calls
    late,       \* the deadline of the request has passed
    result      \* how the last call ended

providerVars == <<free, waiters, pc, tries, calls, late, result>>

Holding == {"admitted", "calling", "backoff"}

ProviderInit ==
    /\ free = Slots
    /\ waiters = <<>>
    /\ pc = [o \in Ops |-> "idle"]
    /\ tries = [o \in Ops |-> 0]
    /\ calls = [o \in Ops |-> 0]
    /\ late = [o \in Ops |-> FALSE]
    /\ result = [o \in Ops |-> "none"]

accounts == <<tries, calls, late>>

-----------------------------------------------------------------------------
(* The semaphore *)

Asleep(ws) == {i \in 1..Len(ws) : pc[ws[i]] = "waiting"}

(* _wake_up_next, n times: the first n of ws that still sleep.             *)
Woken(n, ws) ==
    {ws[i] : i \in {j \in Asleep(ws) : Cardinality({k \in Asleep(ws) : k < j}) < n}}

(* o leaves the queue, where a request is once at most.                    *)
Without(o) == RemoveFirst(waiters, o)

(* o goes on to place and the woken ones own their slots.                  *)
Moved(o, place, woken) ==
    pc' = [u \in Ops |-> IF u = o THEN place ELSE IF u \in woken THEN "granted" ELSE pc[u]]

(* Variant: the slot is given back and nobody is woken. *)
ReleaseUnheard(o, how) ==
    /\ Moved(o, "idle", {})
    /\ free' = free + 1
    /\ result' = [result EXCEPT ![o] = how]
    /\ UNCHANGED waiters

(* release() in the finally clause; the call ends.                         *)
Release(o, how) ==
    LET woken == Woken(1, waiters)
    IN  /\ Moved(o, "idle", woken)
        /\ free' = free + 1 - Cardinality(woken)
        /\ result' = [result EXCEPT ![o] = how]
        /\ UNCHANGED waiters

(* Variant: a waiter that owns a slot when it leaves keeps it. *)
LeaveQueueOwning(o, how) ==
    LET woken == Woken(free, Without(o))
    IN  /\ waiters' = Without(o)
        /\ Moved(o, "idle", woken)
        /\ free' = free - Cardinality(woken)
        /\ result' = [result EXCEPT ![o] = how]

(* acquire() is cancelled: a slot that o owns by now goes back and on.     *)
LeaveQueue(o, how) ==
    LET value == IF pc[o] = "granted" THEN free + 1 ELSE free
        woken == Woken(value, Without(o))
    IN  /\ waiters' = Without(o)
        /\ Moved(o, "idle", woken)
        /\ free' = value - Cardinality(woken)
        /\ result' = [result EXCEPT ![o] = how]

-----------------------------------------------------------------------------
(* complete() *)

(* A call begins: at once, at the end of the queue, or not at all when     *)
(* nothing of the deadline is left.                                        *)
Begin(o) ==
    /\ pc[o] = "idle"
    /\ tries' = [tries EXCEPT ![o] = 0]
    /\ UNCHANGED <<calls, late>>
    /\ \/ /\ late[o]
          /\ result' = [result EXCEPT ![o] = "timeout"]
          /\ UNCHANGED <<free, waiters, pc>>
       \/ /\ ~late[o] /\ free > 0 /\ waiters = <<>>
          /\ free' = free - 1
          /\ pc' = [pc EXCEPT ![o] = "admitted"]
          /\ result' = [result EXCEPT ![o] = "none"]
          /\ UNCHANGED waiters
       \/ /\ ~late[o] /\ (free = 0 \/ waiters # <<>>)
          /\ waiters' = Append(waiters, o)
          /\ pc' = [pc EXCEPT ![o] = "waiting"]
          /\ result' = [result EXCEPT ![o] = "none"]
          /\ UNCHANGED free

(* A memo answers: no slot, no attempt.                                    *)
FromCache(o) ==
    /\ pc[o] = "idle"
    /\ result' = [result EXCEPT ![o] = "response"]
    /\ UNCHANGED <<free, waiters, pc, accounts>>

(* The woken waiter runs, and wakes others if there are slots for them.    *)
Admitted(o) ==
    /\ pc[o] = "granted"
    /\ LET woken == Woken(free, Without(o))
       IN  /\ waiters' = Without(o)
           /\ Moved(o, "admitted", woken)
           /\ free' = free - Cardinality(woken)
    /\ UNCHANGED <<result, accounts>>

AdmissionTimesOut(o) ==
    /\ pc[o] \in {"waiting", "granted"}
    /\ late[o]
    /\ LeaveQueue(o, "timeout")
    /\ UNCHANGED accounts

Dispatch(o) ==
    /\ pc' = [pc EXCEPT ![o] = "calling"]
    /\ tries' = [tries EXCEPT ![o] = @ + 1]
    /\ calls' = [calls EXCEPT ![o] = @ + 1]
    /\ UNCHANGED <<free, waiters, late, result>>

(* Variant: the budget is asked for the first attempt of a call only. *)
AttemptRetriesFree(o) ==
    /\ pc[o] = "admitted"
    /\ \/ late[o] /\ Release(o, "timeout") /\ UNCHANGED accounts
       \/ ~late[o] /\ calls[o] >= Limit /\ tries[o] = 0 /\ Release(o, "budget") /\ UNCHANGED accounts
       \/ ~late[o] /\ (calls[o] < Limit \/ tries[o] > 0) /\ Dispatch(o)

(* The top of the retry loop: deadline, budget, call.                      *)
Attempt(o) ==
    /\ pc[o] = "admitted"
    /\ \/ late[o] /\ Release(o, "timeout") /\ UNCHANGED accounts
       \/ ~late[o] /\ calls[o] >= Limit /\ Release(o, "budget") /\ UNCHANGED accounts
       \/ ~late[o] /\ calls[o] < Limit /\ Dispatch(o)

Answers(o) ==
    /\ pc[o] = "calling"
    /\ Release(o, "response")
    /\ UNCHANGED accounts

(* The adapter raises ProviderError, or anything else: no second attempt.  *)
CallFails(o, how) ==
    /\ pc[o] = "calling"
    /\ Release(o, how)
    /\ UNCHANGED accounts

(* ProviderTimeout, by a deadline or by the adapter: transient.            *)
CallTimesOut(o) ==
    /\ pc[o] = "calling"
    /\ IF tries[o] >= MaxTries \/ late[o]
       THEN Release(o, "timeout")
       ELSE pc' = [pc EXCEPT ![o] = "backoff"] /\ UNCHANGED <<free, waiters, result>>
    /\ UNCHANGED accounts

(* The slot is held during the sleep. *)
BackoffEnds(o) ==
    /\ pc[o] = "backoff"
    /\ pc' = [pc EXCEPT ![o] = "admitted"]
    /\ UNCHANGED <<free, waiters, result, accounts>>

(* A wait_for around complete() ends it, or the host cancels the request:  *)
(* CancelledError is no Exception, so no handler of complete() sees it.    *)
CutOff(o, how) ==
    /\ \/ pc[o] \in {"waiting", "granted"} /\ LeaveQueue(o, how)
       \/ pc[o] \in {"calling", "backoff"} /\ Release(o, how)
    /\ UNCHANGED accounts

ProviderStep(o) ==
    \/ Admitted(o)
    \/ AdmissionTimesOut(o)
    \/ Attempt(o)
    \/ Answers(o)
    \/ \E how \in {"provider_error", "crash"} : CallFails(o, how)
    \/ CallTimesOut(o)
    \/ BackoffEnds(o)

-----------------------------------------------------------------------------
(* Properties *)

Owners == {o \in Ops : pc[o] \in Holding \cup {"granted"}}

(* Every slot is free or has one owner: none is lost or doubled by a       *)
(* timeout, a failure or a cancellation, wherever it meets the call.       *)
SlotsConserved == free + Cardinality(Owners) = Slots

(* Physical attempts of one request, of all its calls and retries together, *)
(* stay within its budget.                                                 *)
BudgetKept == \A o \in Ops : calls[o] <= Limit
=============================================================================
