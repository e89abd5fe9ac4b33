-------------------------------- MODULE Ledger --------------------------------
(***************************************************************************)
(* The ledger through which an evaluation makes its model calls (class     *)
(* Ledger of evaluations/held_out/comparison.py): a call is reserved at    *)
(* its worst case before it is sent, charged at what the provider reports, *)
(* and nothing is sent once the run has stopped.                           *)
(*                                                                         *)
(* Input and output tokens are one figure and the price is proportional to *)
(* it, so max_estimated_usd is a second bound of the kind of               *)
(* max_reserved_tokens and is left out.                                    *)
(***************************************************************************)
EXTENDS Integers, FiniteSets, FiniteSetsExt

CONSTANTS
    Tasks,      \* coroutines that call
    Slots,      \* limits.concurrency
    Reserve,    \* reserved for one call, tokens
    Unknown     \* no token count

ASSUME LedgerAssumption ==
    /\ Slots \in Nat \ {0}
    /\ Reserve \in Nat \ {0}
    /\ Unknown \notin Nat

VARIABLES
    stopped,    \* Ledger.stopped
    calls,      \* Ledger.calls, and the journal: each call is in both
    at,         \* where each task is in complete()
    scope,      \* the scope of its latest request
    result      \* how that ended

ledgerVars == <<stopped, calls, at, scope, result>>

NoCall == [phase |-> "none"]

LedgerInit ==
    /\ stopped = FALSE
    /\ calls = {}
    /\ at = [t \in Tasks |-> "out"]
    /\ scope = [t \in Tasks |-> NoCall]
    /\ result = [t \in Tasks |-> "none"]

Charge(c) == IF c.used = Unknown THEN Reserve ELSE c.used

Reserved == MapThenSumSet(Charge, calls)

Request(t, s) ==
    /\ at' = [at EXCEPT ![t] = "queued"]
    /\ scope' = [scope EXCEPT ![t] = s]
    /\ result' = [result EXCEPT ![t] = "none"]

Raise(t, how) ==
    /\ at' = [at EXCEPT ![t] = "out"]
    /\ result' = [result EXCEPT ![t] = how]
    /\ UNCHANGED scope

Inside == {t \in Tasks : at[t] \in {"pacing", "sent"}}

(* A slot is free: on to the pacing lock, where the task sleeps.           *)
Enter(t) ==
    /\ at[t] = "queued"
    /\ Cardinality(Inside) < Slots
    /\ IF stopped
       THEN Raise(t, "RunStopped")
       ELSE at' = [at EXCEPT ![t] = "pacing"] /\ UNCHANGED <<scope, result>>
    /\ UNCHANGED <<stopped, calls>>

(* Variant: the reservation of this call is not counted in. *)
ExhaustedByNow(maxCalls, maxTokens) ==
    \/ Cardinality(calls) >= maxCalls
    \/ Reserved >= maxTokens

Exhausted(maxCalls, maxTokens) ==
    \/ Cardinality(calls) >= maxCalls
    \/ Reserved + Reserve > maxTokens

Send(t) ==
    /\ at' = [at EXCEPT ![t] = "sent"]
    /\ calls' = calls \cup {[scope |-> scope[t], status |-> "pending", used |-> Unknown]}
    /\ UNCHANGED <<stopped, scope, result>>

(* Variant: stopped is not read again after the sleep. *)
DispatchRegardless(t, maxCalls, maxTokens) ==
    /\ at[t] = "pacing"
    /\ \/ stopped' = TRUE /\ Raise(t, "RunStopped") /\ UNCHANGED calls
       \/ /\ ~Exhausted(maxCalls, maxTokens)
          /\ Raise(t, "ProviderError")
          /\ UNCHANGED <<stopped, calls>>
       \/ ~Exhausted(maxCalls, maxTokens) /\ Send(t)

(* After the sleep everything is looked at again, and nothing is awaited   *)
(* between that and the request.  The time limit of the run may be over,   *)
(* the input may be too long.                                              *)
Dispatch(t, maxCalls, maxTokens) ==
    /\ at[t] = "pacing"
    /\ \/ stopped /\ Raise(t, "RunStopped") /\ UNCHANGED <<stopped, calls>>
       \/ /\ ~stopped
          /\ stopped' = TRUE
          /\ Raise(t, "RunStopped")
          /\ UNCHANGED calls
       \/ /\ ~stopped
          /\ ~Exhausted(maxCalls, maxTokens)
          /\ Raise(t, "ProviderError")
          /\ UNCHANGED <<stopped, calls>>
       \/ ~stopped /\ ~Exhausted(maxCalls, maxTokens) /\ Send(t)

MyCall(t) == CHOOSE c \in calls : c.scope = scope[t]

Record(t, status, used) ==
    calls' = (calls \ {MyCall(t)}) \cup {[MyCall(t) EXCEPT !.status = status, !.used = used]}

(* Complete output, or an output that is cut off or empty.                 *)
Answered(t) ==
    /\ at[t] = "sent"
    /\ \/ \E used \in 1..Reserve : Record(t, "ok", used) /\ Raise(t, "ok")
       \/ Record(t, "error", Reserve) /\ Raise(t, "ProviderError")
    /\ UNCHANGED stopped

(* No usage, usage that is not positive, or above what was reserved.       *)
BadUsage(t) ==
    /\ at[t] = "sent"
    /\ \E used \in {Unknown, 0, Reserve + 1} : Record(t, "error", used)
    /\ Raise(t, "RunStopped")
    /\ stopped' = TRUE

(* An HTTP status: only those that no retry mends stop the run.  Or no     *)
(* connection.                                                             *)
Refused(t) ==
    /\ at[t] = "sent"
    /\ Record(t, "error", Unknown)
    /\ Raise(t, "ProviderError")
    /\ stopped' \in {stopped, TRUE}

TimedOut(t) ==
    /\ at[t] = "sent"
    /\ Record(t, "error", Unknown)
    /\ Raise(t, "TimeoutError")
    /\ UNCHANGED stopped

(* Cancellation of the whole run: what is under way is recorded as failed. *)
CancelCalls ==
    /\ calls' = {IF c.status = "pending" THEN [c EXCEPT !.status = "error"] ELSE c : c \in calls}
    /\ at' = [t \in Tasks |-> "out"]
    /\ result' = [t \in Tasks |-> "none"]
    /\ scope' = [t \in Tasks |-> NoCall]
    /\ UNCHANGED stopped

LedgerStep(t, maxCalls, maxTokens) ==
    \/ Enter(t)
    \/ Dispatch(t, maxCalls, maxTokens)
    \/ Answered(t)
    \/ BadUsage(t)
    \/ Refused(t)
    \/ TimedOut(t)
=============================================================================
