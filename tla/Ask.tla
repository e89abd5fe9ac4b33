--------------------------------- MODULE Ask ---------------------------------
(***************************************************************************)
(* ask() (ask.py) with the tree navigation that its retrieval does         *)
(* (tree_retrieval.py), through the one provider of Provider.tla, beside   *)
(* clears, deadlines and cancellations.                                    *)
(*                                                                         *)
(* Evidence is abstracted to whether there is any, an answer to how its    *)
(* citations relate to that evidence.  What retrieval reads is             *)
(* ContextReaders' matter.                                                 *)
(***************************************************************************)
EXTENDS Provider

CONSTANT MaxNavigation      \* max_tree_navigation_calls

ASSUME NavigationAssumption == MaxNavigation \in Nat

VARIABLES
    phase,      \* where each ask() is
    steps,      \* navigation calls it has made
    found,      \* its retrieval has evidence
    retired,    \* the history was cleared since its snapshot
    cites,      \* what the answer to be returned cites
    outcome     \* status of the result, or the exception

askVars == <<phase, steps, found, retired, cites, outcome>>
vars == <<providerVars, askVars>>

Active == {"navigating", "retrieved", "synthesis", "repair"}

(* Answers of the model: cited from this evidence, from elsewhere, without *)
(* citation or text, or JSON whose citations are not a list.               *)
Answer == {"own", "foreign", "none", "not a list"}

AskInit ==
    /\ ProviderInit
    /\ phase = [o \in Ops |-> "ended"]
    /\ steps = [o \in Ops |-> 0]
    /\ found = [o \in Ops |-> FALSE]
    /\ retired = [o \in Ops |-> FALSE]
    /\ cites = [o \in Ops |-> "none"]
    /\ outcome = [o \in Ops |-> "none"]

(* A new request: its own deadline, budget and snapshot.                   *)
AskCall(o) ==
    /\ phase[o] = "ended"
    /\ phase' = [phase EXCEPT ![o] = "navigating"]
    /\ found' = [found EXCEPT ![o] = FALSE]
    /\ cites' = [cites EXCEPT ![o] = "none"]
    /\ outcome' = [outcome EXCEPT ![o] = "none"]
    /\ UNCHANGED <<providerVars, steps, retired>>

(* The request returns or raises, and its budget and deadline go with it.  *)
End(o, how) ==
    /\ phase' = [phase EXCEPT ![o] = "ended"]
    /\ outcome' = [outcome EXCEPT ![o] = how]
    /\ tries' = [tries EXCEPT ![o] = 0]
    /\ calls' = [calls EXCEPT ![o] = 0]
    /\ late' = [late EXCEPT ![o] = FALSE]
    /\ result' = [result EXCEPT ![o] = "none"]
    /\ steps' = [steps EXCEPT ![o] = 0]
    /\ retired' = [retired EXCEPT ![o] = FALSE]
    /\ UNCHANGED <<free, waiters, pc>>

(* Variant: the generation was checked by retrieve() already. *)
EmitUnchecked(o, status) == End(o, status)

(* _emit: the generation is compared once more.                            *)
Emit(o, status) == End(o, IF retired[o] THEN "conflict" ELSE status)

-----------------------------------------------------------------------------
(* Retrieval *)

Navigating(o) == phase[o] = "navigating" /\ pc[o] = "idle" /\ result[o] = "none"

(* navigate_tree asks the model which branches to follow; a memo of an     *)
(* earlier question may answer.                                            *)
Navigate(o) ==
    /\ Navigating(o)
    /\ steps[o] < MaxNavigation
    /\ ~late[o]
    /\ Begin(o) \/ FromCache(o)
    /\ UNCHANGED askVars

(* The step counts; with anything but a response, navigation falls back to *)
(* the lexical hits, except that an exception it does not expect escapes.  *)
NavigationEnds(o) ==
    /\ phase[o] = "navigating" /\ pc[o] = "idle"
    /\ \/ result[o] = "crash" /\ End(o, "raised")
       \/ result[o] = "cancelled" /\ End(o, "cancelled")
       \/ /\ result[o] \in {"response", "timeout", "budget", "provider_error"}
          /\ steps' = [steps EXCEPT ![o] = IF result[o] = "response" THEN @ + 1 ELSE MaxNavigation]
          /\ result' = [result EXCEPT ![o] = "none"]
          /\ UNCHANGED <<free, waiters, pc, accounts, phase, retired, outcome>>
    /\ UNCHANGED <<found, cites>>

(* The deadline around the navigation call fires before the inner one.     *)
CutNavigation(o) ==
    /\ phase[o] = "navigating"
    /\ late[o]
    /\ CutOff(o, "timeout")
    /\ UNCHANGED askVars

(* retrieve() ends when navigation has enough: evidence or none, unless    *)
(* the history was cleared.                                                *)
Retrieved(o) ==
    /\ Navigating(o)
    /\ \/ retired[o] /\ End(o, "conflict") /\ UNCHANGED found
       \/ ~retired[o] /\ Emit(o, "insufficient_evidence") /\ UNCHANGED found
       \/ /\ ~retired[o]
          /\ found' = [found EXCEPT ![o] = TRUE]
          /\ phase' = [phase EXCEPT ![o] = "retrieved"]
          /\ UNCHANGED <<providerVars, steps, retired, outcome>>
    /\ UNCHANGED cites

-----------------------------------------------------------------------------
(* Synthesis and repair *)

(* A synthesis call, or the partial result when it cannot be made.         *)
Ask(o, next) ==
    \/ /\ late[o] \/ calls[o] >= Limit
       /\ Emit(o, "partial")
    \/ /\ ~late[o] /\ calls[o] < Limit
       /\ phase' = [phase EXCEPT ![o] = next]
       /\ Begin(o)
       /\ UNCHANGED <<steps, retired, outcome>>

Synthesize(o) ==
    /\ phase[o] = "retrieved"
    /\ Ask(o, "synthesis")
    /\ UNCHANGED <<found, cites>>

Answered(o) ==
    phase[o] \in {"synthesis", "repair"} /\ pc[o] = "idle" /\ result[o] = "response"

Invalid(a) == a \in {"foreign", "none"}

(* Variant: what the repair answers is not validated again. *)
JudgeOnce(o, a) ==
    /\ Answered(o)
    /\ \/ a = "not a list" /\ End(o, "raised") /\ UNCHANGED cites
       \/ /\ a = "own" \/ (Invalid(a) /\ phase[o] = "repair")
          /\ Emit(o, "answered")
          /\ cites' = [cites EXCEPT ![o] = a]
       \/ Invalid(a) /\ phase[o] = "synthesis" /\ Ask(o, "repair") /\ UNCHANGED cites
    /\ UNCHANGED found

(* A valid answer is returned; an invalid one is repaired once, then       *)
(* suppressed.  Citations that are no list raise TypeError in the parser.  *)
Judge(o, a) ==
    /\ Answered(o)
    /\ \/ a = "not a list" /\ End(o, "raised") /\ UNCHANGED cites
       \/ a = "own" /\ Emit(o, "answered") /\ cites' = [cites EXCEPT ![o] = a]
       \/ Invalid(a) /\ phase[o] = "synthesis" /\ Ask(o, "repair") /\ UNCHANGED cites
       \/ Invalid(a) /\ phase[o] = "repair" /\ Emit(o, "partial") /\ UNCHANGED cites
    /\ UNCHANGED found

(* Variant: only the first synthesis call expects BudgetExceeded. *)
NoAnswerRepairRaises(o) ==
    /\ phase[o] \in {"synthesis", "repair"} /\ pc[o] = "idle"
    /\ \/ result[o] = "budget" /\ phase[o] = "synthesis" /\ Emit(o, "partial")
       \/ result[o] = "budget" /\ phase[o] = "repair" /\ End(o, "raised")
       \/ result[o] \in {"timeout", "provider_error", "crash"} /\ End(o, "raised")
       \/ result[o] = "cancelled" /\ End(o, "cancelled")
    /\ UNCHANGED <<found, cites>>

(* Without a response: a spent budget leaves the evidence as a partial     *)
(* result, everything else is raised.                                      *)
NoAnswer(o) ==
    /\ phase[o] \in {"synthesis", "repair"} /\ pc[o] = "idle"
    /\ \/ result[o] = "budget" /\ Emit(o, "partial")
       \/ result[o] \in {"timeout", "provider_error", "crash"} /\ End(o, "raised")
       \/ result[o] = "cancelled" /\ End(o, "cancelled")
    /\ UNCHANGED <<found, cites>>

-----------------------------------------------------------------------------
(* Around it *)

(* The deadline of a request passes. *)
Expire(o) ==
    /\ phase[o] \in Active
    /\ ~late[o]
    /\ late' = [late EXCEPT ![o] = TRUE]
    /\ UNCHANGED <<free, waiters, pc, tries, calls, result, askVars>>

(* The host cancels a request that waits for the provider.                 *)
Cancelled(o) ==
    /\ phase[o] \in Active
    /\ CutOff(o, "cancelled")
    /\ UNCHANGED askVars

(* clear_history() commits: every snapshot is of a retired generation.     *)
Clear ==
    /\ \E o \in Ops : phase[o] \in Active /\ ~retired[o]
    /\ retired' = [o \in Ops |-> retired[o] \/ phase[o] \in Active]
    /\ UNCHANGED <<providerVars, phase, steps, found, cites, outcome>>

AskStep(o) ==
    \/ Navigate(o)
    \/ NavigationEnds(o)
    \/ Retrieved(o)
    \/ Synthesize(o)
    \/ \E a \in Answer : Judge(o, a)
    \/ NoAnswer(o)
    \/ ProviderStep(o) /\ UNCHANGED askVars

Next ==
    \/ \E o \in Ops :
        \/ AskCall(o)
        \/ AskStep(o)
        \/ CutNavigation(o)
        \/ Expire(o)
        \/ Cancelled(o)
    \/ Clear

Spec == AskInit /\ [][Next]_vars

(* The event loop runs what can run; a call of the provider is answered or *)
(* cut by provider_call_deadline_s, a sleep ends.  Nothing is assumed of   *)
(* the host, and not even that a request's deadline comes.                 *)
FairSpec == Spec /\ \A o \in Ops : WF_vars(AskStep(o))

-----------------------------------------------------------------------------
(* Properties *)

(* An answer is backed: it cites, and only evidence that this very request *)
(* retrieved, whichever of the two synthesis calls gave it (INV-05).       *)
AnswerBacked ==
    \A o \in Ops : outcome[o] = "answered" => cites[o] = "own" /\ found[o]

(* No result is made of a history that was cleared meanwhile: the clear    *)
(* may fall anywhere between the snapshot and the return.                  *)
NothingOfARetiredHistory ==
    [][\A o \in Ops :
        outcome'[o] # outcome[o] /\ outcome'[o] \in {"answered", "partial", "insufficient_evidence"}
            => ~retired[o]]_vars

(* A request that has spent its budget, on navigation, synthesis, repair   *)
(* or retries, still returns the evidence it has: it fails only for what   *)
(* the provider did, or for a deadline.                                    *)
BudgetNeverLosesEvidence ==
    [][\A o \in Ops :
        outcome'[o] # outcome[o] /\ outcome'[o] = "raised"
            => result[o] \in {"response", "timeout", "provider_error", "crash"}]_vars

(* A request ends, whatever others hold the slots and however they leave.  *)
AskEnds == \A o \in Ops : phase[o] \in Active ~> phase[o] = "ended"

=============================================================================
