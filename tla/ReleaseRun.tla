------------------------------ MODULE ReleaseRun ------------------------------
(***************************************************************************)
(* Runs that spend from an allocation of the release budget: the claim     *)
(* that gives an allocation to one run (release_validation.py), the serial *)
(* ledger with its stops (ReleaseLedger, AllocatedLedger), and the report  *)
(* and the accounting they leave behind, for three entry points: a direct  *)
(* release run, and the wrappers run_allocated_release.py and              *)
(* run_allocated_comparison.py.                                            *)
(*                                                                         *)
(* The directories of claims and outputs are shared by all processes; a    *)
(* process may die between any two steps.  The canonical book is pinned by *)
(* every plan and does not change.                                         *)
(***************************************************************************)
EXTENDS Integers, FiniteSets, FiniteSetsExt, Sequences, SequencesExt

CONSTANTS
    Launches,       \* processes started by hand, once each
    Allocations,
    Outputs,        \* paths given with --out
    Amounts,        \* sizes of allocations and limits of plans, tokens
    Remaining,      \* accounting.remaining of the baseline
    Reserve,        \* reserved for one call
    Units,          \* cases of a run
    Nobody, Unknown

ASSUME ReleaseAssumption ==
    /\ IsFiniteSet(Launches) /\ IsFiniteSet(Allocations)
    /\ Nobody \notin Launches
    /\ Amounts \subseteq Nat
    /\ Remaining \in Nat
    /\ Reserve \in Nat \ {0}
    /\ Units \in Nat \ {0}
    /\ Unknown \notin Nat

VARIABLES
    book,       \* the allocations in the book
    plan,       \* of each launch: entry point, allocation, limit, output
    pc,         \* where each process is
    claims,     \* allocation -> the launch that made its claim directory
    outputs,    \* path -> the launch that made it
    calls,      \* journal of each launch: usage of each call, if it is good, if its model is
    stopped,    \* ledger.stopped
    unit,       \* the case it is at
    failed,     \* a case has no good result, or an exception ended the run
    report,     \* status in report.json
    accounting  \* status in allocation-accounting.json

vars == <<book, plan, pc, claims, outputs, calls, stopped, unit, failed, report, accounting>>
files == <<claims, outputs>>
results == <<report, accounting>>

Plan == [entry : {"direct", "release", "comparison"}, allocation : Allocations,
         limit : Amounts, output : Outputs]

ReleaseInit ==
    /\ book \in [Allocations -> Amounts]
    /\ plan \in [Launches -> Plan]
    /\ pc = [l \in Launches |-> "new"]
    /\ claims = [a \in Allocations |-> Nobody]
    /\ outputs = [p \in Outputs |-> Nobody]
    /\ calls = [l \in Launches |-> <<>>]
    /\ stopped = [l \in Launches |-> FALSE]
    /\ unit = [l \in Launches |-> 0]
    /\ failed = [l \in Launches |-> FALSE]
    /\ report = [l \in Launches |-> "none"]
    /\ accounting = [l \in Launches |-> "none"]

Allocation(l) == plan[l].allocation
Output(l) == plan[l].output
Guarded(l) == plan[l].entry # "direct"

Goto(l, place) == pc' = [pc EXCEPT ![l] = place]

-----------------------------------------------------------------------------
(* Preflight and claim *)

(* Variant: the envelopes are checked one by one. *)
AllocationVerifiedAlone(l) ==
    /\ book[Allocation(l)] <= Remaining
    /\ plan[l].limit <= book[Allocation(l)]

(* All envelopes of the book together. *)
Envelopes == MapThenSumSet(LAMBDA a : book[a], Allocations)

AllocationVerified(l) ==
    /\ Envelopes <= Remaining
    /\ plan[l].limit <= book[Allocation(l)]

Unused(l) == outputs[Output(l)] = Nobody /\ claims[Allocation(l)] = Nobody

(* prepare(), or the checks of main(): a process that fails them is        *)
(* blocked before it has written anything.                                 *)
Prepare(l) ==
    /\ pc[l] = "new"
    /\ Goto(l, IF AllocationVerified(l) /\ Unused(l) THEN "prepared" ELSE "over")
    /\ UNCHANGED <<book, plan, files, calls, stopped, unit, failed, results>>

(* mkdir is exclusive, also against a process that has prepared as well.   *)
Claim(l) ==
    /\ pc[l] = "prepared"
    /\ IF outputs[Output(l)] = Nobody /\ claims[Allocation(l)] = Nobody
       THEN claims' = [claims EXCEPT ![Allocation(l)] = l] /\ Goto(l, "claimed")
       ELSE Goto(l, "over") /\ UNCHANGED claims
    /\ UNCHANGED <<book, plan, outputs, calls, stopped, unit, failed, results>>

(* An output that another run has made in the meantime costs the claim.    *)
MakeOutput(l) ==
    /\ pc[l] = "claimed"
    /\ IF outputs[Output(l)] = Nobody
       THEN /\ outputs' = [outputs EXCEPT ![Output(l)] = l]
            /\ report' = [report EXCEPT ![l] = "INCOMPLETE"]
            /\ unit' = [unit EXCEPT ![l] = 1]
            /\ Goto(l, "ready")
       ELSE Goto(l, "over") /\ UNCHANGED <<outputs, report, unit>>
    /\ UNCHANGED <<book, plan, claims, calls, stopped, failed, accounting>>

-----------------------------------------------------------------------------
(* Calls *)

Charge(c) == IF c.used = Unknown THEN Reserve ELSE c.used

Total(s, Amount(_)) == FoldLeft(LAMBDA total, c : total + Amount(c), 0, s)

Reserved(l) == Total(calls[l], Charge)

(* A stop ends a guarded comparison too: the RunStopped of the wrapper's   *)
(* ledger is another class than the one that the cases catch.              *)
RunEnds(l) ==
    /\ failed' = [failed EXCEPT ![l] = TRUE]
    /\ Goto(l, "closing")

(* The transport is another than planned, the budget is spent or the time  *)
(* is over.                                                                *)
Refuse(l) ==
    /\ pc[l] = "ready"
    /\ \/ Reserved(l) + Reserve > plan[l].limit
       \/ Guarded(l)
    /\ stopped' = [stopped EXCEPT ![l] = TRUE]
    /\ RunEnds(l)
    /\ UNCHANGED <<book, plan, files, calls, unit, results>>

(* The reservation is on disk before the request is sent.                  *)
Dispatch(l) ==
    /\ pc[l] = "ready"
    /\ ~stopped[l]
    /\ Reserved(l) + Reserve <= plan[l].limit
    /\ calls' = [calls EXCEPT ![l] = Append(@, [used |-> Unknown, status |-> "pending",
                                                model |-> "none"])]
    /\ Goto(l, "sent")
    /\ UNCHANGED <<book, plan, files, stopped, unit, failed, results>>

Record(l, status, used, model) ==
    calls' = [calls EXCEPT ![l][Len(calls[l])] = [used |-> used, status |-> status, model |-> model]]

(* On to the next case; a failed one is given up, as release runs do with  *)
(* the whole run if it was the index.                                      *)
CaseOver(l, good) ==
    /\ unit' = [unit EXCEPT ![l] = @ + 1]
    /\ failed' = [failed EXCEPT ![l] = @ \/ (~good /\ plan[l].entry # "comparison")]
    /\ \/ Goto(l, IF unit[l] = Units THEN "closing" ELSE "ready")
       \/ ~good /\ plan[l].entry # "comparison" /\ Goto(l, "closing")
    /\ UNCHANGED stopped

(* Another call of the same case follows. *)
CaseGoesOn(l) == Goto(l, "ready") /\ UNCHANGED <<stopped, unit, failed>>

(* Variant: the resolved model is not looked at. *)
AnsweredByAny(l) ==
    /\ pc[l] = "sent"
    /\ \E good \in BOOLEAN, model \in {"allowed", "other"} :
        /\ Record(l, IF good THEN "ok" ELSE "error", Reserve, model)
        /\ CaseOver(l, good)
    /\ UNCHANGED <<book, plan, files, results>>

(* Usage is known, the model is one of those allowed; the output may be    *)
(* incomplete.  A direct run looks at the model of complete outputs only.  *)
Answered(l) ==
    /\ pc[l] = "sent"
    /\ \E good \in BOOLEAN, used \in 1..Reserve, model \in {"allowed", "other"} :
        /\ model = "other" => ~good /\ ~Guarded(l)
        /\ Record(l, IF good THEN "ok" ELSE "error", used, model)
        /\ CaseOver(l, good) \/ (good /\ CaseGoesOn(l))
    /\ UNCHANGED <<book, plan, files, results>>

(* Usage that is missing or not positive counts as unknown; more than was  *)
(* reserved, or another model, stop the run as well.                       *)
Stopping(l) ==
    /\ pc[l] = "sent"
    /\ \/ Record(l, "error", Unknown, "allowed")
       \/ Record(l, "error", Reserve + 1, "allowed")
       \/ \E used \in 1..Reserve : Record(l, "error", used, "other")
    /\ stopped' = [stopped EXCEPT ![l] = TRUE]
    /\ RunEnds(l)
    /\ UNCHANGED <<book, plan, files, unit, results>>

(* No answer: a timeout stops every run; other errors of the transport     *)
(* stop the guarded ones, where usage is unknown, and some statuses all.   *)
Interrupted(l) ==
    /\ pc[l] = "sent"
    /\ Record(l, "error", Unknown, "none")
    /\ \/ stopped' = [stopped EXCEPT ![l] = TRUE] /\ RunEnds(l) /\ UNCHANGED unit
       \/ ~Guarded(l) /\ CaseOver(l, FALSE)
    /\ UNCHANGED <<book, plan, files, results>>

-----------------------------------------------------------------------------
(* Report and accounting *)

Reported(l) ==
    IF failed[l] \/ stopped[l]
       \/ (plan[l].entry # "comparison"
            /\ \E i \in DOMAIN calls[l] : calls[l][i].status # "ok")
    THEN "INCOMPLETE" ELSE "COMPLETE"

Close(l) ==
    /\ pc[l] = "closing"
    /\ report' = [report EXCEPT ![l] = Reported(l)]
    /\ Goto(l, IF Guarded(l) THEN "accounting" ELSE "over")
    /\ UNCHANGED <<book, plan, files, calls, stopped, unit, failed, accounting>>

UnknownUsage(l) == \E i \in DOMAIN calls[l] : calls[l][i].used = Unknown

Account(l) ==
    /\ pc[l] = "accounting"
    /\ accounting' = [accounting EXCEPT ![l] =
            IF report[l] = "COMPLETE" /\ ~stopped[l] /\ ~UnknownUsage(l)
            THEN "COMPLETE" ELSE "INCOMPLETE"]
    /\ Goto(l, "over")
    /\ UNCHANGED <<book, plan, files, calls, stopped, unit, failed, report>>

(* Ctrl-C, or the time limit of the run: the call under way keeps its      *)
(* reservation, report and accounting are still written.                   *)
Cancel(l) ==
    /\ pc[l] \in {"ready", "sent"}
    /\ IF pc[l] = "sent" THEN Record(l, "error", Unknown, "none") ELSE UNCHANGED calls
    /\ stopped' = [stopped EXCEPT ![l] = TRUE]
    /\ RunEnds(l)
    /\ UNCHANGED <<book, plan, files, unit, results>>

(* The process is killed. *)
Die(l) ==
    /\ pc[l] \notin {"new", "over"}
    /\ Goto(l, "over")
    /\ UNCHANGED <<book, plan, files, calls, stopped, unit, failed, results>>

AllOver == (\A l \in Launches : pc[l] = "over") /\ UNCHANGED vars

Next ==
    \/ \E l \in Launches :
        \/ Prepare(l) \/ Claim(l) \/ MakeOutput(l)
        \/ Refuse(l) \/ Dispatch(l) \/ Answered(l) \/ Stopping(l) \/ Interrupted(l)
        \/ Close(l) \/ Account(l)
        \/ Cancel(l) \/ Die(l)
    \/ AllOver

Spec == ReleaseInit /\ [][Next]_vars

-----------------------------------------------------------------------------
(* Properties *)

(* What a call may have cost. *)
Worst(c) == IF c.used \in Nat \ {0} THEN c.used ELSE Reserve

Overcharged(l) == \E i \in DOMAIN calls[l] : calls[l][i].used = Reserve + 1

Spent(l) == Total(calls[l], Worst)

(* Whatever processes are started at once, killed and started again, all   *)
(* of them together spend no more than the audited baseline had left, as   *)
(* long as the provider keeps to the reserved tokens.                      *)
SpendWithinBaseline ==
    (\A l \in Launches : ~Overcharged(l))
        => MapThenSumSet(Spent, Launches) <= Remaining

(* What counts as complete is so: every case was done, every call answered *)
(* by an allowed model, and the cost is what was reported.                 *)
CompleteIsKnown ==
    \A l \in Launches :
        (accounting[l] = "COMPLETE" \/ (report[l] = "COMPLETE" /\ plan[l].entry = "direct"))
        => /\ unit[l] = Units + 1
           /\ \A i \in DOMAIN calls[l] :
                calls[l][i].used \in 1..Reserve /\ calls[l][i].model = "allowed"
=============================================================================
