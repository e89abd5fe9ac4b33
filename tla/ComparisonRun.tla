---------------------------- MODULE ComparisonRun ----------------------------
(***************************************************************************)
(* One comparison of memory strategies (evaluations/held_out/comparison.py) *)
(* and the continuation of a run that was stopped (continue_comparison.py): *)
(* histories are indexed and queried beside each other, the answers are    *)
(* reviewed when all are there, and a continuation does what was never     *)
(* sent, one call at a time.                                               *)
(*                                                                         *)
(* One trial; a history is indexed in one call, and asked one query in     *)
(* each strategy: a row is a history and a strategy.                       *)
(***************************************************************************)
EXTENDS Ledger, Sequences, SequencesExt

CONSTANTS
    Histories,
    Strategies,     \* the strategies in the order of a query
    MaxCalls,       \* limits.max_calls of the first plan, and what each continuation adds
    MaxTokens,      \* limits.max_reserved_tokens, likewise
    MaxRounds       \* bound on continuations

Rows == Histories \X ToSet(Strategies)

ASSUME RunAssumption ==
    /\ Strategies \in Seq(STRING)
    /\ \A i, j \in DOMAIN Strategies : Strategies[i] = Strategies[j] => i = j
    /\ Histories \cap Rows = {}
    /\ Tasks = Histories \cup Rows
    /\ MaxCalls \in Nat /\ MaxTokens \in Nat /\ MaxRounds \in Nat

VARIABLES
    round,      \* 1 for the run, then its continuations
    stage,      \* what is being done
    status,     \* report["status"]
    begun,      \* histories whose task has a worker
    ended,      \* histories whose task has ended
    lifecycle,  \* whether the index of a history is complete
    row,        \* the result of each row
    review,     \* its review
    indices     \* the rows this stage is about

runVars == <<round, stage, status, begun, ended, lifecycle, row, review, indices>>
vars == <<ledgerVars, runVars>>

RunInit ==
    /\ LedgerInit
    /\ round = 1
    /\ stage = "generating"
    /\ status = "RUNNING"
    /\ begun = {}
    /\ ended = {}
    /\ lifecycle = [h \in Histories |-> "none"]
    /\ row = [r \in Rows |-> "none"]
    /\ review = [r \in Rows |-> "none"]
    /\ indices = Rows

Scope(phase, op, of) == [phase |-> phase, op |-> op, of |-> of, round |-> round]

-----------------------------------------------------------------------------
(* run_history() *)

(* The worker semaphore; a continuation takes one history after the other, *)
(* and none when it has stopped.                                           *)
Workers == IF round = 1 THEN Slots ELSE 1

Groups == {r[1] : r \in indices}

BeginHistory(h) ==
    /\ stage = "generating"
    /\ h \in (IF round = 1 THEN Histories ELSE Groups) \ begun
    /\ Cardinality(begun \ ended) < Workers
    /\ round > 1 => ~stopped
    /\ begun' = begun \cup {h}
    /\ Request(h, Scope(IF lifecycle[h] = "complete" THEN "recovery" ELSE "index", "index", h))
    /\ UNCHANGED <<stopped, calls, round, stage, status, ended, lifecycle, row, review, indices>>

(* The rows of a history after its i-th strategy: the next one is asked,   *)
(* in tree mode by a navigation first.                                     *)
NextRow(h, i) ==
    LET todo == {j \in (i + 1)..Len(Strategies) : <<h, Strategies[j]>> \in indices}
        r == <<h, Strategies[Min(todo)]>>
    IN  IF todo = {} \/ (round > 1 /\ stopped)
        THEN /\ ended' = ended \cup {h}
             /\ at' = [at EXCEPT ![h] = "out"]
             /\ scope' = [scope EXCEPT ![h] = NoCall]
             /\ result' = [result EXCEPT ![h] = "none"]
        ELSE /\ Request(h, Scope("query", IF r[2] = "tree" THEN "navigate" ELSE "answer", r))
             /\ UNCHANGED ended

Returned(h, op) == at[h] = "out" /\ result[h] # "none" /\ scope[h].op = op

(* build_index() returns or raises.  A continuation that is stopped by it  *)
(* leaves the rows alone.                                                  *)
Indexed(h) ==
    /\ Returned(h, "index")
    /\ lifecycle' = [lifecycle EXCEPT ![h] = IF result[h] = "ok" THEN "complete" ELSE "error"]
    /\ NextRow(h, 0)
    /\ UNCHANGED <<stopped, calls, round, stage, status, begun, row, review, indices>>

Position(r) == CHOOSE i \in DOMAIN Strategies : Strategies[i] = r[2]

(* A navigation without result leaves retrieval to search, except that     *)
(* RunStopped ends the row.                                                *)
Navigated(h) ==
    /\ Returned(h, "navigate")
    /\ LET r == scope[h].of
       IN  IF result[h] = "RunStopped"
           THEN /\ row' = [row EXCEPT ![r] = "RunStopped"]
                /\ NextRow(h, Position(r))
           ELSE /\ Request(h, Scope("query", "answer", r))
                /\ UNCHANGED <<row, ended>>
    /\ UNCHANGED <<stopped, calls, round, stage, status, begun, lifecycle, review, indices>>

(* The answer is parsed: answered, abstained, or no valid answer.          *)
Queried(h) ==
    /\ Returned(h, "answer")
    /\ LET r == scope[h].of
       IN  /\ \E how \in CASE result[h] = "ok"         -> {"answered", "abstained", "error"}
                           [] result[h] = "RunStopped" -> {"RunStopped"}
                           [] OTHER                    -> {"error"} :
                row' = [row EXCEPT ![r] = how]
           /\ NextRow(h, Position(r))
    /\ UNCHANGED <<stopped, calls, round, stage, status, begun, lifecycle, review, indices>>

-----------------------------------------------------------------------------
(* Reviews *)

ReviewSent == {c.scope.of : c \in {d \in calls : d.scope.phase = "review"}}

(* All tasks of the group have ended, or a stopped continuation breaks off. *)
Generated ==
    /\ stage = "generating"
    /\ begun = ended
    /\ \/ begun = (IF round = 1 THEN Histories ELSE Groups)
       \/ round > 1 /\ stopped
    /\ stage' = "reviewing"
    /\ indices' = {r \in Rows : row[r] # "none"} \ (IF round = 1 THEN {} ELSE ReviewSent)
    /\ UNCHANGED <<ledgerVars, round, status, begun, ended, lifecycle, row, review>>

Reviewing(r) == scope[r].phase = "review"

(* review_case(): only an answer is sent.                                  *)
BeginReview(r) ==
    /\ stage = "reviewing"
    /\ r \in indices
    /\ round > 1 => ~stopped /\ \A other \in Rows : ~Reviewing(other)
    /\ indices' = indices \ {r}
    /\ IF row[r] = "answered"
       THEN Request(r, Scope("review", "review", r)) /\ UNCHANGED review
       ELSE review' = [review EXCEPT ![r] = "not_needed"] /\ UNCHANGED <<at, scope, result>>
    /\ UNCHANGED <<stopped, calls, round, stage, status, begun, ended, lifecycle, row>>

EndReview(r) ==
    /\ Returned(r, "review")
    /\ review' = [review EXCEPT ![r] = IF result[r] = "ok" THEN "ok" ELSE "error"]
    /\ scope' = [scope EXCEPT ![r] = NoCall]
    /\ result' = [result EXCEPT ![r] = "none"]
    /\ UNCHANGED <<stopped, calls, at, round, stage, status, begun, ended, lifecycle, row,
                   indices>>

-----------------------------------------------------------------------------
(* The run *)

ReviewsOver ==
    /\ stage = "reviewing"
    /\ \A r \in Rows : ~Reviewing(r)
    /\ indices = {} \/ (round > 1 /\ stopped)

(* Variant: whether the run was stopped is not asked. *)
EndRunAnyway ==
    /\ ReviewsOver
    /\ stage' = "ended"
    /\ status' = IF round = 1 THEN "COMPLETE" ELSE "COMPLETE_WITH_FAILURES"
    /\ UNCHANGED <<ledgerVars, round, begun, ended, lifecycle, row, review, indices>>

EndRun ==
    /\ ReviewsOver
    /\ stage' = "ended"
    /\ status' = IF stopped THEN "INCOMPLETE"
                 ELSE IF round = 1 THEN "COMPLETE" ELSE "COMPLETE_WITH_FAILURES"
    /\ UNCHANGED <<ledgerVars, round, begun, ended, lifecycle, row, review, indices>>

(* The time limit, an interrupt or an exception that no row catches: all   *)
(* tasks are cancelled, the rows under way leave no result.                *)
Abort ==
    /\ stage \in {"generating", "reviewing"}
    /\ stage' = "ended"
    /\ status' = "INCOMPLETE"
    /\ CancelCalls
    /\ UNCHANGED <<round, begun, ended, lifecycle, row, review, indices>>

(* Variant: a row whose navigation was sent is taken for undispatched. *)
PendingRowsByAnswer ==
    {r \in Rows : /\ row[r] = "RunStopped"
                  /\ ~\E c \in calls : c.scope.op = "answer" /\ c.scope.of = r}

(* Rows that failed for the stop alone: nothing was sent for them.         *)
PendingRows ==
    {r \in Rows : /\ row[r] = "RunStopped"
                  /\ ~\E c \in calls : c.scope.phase = "query" /\ c.scope.of = r}

(* A new ledger with all the calls of its parent, under a new plan.        *)
Continue ==
    /\ stage = "ended"
    /\ status = "INCOMPLETE"
    /\ ~\E c \in calls : c.status = "pending"
    /\ round < MaxRounds
    /\ round' = round + 1
    /\ stage' = "generating"
    /\ status' = "RUNNING"
    /\ stopped' = FALSE
    /\ begun' = {}
    /\ ended' = {}
    /\ indices' = PendingRows
    /\ UNCHANGED <<calls, at, scope, result, lifecycle, row, review>>

(* The report stays as it is. *)
Stay == stage = "ended" /\ UNCHANGED vars

CallStep == \E t \in Tasks : LedgerStep(t, MaxCalls * round, MaxTokens * round)

Next ==
    \/ \E h \in Histories : BeginHistory(h) \/ Indexed(h) \/ Navigated(h) \/ Queried(h)
    \/ \E r \in Rows : BeginReview(r) \/ EndReview(r)
    \/ CallStep /\ UNCHANGED runVars
    \/ Generated
    \/ EndRun
    \/ Abort
    \/ Continue
    \/ Stay

Spec == RunInit /\ [][Next]_vars

-----------------------------------------------------------------------------
(* Properties *)

(* What a call may have cost: what the provider says if that makes sense,  *)
(* and everything that was reserved otherwise.                             *)
Worst(c) == IF c.used \in Nat \ {0} THEN c.used ELSE Reserve

(* Whatever calls run beside each other, and whatever their answers leave  *)
(* out, all of them together cost no more than the plan allows, as long as *)
(* the provider keeps to what was reserved.                                *)
WithinPlan ==
    /\ Cardinality(calls) <= MaxCalls * round
    /\ (\A c \in calls : c.used \in {Unknown} \cup 1..Reserve)
         => MapThenSumSet(Worst, calls) <= MaxTokens * round

(* Once a run has stopped it sends nothing more, though calls were queued  *)
(* or asleep when it stopped.                                              *)
NothingSentAfterStop == [][stopped => Cardinality(calls') = Cardinality(calls)]_vars

(* No continuation sends a query or a review again for which anything was  *)
(* ever sent: "Never retry a dispatched query or review."                  *)
NeverSentTwice ==
    \A c, d \in calls :
        c.scope.phase \in {"query", "review"} /\ c.scope.phase = d.scope.phase
            /\ c.scope.of = d.scope.of
        => c.scope.round = d.scope.round

(* A run that counts as complete has a result in every row, a review of    *)
(* every answer, and its cost is what the provider really reported, or it  *)
(* is marked as unknown.                                                   *)
CompleteMeansComplete ==
    status = "COMPLETE" =>
        /\ \A r \in Rows :
            /\ row[r] \in {"answered", "abstained", "error"}
            /\ row[r] = "answered" => review[r] \in {"ok", "error"}
        /\ \A c \in calls : c.status # "pending" /\ c.used # 0
=============================================================================
