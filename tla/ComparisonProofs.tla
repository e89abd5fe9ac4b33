--------------------------- MODULE ComparisonProofs ---------------------------
(***************************************************************************)
(* Proofs about ComparisonRun, for any histories, strategies, limits and   *)
(* continuations: no query or review is sent twice, a complete run is      *)
(* complete, a stopped run sends nothing, and the plan's limits hold.      *)
(***************************************************************************)
EXTENDS ComparisonRun, SetsAndQueues

-----------------------------------------------------------------------------
(* The inductive invariant *)

Places == {"out", "queued", "pacing", "sent"}
Outcomes == {"none", "ok", "ProviderError", "RunStopped", "TimeoutError"}

Scopes == [phase : {"index", "recovery", "query", "review"},
           op : {"index", "navigate", "answer", "review"},
           of : Histories \cup Rows,
           round : Nat \ {0}]

Journaled == [scope : Scopes, status : {"pending", "ok", "error"},
              used : {Unknown} \cup 0..(Reserve + 1)]

(* What is to be sent has not been sent. *)
Unsent(t) == at[t] \in {"queued", "pacing"}

LedgerInv ==
    /\ stopped \in BOOLEAN
    /\ at \in [Tasks -> Places]
    /\ result \in [Tasks -> Outcomes]
    /\ scope \in [Tasks -> Scopes \cup {NoCall}]
    /\ \A t \in Tasks :
        /\ scope[t] = NoCall => at[t] = "out" /\ result[t] = "none"
        /\ scope[t] # NoCall => (at[t] = "out" <=> result[t] # "none")
        /\ result[t] = "RunStopped" => stopped

(* The journal has one entry for each scope, those of the tasks that have  *)
(* sent and got no answer yet are pending, and no others are.              *)
JournalInv ==
    /\ IsFiniteSet(calls) /\ calls \subseteq Journaled
    /\ \A c, d \in calls : c.scope = d.scope => c = d
    /\ \A c \in calls : c.scope.round <= round
    /\ \A c \in calls : c.status = "pending" =>
            /\ c.used = Unknown
            /\ \E t \in Tasks : at[t] = "sent" /\ scope[t] = c.scope
    /\ \A t \in Tasks : at[t] = "sent" =>
            \E c \in calls : c.scope = scope[t] /\ c.status = "pending"
    /\ \A t \in Tasks : Unsent(t) => \A c \in calls : c.scope # scope[t]

Indexing(h) ==
    /\ scope[h].phase \in {"index", "recovery"} /\ scope[h].op = "index"
    /\ scope[h].of = h

Querying(h) ==
    /\ scope[h].phase = "query" /\ scope[h].op \in {"navigate", "answer"}
    /\ scope[h].of \in indices /\ scope[h].of[1] = h

(* Which tasks call at what stage. *)
StageInv ==
    /\ round \in Nat \ {0}
    /\ stage \in {"generating", "reviewing", "ended"}
    /\ ended \subseteq begun /\ begun \subseteq Histories /\ indices \subseteq Rows
    /\ DOMAIN row = Rows /\ DOMAIN review = Rows
    /\ \A h \in Histories : scope[h] # NoCall =>
        /\ stage = "generating" /\ h \in begun \ ended
        /\ scope[h].round = round
        /\ Indexing(h) \/ Querying(h)
    /\ \A r \in Rows : scope[r] # NoCall =>
        /\ stage = "reviewing" /\ r \notin indices
        /\ scope[r] = Scope("review", "review", r)

(* Whether the history has come past the request s. *)
Past(s) ==
    LET h == s.of[1]
    IN  \/ h \in ended
        \/ /\ scope[h].phase = "query"
           /\ \/ Position(s.of) < Position(scope[h].of)
              \/ s.of = scope[h].of /\ (s.op = "answer" => scope[h].op = "answer")

(* What was sent with the scope s, seen from what this stage may still     *)
(* send.                                                                   *)
SentToGenerate(s) ==
    /\ s.phase = "query" /\ s.of \in indices => s.round = round /\ Past(s)
    /\ s.phase \in {"index", "recovery"} /\ s.round = round => s.of \in begun
    /\ s.phase = "review" => s.round < round

SentToReview(s) ==
    s.phase = "review" =>
        s.of \notin indices /\ (Reviewing(s.of) => s.round = round)

SentInv ==
    \A c \in calls :
        /\ stage = "generating" => SentToGenerate(c.scope)
        /\ stage = "reviewing" => SentToReview(c.scope)

(* The history has come past its i-th row. *)
PastRow(h, i) ==
    \/ h \in ended
    \/ scope[h] # NoCall /\ scope[h].phase = "query" /\ i < Position(scope[h].of)

Reviewed(r) == row[r] = "answered" => r \in indices \/ Reviewing(r) \/ review[r] \in {"ok", "error"}

(* What the first run leaves behind it. *)
CompleteInv ==
    /\ status = "COMPLETE" => stage = "ended"
    /\ round = 1 =>
        /\ \A r \in Rows : row[r] \in {"none", "answered", "abstained", "error", "RunStopped"}
        /\ \A r \in Rows : row[r] = "RunStopped" => stopped
        /\ \A c \in calls : c.used = 0 => stopped
        /\ stage = "generating" =>
            /\ indices = Rows
            /\ \A h \in Histories, i \in DOMAIN Strategies :
                    PastRow(h, i) => row[<<h, Strategies[i]>>] # "none"
        /\ stage = "reviewing" => \A r \in Rows : row[r] # "none" /\ Reviewed(r)
    /\ CompleteMeansComplete

IInv ==
    /\ LedgerInv
    /\ JournalInv
    /\ StageInv
    /\ SentInv
    /\ CompleteInv
    /\ NeverSentTwice

-----------------------------------------------------------------------------
(* Rows, positions and tasks *)

LEMMA RowsAre ==
    /\ \A r \in Rows : /\ r[1] \in Histories /\ Position(r) \in 1..Len(Strategies)
                       /\ r = <<r[1], Strategies[Position(r)]>>
    /\ \A h \in Histories, i \in 1..Len(Strategies) :
            <<h, Strategies[i]>> \in Rows /\ Position(<<h, Strategies[i]>>) = i
<1>1. Strategies \in Seq(STRING) /\ DOMAIN Strategies = 1..Len(Strategies)
    BY RunAssumption
<1>2. \A i, j \in 1..Len(Strategies) : Strategies[i] = Strategies[j] => i = j
    BY <1>1, RunAssumption
<1>3. ToSet(Strategies) = {Strategies[i] : i \in 1..Len(Strategies)}
    BY <1>1 DEF ToSet
<1>4. ASSUME NEW r \in Rows
      PROVE  /\ r[1] \in Histories /\ Position(r) \in 1..Len(Strategies)
             /\ r = <<r[1], Strategies[Position(r)]>>
    <2>1. PICK h \in Histories, x \in ToSet(Strategies) : r = <<h, x>>
        BY DEF Rows
    <2>2. PICK i \in 1..Len(Strategies) : x = Strategies[i]
        BY <1>3
    <2>3. Position(r) \in 1..Len(Strategies) /\ Strategies[Position(r)] = r[2]
        BY <1>1, <2>1, <2>2 DEF Position
    <2>4. QED
        BY <2>1, <2>3
<1>5. ASSUME NEW h \in Histories, NEW i \in 1..Len(Strategies)
      PROVE  <<h, Strategies[i]>> \in Rows /\ Position(<<h, Strategies[i]>>) = i
    <2>1. <<h, Strategies[i]>> \in Rows
        BY <1>3 DEF Rows
    <2>2. Position(<<h, Strategies[i]>>) = CHOOSE j \in 1..Len(Strategies) : Strategies[j] = Strategies[i]
        BY <1>1 DEF Position
    <2>3. QED
        BY <1>2, <2>1, <2>2
<1>6. QED
    BY <1>4, <1>5

LEMMA TasksAre ==
    /\ Tasks = Histories \cup Rows
    /\ Histories \cap Rows = {}
BY RunAssumption

(* No two tasks ask for the same. *)
LEMMA Apart ==
    ASSUME StageInv, NEW t \in Tasks, NEW u \in Tasks, t # u, scope[t] # NoCall
    PROVE  scope[t] # scope[u]
<1>1. SUFFICES ASSUME scope[t] = scope[u] PROVE FALSE
    OBVIOUS
<1>2. CASE t \in Histories /\ u \in Histories
    <2>1. Indexing(t) \/ Querying(t)
        BY <1>2 DEF StageInv
    <2>2. Indexing(u) \/ Querying(u)
        BY <1>1, <1>2 DEF StageInv
    <2>3. QED
        BY <1>1, <2>1, <2>2 DEF Indexing, Querying
<1>3. CASE t \in Rows /\ u \in Rows
    <2>1. /\ scope[t] = Scope("review", "review", t)
          /\ scope[u] = Scope("review", "review", u)
        BY <1>1, <1>3 DEF StageInv
    <2>2. scope[t].of = t /\ scope[u].of = u
        BY <2>1 DEF Scope
    <2>3. QED
        BY <1>1, <2>2
<1>4. CASE (t \in Histories /\ u \in Rows) \/ (t \in Rows /\ u \in Histories)
    BY <1>1, <1>4 DEF StageInv
<1>5. QED
    BY <1>2, <1>3, <1>4, TasksAre

LEMMA NoneOutside ==
    ASSUME StageInv
    PROVE  /\ stage = "ended" => \A t \in Tasks : scope[t] = NoCall
           /\ stage # "generating" => \A h \in Histories : scope[h] = NoCall
           /\ stage # "reviewing" => \A r \in Rows : scope[r] = NoCall
BY TasksAre DEF StageInv

LEMMA MyCallIs ==
    ASSUME JournalInv, NEW t \in Tasks, at[t] = "sent"
    PROVE  /\ MyCall(t) \in calls /\ MyCall(t).scope = scope[t]
           /\ MyCall(t).status = "pending" /\ MyCall(t).used = Unknown
           /\ \A c \in calls : c.scope = scope[t] => c = MyCall(t)
<1>1. PICK c \in calls : c.scope = scope[t] /\ c.status = "pending"
    BY DEF JournalInv
<1>2. \A d \in calls : d.scope = scope[t] => d = c
    BY <1>1 DEF JournalInv
<1>3. MyCall(t) = c
    BY <1>1, <1>2 DEF MyCall
<1>4. QED
    BY <1>1, <1>2, <1>3 DEF JournalInv


-----------------------------------------------------------------------------
(* The steps of a call *)

Stops(how) == stopped' \in BOOLEAN /\ (stopped \/ how = "RunStopped" => stopped')

Paces(t) ==
    /\ at[t] = "queued" /\ at' = [at EXCEPT ![t] = "pacing"]
    /\ UNCHANGED <<stopped, calls, scope, result>>

Quits(t) ==
    /\ Unsent(t)
    /\ \E how \in {"RunStopped", "ProviderError"} : Raise(t, how) /\ Stops(how)
    /\ UNCHANGED calls

Sends(t) == at[t] = "pacing" /\ ~stopped /\ Send(t)

Ends(t) ==
    /\ at[t] = "sent"
    /\ \E how \in Outcomes \ {"none"}, state \in {"ok", "error"},
          used \in {Unknown} \cup 0..(Reserve + 1) :
            Record(t, state, used) /\ Raise(t, how) /\ Stops(how) /\ (used = 0 => stopped')

LEMMA CallForms ==
    ASSUME LedgerInv, NEW t \in Tasks, NEW a, NEW b, LedgerStep(t, a, b)
    PROVE  \/ Paces(t) \/ Quits(t) \/ Ends(t)
           \/ Sends(t) /\ ~Exhausted(a, b)
<1>0. stopped \in BOOLEAN /\ Reserve \in Nat \ {0}
    BY LedgerAssumption DEF LedgerInv
<1>1. CASE Enter(t)
    BY <1>0, <1>1 DEF Enter, Paces, Quits, Unsent, Stops
<1>2. CASE Dispatch(t, a, b)
    BY <1>0, <1>2 DEF Dispatch, Quits, Sends, Unsent, Stops
<1>3. CASE Answered(t)
    <2>1. 1..Reserve \subseteq 0..(Reserve + 1) /\ Reserve \in 0..(Reserve + 1) /\ Reserve # 0
        BY <1>0
    <2>2. at[t] = "sent" /\ stopped' = stopped
        BY <1>3 DEF Answered
    <2>3. CASE \E used \in 1..Reserve : Record(t, "ok", used) /\ Raise(t, "ok")
        <3>1. PICK used \in 1..Reserve : Record(t, "ok", used) /\ Raise(t, "ok")
            BY <2>3
        <3>2. used # 0 /\ Stops("ok")
            BY <1>0, <2>2 DEF Stops
        <3>3. QED
            BY <2>1, <2>2, <3>1, <3>2 DEF Ends, Outcomes
    <2>4. CASE Record(t, "error", Reserve) /\ Raise(t, "ProviderError")
        <3>1. Stops("ProviderError")
            BY <1>0, <2>2 DEF Stops
        <3>2. QED
            BY <2>1, <2>2, <2>4, <3>1 DEF Ends, Outcomes
    <2>5. QED
        BY <1>3, <2>3, <2>4 DEF Answered
<1>4. CASE BadUsage(t)
    <2>1. PICK used \in {Unknown, 0, Reserve + 1} : Record(t, "error", used)
        BY <1>4 DEF BadUsage
    <2>2. used \in {Unknown} \cup 0..(Reserve + 1)
        BY <1>0
    <2>3. at[t] = "sent" /\ Raise(t, "RunStopped") /\ stopped' = TRUE
        BY <1>4 DEF BadUsage
    <2>4. QED
        BY <2>1, <2>2, <2>3 DEF Ends, Outcomes, Stops
<1>5. CASE Refused(t)
    <2>1. Unknown # 0
        BY LedgerAssumption
    <2>2. stopped' = stopped \/ stopped' = TRUE
        BY <1>5 DEF Refused
    <2>3. Stops("ProviderError")
        BY <1>0, <2>2 DEF Stops
    <2>4. QED
        BY <1>5, <2>1, <2>3 DEF Refused, Ends, Outcomes
<1>6. CASE TimedOut(t)
    <2>1. Unknown # 0
        BY LedgerAssumption
    <2>2. QED
        BY <1>0, <1>6, <2>1 DEF TimedOut, Ends, Outcomes, Stops
<1>7. QED
    BY <1>1, <1>2, <1>3, <1>4, <1>5, <1>6 DEF LedgerStep

(* What Record makes of the journal. *)
Replaced(t, state, used, new) ==
    /\ new.scope = scope[t] /\ new.status = state /\ new.used = used
    /\ new \in Journaled
    /\ calls' = {c \in calls : c.scope # scope[t]} \cup {new}

LEMMA Recorded ==
    ASSUME JournalInv, NEW t \in Tasks, at[t] = "sent", NEW state \in {"ok", "error"},
           NEW used \in {Unknown} \cup 0..(Reserve + 1), Record(t, state, used)
    PROVE  \E new : Replaced(t, state, used, new)
<1>1. PICK new : new = [MyCall(t) EXCEPT !.status = state, !.used = used]
    OBVIOUS
<1>2. /\ MyCall(t) \in calls /\ MyCall(t).scope = scope[t]
      /\ \A c \in calls : c.scope = scope[t] => c = MyCall(t)
    BY MyCallIs
<1>3. MyCall(t) \in Journaled
    BY <1>2 DEF JournalInv
<1>4. new.scope = scope[t] /\ new.status = state /\ new.used = used /\ new \in Journaled
    BY <1>1, <1>2, <1>3 DEF Journaled
<1>5. calls' = (calls \ {MyCall(t)}) \cup {new}
    BY <1>1 DEF Record
<1>6. calls \ {MyCall(t)} = {c \in calls : c.scope # scope[t]}
    BY <1>2
<1>7. QED
    BY <1>4, <1>5, <1>6 DEF Replaced

LEMMA CallKeepsLedger ==
    ASSUME LedgerInv, NEW t \in Tasks, Paces(t) \/ Quits(t) \/ Sends(t) \/ Ends(t)
    PROVE  LedgerInv'
<1>1. at[t] # "out" /\ scope[t] # NoCall
    BY DEF LedgerInv, Paces, Quits, Sends, Ends, Unsent
<1>2. scope' = scope
    BY DEF Paces, Quits, Sends, Ends, Send, Raise
<1>3. CASE Paces(t) \/ Sends(t)
    <2>1. /\ \E p \in {"pacing", "sent"} : at' = [at EXCEPT ![t] = p]
          /\ result' = result /\ stopped' = stopped
        BY <1>3 DEF Paces, Sends, Send
    <2>2. QED
        BY <1>1, <1>2, <2>1 DEF LedgerInv, Places
<1>4. CASE Quits(t) \/ Ends(t)
    <2>1. PICK how \in Outcomes \ {"none"} : Raise(t, how) /\ Stops(how)
        <3>1. {"RunStopped", "ProviderError"} \subseteq Outcomes \ {"none"}
            BY DEF Outcomes
        <3>2. QED
            BY <1>4, <3>1 DEF Quits, Ends
    <2>2. at' = [at EXCEPT ![t] = "out"] /\ result' = [result EXCEPT ![t] = how]
        BY <2>1 DEF Raise
    <2>3. at' \in [Tasks -> Places] /\ result' \in [Tasks -> Outcomes]
        BY <2>2 DEF LedgerInv, Places
    <2>4. stopped' \in BOOLEAN /\ (stopped => stopped') /\ (how = "RunStopped" => stopped')
        BY <2>1 DEF Stops
    <2>5. ASSUME NEW u \in Tasks
          PROVE  /\ scope[u] = NoCall => at'[u] = "out" /\ result'[u] = "none"
                 /\ scope[u] # NoCall => (at'[u] = "out" <=> result'[u] # "none")
                 /\ result'[u] = "RunStopped" => stopped'
        BY <1>1, <2>2, <2>4 DEF LedgerInv
    <2>6. QED
        BY <1>2, <2>3, <2>4, <2>5 DEF LedgerInv
<1>5. QED
    BY <1>3, <1>4

(* The task t has a scope of this round, as every task that calls. *)
LEMMA CallerScope ==
    ASSUME LedgerInv, StageInv, NEW t \in Tasks, scope[t] # NoCall
    PROVE  scope[t] \in Scopes /\ scope[t].round = round
<1>1. CASE t \in Histories
    BY <1>1 DEF LedgerInv, StageInv
<1>2. CASE t \in Rows
    <2>1. scope[t] = Scope("review", "review", t)
        BY <1>2 DEF StageInv
    <2>2. QED
        BY <2>1 DEF LedgerInv, Scope
<1>3. QED
    BY <1>1, <1>2, TasksAre

LEMMA SendKeepsJournal ==
    ASSUME LedgerInv, JournalInv, StageInv, NEW t \in Tasks, Sends(t), round' = round
    PROVE  JournalInv'
<1> DEFINE new == [scope |-> scope[t], status |-> "pending", used |-> Unknown]
<1>1. /\ at' = [at EXCEPT ![t] = "sent"] /\ scope' = scope
      /\ calls' = calls \cup {new}
    BY DEF Sends, Send
<1>2. at[t] = "pacing" /\ scope[t] # NoCall /\ at \in [Tasks -> Places]
    BY DEF Sends, LedgerInv
<1>3. scope[t] \in Scopes /\ scope[t].round = round /\ round \in Nat
    BY <1>2, CallerScope DEF StageInv
<1>4. \A c \in calls : c.scope # scope[t]
    BY <1>2 DEF JournalInv, Unsent
<1>5. new \in Journaled
    BY <1>3 DEF Journaled
<1>6. IsFiniteSet(calls')
    BY <1>1, FS_AddElement DEF JournalInv
<1>7. \A u \in Tasks : u # t => at'[u] = at[u] /\ scope[u] # scope[t]
    BY <1>1, <1>2, Apart
<1>8. at'[t] = "sent"
    BY <1>1, <1>2
<1>9. \A c, d \in calls' : c.scope = d.scope => c = d
    BY <1>1, <1>4 DEF JournalInv
<1>10. \A c \in calls' : c.scope.round <= round
    BY <1>1, <1>3 DEF JournalInv
<1>11. \A c \in calls' : c.status = "pending" =>
            c.used = Unknown /\ \E u \in Tasks : at'[u] = "sent" /\ scope[u] = c.scope
    <2>1. ASSUME NEW c \in calls', c.status = "pending"
          PROVE  c.used = Unknown /\ \E u \in Tasks : at'[u] = "sent" /\ scope[u] = c.scope
        <3>1. CASE c = new
            BY <1>8, <3>1
        <3>2. CASE c \in calls
            <4>1. PICK u \in Tasks : at[u] = "sent" /\ scope[u] = c.scope
                BY <2>1, <3>2 DEF JournalInv
            <4>2. c.used = Unknown
                BY <2>1, <3>2 DEF JournalInv
            <4>3. u # t
                BY <1>2, <4>1
            <4>4. QED
                BY <1>7, <4>1, <4>2, <4>3
        <3>3. QED
            BY <1>1, <3>1, <3>2
    <2>2. QED
        BY <2>1
<1>12. \A u \in Tasks : at'[u] = "sent" => \E c \in calls' : c.scope = scope[u] /\ c.status = "pending"
    <2>1. ASSUME NEW u \in Tasks, at'[u] = "sent"
          PROVE  \E c \in calls' : c.scope = scope[u] /\ c.status = "pending"
        <3>1. CASE u = t
            <4>1. new \in calls' /\ new.scope = scope[t] /\ new.status = "pending"
                BY <1>1
            <4>2. QED
                BY <3>1, <4>1
        <3>2. CASE u # t
            BY <1>1, <1>7, <2>1, <3>2 DEF JournalInv
        <3>3. QED
            BY <3>1, <3>2
    <2>2. QED
        BY <2>1
<1>13. \A u \in Tasks : at'[u] \in {"queued", "pacing"} => \A c \in calls' : c.scope # scope[u]
    <2>1. ASSUME NEW u \in Tasks, at'[u] \in {"queued", "pacing"}, NEW c \in calls'
          PROVE  c.scope # scope[u]
        <3>1. u # t
            BY <1>8, <2>1
        <3>2. at[u] \in {"queued", "pacing"} /\ scope[u] # scope[t]
            BY <1>7, <2>1, <3>1
        <3>3. QED
            BY <1>1, <3>2 DEF JournalInv, Unsent
    <2>2. QED
        BY <2>1
<1>14. calls' \subseteq Journaled
    BY <1>1, <1>5 DEF JournalInv
<1>15. QED
    BY <1>1, <1>6, <1>9, <1>10, <1>11, <1>12, <1>13, <1>14 DEF JournalInv, Unsent

LEMMA EndKeepsJournal ==
    ASSUME LedgerInv, JournalInv, StageInv, NEW t \in Tasks, Ends(t), round' = round
    PROVE  JournalInv'
<1>1. PICK how \in Outcomes \ {"none"}, state \in {"ok", "error"},
           used \in {Unknown} \cup 0..(Reserve + 1) :
            Record(t, state, used) /\ Raise(t, how)
    BY DEF Ends
<1>2. at[t] = "sent" /\ at' = [at EXCEPT ![t] = "out"] /\ scope' = scope
    BY <1>1 DEF Ends, Raise
<1>3. at \in [Tasks -> Places] /\ scope[t] # NoCall
    BY <1>2 DEF LedgerInv
<1>4. PICK new : Replaced(t, state, used, new)
    BY <1>1, <1>2, Recorded
<1>5. MyCall(t) \in calls /\ MyCall(t).scope = scope[t]
    BY <1>2, MyCallIs
<1>6. calls' = {c \in calls : c.scope # scope[t]} \cup {new}
    BY <1>4 DEF Replaced
<1>7. new \in Journaled /\ new.scope = scope[t] /\ new.status \in {"ok", "error"}
    BY <1>4 DEF Replaced
<1>8. IsFiniteSet(calls')
    <2>1. IsFiniteSet(calls \cup {new})
        BY FS_AddElement DEF JournalInv
    <2>2. calls' \subseteq calls \cup {new}
        BY <1>6
    <2>3. QED
        BY <2>1, <2>2, FS_Subset
<1>9. \A u \in Tasks : u # t => at'[u] = at[u] /\ scope[u] # scope[t]
    BY <1>2, <1>3, Apart
<1>10. at'[t] = "out"
    BY <1>2, <1>3
<1>11. \A c, d \in calls' : c.scope = d.scope => c = d
    <2>1. \A c, d \in calls : c.scope = d.scope => c = d
        BY DEF JournalInv
    <2>2. \A c \in calls' : c = new \/ (c \in calls /\ c.scope # new.scope)
        BY <1>6, <1>7
    <2>3. QED
        BY <2>1, <2>2
<1>12. \A c \in calls' : \E d \in calls : d.scope = c.scope
    BY <1>5, <1>6, <1>7
<1>13. \A c \in calls' : c.scope.round <= round
    BY <1>12 DEF JournalInv
<1>14. \A c \in calls' : c.status = "pending" =>
            c.used = Unknown /\ \E u \in Tasks : at'[u] = "sent" /\ scope[u] = c.scope
    <2>1. ASSUME NEW c \in calls', c.status = "pending"
          PROVE  c.used = Unknown /\ \E u \in Tasks : at'[u] = "sent" /\ scope[u] = c.scope
        <3>1. c \in calls /\ c.scope # scope[t]
            BY <1>6, <1>7, <2>1
        <3>2. PICK u \in Tasks : at[u] = "sent" /\ scope[u] = c.scope
            BY <2>1, <3>1 DEF JournalInv
        <3>3. c.used = Unknown
            BY <2>1, <3>1 DEF JournalInv
        <3>4. QED
            BY <1>9, <3>1, <3>2, <3>3
    <2>2. QED
        BY <2>1
<1>15. \A u \in Tasks : at'[u] = "sent" => \E c \in calls' : c.scope = scope[u] /\ c.status = "pending"
    <2>1. ASSUME NEW u \in Tasks, at'[u] = "sent"
          PROVE  \E c \in calls' : c.scope = scope[u] /\ c.status = "pending"
        <3>1. at[u] = "sent" /\ scope[u] # scope[t]
            BY <1>9, <1>10, <2>1
        <3>2. PICK c \in calls : c.scope = scope[u] /\ c.status = "pending"
            BY <3>1 DEF JournalInv
        <3>3. QED
            BY <1>6, <3>1, <3>2
    <2>2. QED
        BY <2>1
<1>16. \A u \in Tasks : at'[u] \in {"queued", "pacing"} => \A c \in calls' : c.scope # scope[u]
    <2>1. ASSUME NEW u \in Tasks, at'[u] \in {"queued", "pacing"}, NEW c \in calls'
          PROVE  c.scope # scope[u]
        <3>1. at[u] \in {"queued", "pacing"}
            BY <1>9, <1>10, <2>1
        <3>2. PICK d \in calls : d.scope = c.scope
            BY <1>12
        <3>3. QED
            BY <3>1, <3>2 DEF JournalInv, Unsent
    <2>2. QED
        BY <2>1
<1>17. calls' \subseteq Journaled
    BY <1>6, <1>7 DEF JournalInv
<1>18. QED
    BY <1>2, <1>8, <1>11, <1>13, <1>14, <1>15, <1>16, <1>17 DEF JournalInv, Unsent

(* A step after which as few are to send, and the journal is as it was.    *)
LEMMA JournalStays ==
    ASSUME JournalInv, calls' = calls, round' = round, NEW t \in Tasks,
           at \in [Tasks -> Places], scope' = scope,
           \E p \in {"out", "pacing"} : at' = [at EXCEPT ![t] = p],
           Unsent(t)
    PROVE  JournalInv'
<1>1. \A u \in Tasks : u # t => at'[u] = at[u]
    OBVIOUS
<1>2. at'[t] # "sent" /\ at[t] # "sent"
    BY DEF Unsent
<1>3. \A u \in Tasks : at'[u] = "sent" <=> at[u] = "sent"
    BY <1>1, <1>2
<1>4. \A u \in Tasks : Unsent(u)' => Unsent(u)
    BY <1>1 DEF Unsent
<1>5. QED
    BY <1>3, <1>4 DEF JournalInv

LEMMA CallKeepsJournal ==
    ASSUME LedgerInv, JournalInv, StageInv, NEW t \in Tasks,
           Paces(t) \/ Quits(t) \/ Sends(t) \/ Ends(t), round' = round
    PROVE  JournalInv'
<1>1. at \in [Tasks -> Places]
    BY DEF LedgerInv
<1>2. CASE Paces(t)
    BY <1>1, <1>2, JournalStays DEF Paces, Unsent
<1>3. CASE Quits(t)
    BY <1>1, <1>3, JournalStays DEF Quits, Raise
<1>4. QED
    BY <1>2, <1>3, SendKeepsJournal, EndKeepsJournal


-----------------------------------------------------------------------------
(* What calls leave alone *)

LEMMA CallKeepsStage ==
    ASSUME StageInv, scope' = scope, UNCHANGED runVars
    PROVE  StageInv'
BY DEF StageInv, runVars, Indexing, Querying, Scope

LEMMA SentStays ==
    ASSUME scope' = scope, UNCHANGED runVars, NEW s
    PROVE  /\ SentToGenerate(s)' <=> SentToGenerate(s)
           /\ SentToReview(s)' <=> SentToReview(s)
BY DEF SentToGenerate, SentToReview, Past, Reviewing, runVars

(* A call has no scope that was not in the journal, or sends its own.     *)
LEMMA CallScopes ==
    ASSUME JournalInv, NEW t \in Tasks, Paces(t) \/ Quits(t) \/ Sends(t) \/ Ends(t)
    PROVE  \A c \in calls' : (\E d \in calls : d.scope = c.scope) \/ (Sends(t) /\ c.scope = scope[t])
<1>1. CASE Paces(t) \/ Quits(t)
    BY <1>1 DEF Paces, Quits
<1>2. CASE Sends(t)
    BY <1>2 DEF Sends, Send
<1>3. CASE Ends(t)
    <2>1. PICK state \in {"ok", "error"}, used \in {Unknown} \cup 0..(Reserve + 1) :
                Record(t, state, used)
        BY <1>3 DEF Ends
    <2>2. PICK new : Replaced(t, state, used, new)
        BY <1>3, <2>1, Recorded DEF Ends
    <2>3. MyCall(t) \in calls /\ MyCall(t).scope = scope[t]
        BY <1>3, MyCallIs DEF Ends
    <2>4. QED
        BY <2>2, <2>3 DEF Replaced
<1>4. QED
    BY <1>1, <1>2, <1>3

(* The request of a task, once it is sent. *)
LEMMA OwnSent ==
    ASSUME LedgerInv, StageInv, NEW t \in Tasks, scope[t] # NoCall
    PROVE  /\ stage = "generating" => SentToGenerate(scope[t])
           /\ stage = "reviewing" => SentToReview(scope[t])
<1>1. scope[t].round = round
    BY CallerScope
<1>2. CASE t \in Histories
    <2>1. stage = "generating" /\ t \in begun /\ (Indexing(t) \/ Querying(t))
        BY <1>2 DEF StageInv
    <2>2. CASE Indexing(t)
        BY <1>1, <2>1, <2>2 DEF Indexing, SentToGenerate
    <2>3. CASE Querying(t)
        <3>1. Past(scope[t])
            BY <2>3 DEF Querying, Past
        <3>2. QED
            BY <1>1, <2>1, <2>3, <3>1 DEF Querying, SentToGenerate
    <2>4. QED
        BY <2>1, <2>2, <2>3
<1>3. CASE t \in Rows
    <2>1. stage = "reviewing" /\ t \notin indices /\ scope[t] = Scope("review", "review", t)
        BY <1>3 DEF StageInv
    <2>2. scope[t].of = t
        BY <2>1 DEF Scope
    <2>3. QED
        BY <1>1, <2>1, <2>2 DEF SentToReview
<1>4. QED
    BY <1>2, <1>3, TasksAre

LEMMA CallKeepsSent ==
    ASSUME LedgerInv, JournalInv, StageInv, SentInv, NEW t \in Tasks,
           Paces(t) \/ Quits(t) \/ Sends(t) \/ Ends(t), UNCHANGED runVars
    PROVE  SentInv'
<1>1. scope' = scope /\ stage' = stage
    BY DEF Paces, Quits, Sends, Ends, Send, Raise, runVars
<1>2. ASSUME NEW c \in calls'
      PROVE  /\ stage = "generating" => SentToGenerate(c.scope)
             /\ stage = "reviewing" => SentToReview(c.scope)
    <2>1. CASE \E d \in calls : d.scope = c.scope
        BY <2>1 DEF SentInv
    <2>2. CASE Sends(t) /\ c.scope = scope[t]
        <3>1. scope[t] # NoCall
            BY <2>2 DEF Sends, LedgerInv
        <3>2. QED
            BY <2>2, <3>1, OwnSent
    <2>3. QED
        BY <2>1, <2>2, CallScopes
<1>3. ASSUME NEW c \in calls'
      PROVE  /\ stage' = "generating" => SentToGenerate(c.scope)'
             /\ stage' = "reviewing" => SentToReview(c.scope)'
    <2>1. PICK s : s = c.scope
        OBVIOUS
    <2>2. (SentToGenerate(s)' <=> SentToGenerate(s)) /\ (SentToReview(s)' <=> SentToReview(s))
        BY <1>1, SentStays
    <2>3. QED
        BY <1>1, <1>2, <2>1, <2>2
<1>4. QED
    BY <1>3 DEF SentInv

(* A query or review that is sent is the first of its row in any other     *)
(* round.                                                                  *)
LEMMA CallKeepsOnce ==
    ASSUME LedgerInv, JournalInv, StageInv, SentInv, NeverSentTwice, NEW t \in Tasks,
           Paces(t) \/ Quits(t) \/ Sends(t) \/ Ends(t)
    PROVE  NeverSentTwice'
<1> DEFINE Counts(s) == s.phase \in {"query", "review"}
           Same(s, u) == Counts(s) /\ s.phase = u.phase /\ s.of = u.of
<1>1. \A c, d \in calls : Same(c.scope, d.scope) => c.scope.round = d.scope.round
    BY DEF NeverSentTwice
<1>2. ASSUME NEW c \in calls, Sends(t), Same(c.scope, scope[t])
      PROVE  c.scope.round = scope[t].round
    <2>1. scope[t] # NoCall
        BY <1>2 DEF Sends, LedgerInv
    <2>2. scope[t].round = round
        BY <2>1, CallerScope
    <2>3. CASE t \in Histories
        <3>1. stage = "generating" /\ (Indexing(t) \/ Querying(t))
            BY <2>1, <2>3 DEF StageInv
        <3>2. Querying(t)
            BY <1>2, <3>1 DEF Indexing
        <3>3. c.scope.phase = "query" /\ c.scope.of \in indices
            BY <1>2, <3>2 DEF Querying
        <3>4. QED
            BY <2>2, <3>1, <3>3 DEF SentInv, SentToGenerate
    <2>4. CASE t \in Rows
        <3>1. stage = "reviewing" /\ scope[t] = Scope("review", "review", t)
            BY <2>1, <2>4 DEF StageInv
        <3>2. c.scope.phase = "review" /\ c.scope.of = t /\ Reviewing(t)
            BY <1>2, <3>1 DEF Scope, Reviewing
        <3>3. QED
            BY <2>2, <3>1, <3>2 DEF SentInv, SentToReview
    <2>5. QED
        BY <2>3, <2>4, TasksAre
<1>3. \A c \in calls' : (\E d \in calls : d.scope = c.scope) \/ (Sends(t) /\ c.scope = scope[t])
    BY CallScopes
<1>4. ASSUME NEW c \in calls', NEW d \in calls', Same(c.scope, d.scope)
      PROVE  c.scope.round = d.scope.round
    <2>1. CASE (\E e \in calls : e.scope = c.scope) /\ (\E e \in calls : e.scope = d.scope)
        BY <1>1, <1>4, <2>1
    <2>2. CASE (\E e \in calls : e.scope = c.scope) /\ Sends(t) /\ d.scope = scope[t]
        BY <1>2, <1>4, <2>2
    <2>3. CASE (\E e \in calls : e.scope = d.scope) /\ Sends(t) /\ c.scope = scope[t]
        <3>1. PICK e \in calls : e.scope = d.scope
            BY <2>3
        <3>2. Same(e.scope, scope[t])
            BY <1>4, <2>3, <3>1
        <3>3. QED
            BY <1>2, <2>3, <3>1, <3>2
    <2>4. QED
        BY <1>3, <2>1, <2>2, <2>3
<1>5. QED
    BY <1>4 DEF NeverSentTwice


LEMMA CallKeepsComplete ==
    ASSUME LedgerInv, JournalInv, StageInv, CompleteInv, NEW t \in Tasks,
           Paces(t) \/ Quits(t) \/ Sends(t) \/ Ends(t), UNCHANGED runVars
    PROVE  CompleteInv'
<1>1. scope[t] # NoCall /\ stage # "ended"
    BY NoneOutside DEF Paces, Quits, Sends, Ends, Unsent, LedgerInv
<1>2. /\ round' = round /\ stage' = stage /\ status' = status /\ row' = row
      /\ review' = review /\ ended' = ended /\ indices' = indices
    BY DEF runVars
<1>3. status # "COMPLETE"
    BY <1>1 DEF CompleteInv
<1>4. scope' = scope
    BY DEF Paces, Quits, Sends, Ends, Send, Raise
<1>5. stopped => stopped'
    BY DEF Paces, Quits, Sends, Ends, Send, Stops
<1>6. round = 1 => \A c \in calls' : c.used = 0 => stopped'
    <2>1. CASE Paces(t) \/ Quits(t)
        BY <1>5, <2>1 DEF Paces, Quits, CompleteInv
    <2>2. CASE Sends(t)
        <3>1. calls' = calls \cup {[scope |-> scope[t], status |-> "pending", used |-> Unknown]}
            BY <2>2 DEF Sends, Send
        <3>2. Unknown # 0
            BY LedgerAssumption
        <3>3. QED
            BY <1>5, <3>1, <3>2 DEF CompleteInv
    <2>3. CASE Ends(t)
        <3>1. PICK state \in {"ok", "error"}, used \in {Unknown} \cup 0..(Reserve + 1) :
                    Record(t, state, used) /\ (used = 0 => stopped')
            BY <2>3 DEF Ends
        <3>2. PICK new : Replaced(t, state, used, new)
            BY <2>3, <3>1, Recorded DEF Ends
        <3>3. new.used = used /\ calls' \subseteq calls \cup {new}
            BY <3>2 DEF Replaced
        <3>4. QED
            BY <1>5, <3>1, <3>3 DEF CompleteInv
    <2>4. QED
        BY <2>1, <2>2, <2>3
<1>7. \A h, i : PastRow(h, i)' <=> PastRow(h, i)
    BY <1>2, <1>4 DEF PastRow
<1>8. \A r : Reviewed(r)' <=> Reviewed(r)
    BY <1>2, <1>4 DEF Reviewed, Reviewing
<1>9. CompleteMeansComplete'
    BY <1>2, <1>3 DEF CompleteMeansComplete
<1>10. QED
    BY <1>2, <1>3, <1>5, <1>6, <1>7, <1>8, <1>9 DEF CompleteInv

LEMMA CallKeepsInv ==
    ASSUME IInv, CallStep, UNCHANGED runVars
    PROVE  IInv'
<1>1. PICK t \in Tasks : LedgerStep(t, MaxCalls * round, MaxTokens * round)
    BY DEF CallStep
<1>2. Paces(t) \/ Quits(t) \/ Sends(t) \/ Ends(t)
    BY <1>1, CallForms DEF IInv
<1>3. scope' = scope /\ round' = round
    BY <1>2 DEF Paces, Quits, Sends, Ends, Send, Raise, runVars
<1>4. QED
    BY <1>2, <1>3, CallKeepsLedger, CallKeepsJournal, CallKeepsStage, CallKeepsSent,
       CallKeepsOnce, CallKeepsComplete DEF IInv


-----------------------------------------------------------------------------
(* The turns of a task that calls nothing at the moment *)

Rests(t) ==
    /\ at' = [at EXCEPT ![t] = "out"]
    /\ scope' = [scope EXCEPT ![t] = NoCall]
    /\ result' = [result EXCEPT ![t] = "none"]

Fresh(s) == s \in Scopes /\ \A c \in calls : c.scope # s

LEMMA TurnKeepsLedger ==
    ASSUME LedgerInv, NEW t \in Tasks, stopped' = stopped,
           Rests(t) \/ (\E s : Request(t, s) /\ Fresh(s))
    PROVE  LedgerInv'
<1>1. CASE Rests(t)
    BY <1>1 DEF Rests, LedgerInv, Places, Outcomes
<1>2. CASE \E s : Request(t, s) /\ Fresh(s)
    <2>1. PICK s \in Scopes : Request(t, s)
        BY <1>2 DEF Fresh
    <2>2. s # NoCall
        BY DEF Scopes, NoCall
    <2>3. QED
        BY <2>1, <2>2 DEF Request, LedgerInv, Places, Outcomes
<1>3. QED
    BY <1>1, <1>2

LEMMA TurnKeepsJournal ==
    ASSUME LedgerInv, JournalInv, NEW t \in Tasks, at[t] = "out",
           UNCHANGED <<calls, round>>, Rests(t) \/ (\E s : Request(t, s) /\ Fresh(s))
    PROVE  JournalInv'
<1>1. /\ at \in [Tasks -> Places] /\ scope \in [Tasks -> Scopes \cup {NoCall}]
    BY DEF LedgerInv
<1>2. \A u \in Tasks : u # t => at'[u] = at[u] /\ scope'[u] = scope[u]
    BY <1>1 DEF Rests, Request
<1>3. at'[t] # "sent"
    BY <1>1 DEF Rests, Request
<1>4. Unsent(t)' => \A c \in calls : c.scope # scope'[t]
    BY <1>1 DEF Rests, Request, Fresh, Unsent
<1>5. \A u \in Tasks : at'[u] = "sent" <=> at[u] = "sent"
    BY <1>2, <1>3
<1>6. \A u \in Tasks : at[u] = "sent" => scope'[u] = scope[u]
    BY <1>2
<1>7. \A u \in Tasks : Unsent(u)' => \A c \in calls : c.scope # scope'[u]
    BY <1>2, <1>4 DEF JournalInv, Unsent
<1>8. \A c \in calls : c.status = "pending" =>
            c.used = Unknown /\ \E u \in Tasks : at'[u] = "sent" /\ scope'[u] = c.scope
    BY <1>5, <1>6 DEF JournalInv
<1>9. \A u \in Tasks : at'[u] = "sent" =>
            \E c \in calls : c.scope = scope'[u] /\ c.status = "pending"
    BY <1>5, <1>6 DEF JournalInv
<1>10. QED
    BY <1>7, <1>8, <1>9 DEF JournalInv

(* The i-th row of a history. *)
RowOf(h, i) == <<h, Strategies[i]>>

(* The history h is at its i-th row, or at its index before all rows.      *)
AtRow(h, i) ==
    \/ Indexing(h) /\ i = 0
    \/ Querying(h) /\ i = Position(scope[h].of)

Finishes(h, i) ==
    /\ Rests(h)
    /\ ended' = ended \cup {h}
    /\ (\A k \in (i + 1)..Len(Strategies) : RowOf(h, k) \notin indices) \/ (round > 1 /\ stopped)

GoesOn(h, i) ==
    \E k \in (i + 1)..Len(Strategies), op \in {"navigate", "answer"} :
        /\ RowOf(h, k) \in indices
        /\ \A j \in (i + 1)..Len(Strategies) : RowOf(h, j) \in indices => k <= j
        /\ Request(h, Scope("query", op, RowOf(h, k)))
        /\ ended' = ended

LEMMA NextRowMeans ==
    ASSUME NEW h \in Histories, NEW i \in Nat, NextRow(h, i)
    PROVE  Finishes(h, i) \/ GoesOn(h, i)
<1> DEFINE todo == {j \in (i + 1)..Len(Strategies) : RowOf(h, j) \in indices}
           r == RowOf(h, Min(todo))
<1>0. Len(Strategies) \in Nat
    BY RunAssumption
<1>1. CASE todo = {} \/ (round > 1 /\ stopped)
    <2>1. Rests(h) /\ ended' = ended \cup {h}
        BY <1>1 DEF NextRow, Rests, RowOf
    <2>2. QED
        BY <1>1, <2>1 DEF Finishes
<1>2. CASE ~ (todo = {} \/ (round > 1 /\ stopped))
    <2>1. /\ Request(h, Scope("query", IF r[2] = "tree" THEN "navigate" ELSE "answer", r))
          /\ ended' = ended
        BY <1>2 DEF NextRow, RowOf
    <2>2. Min(todo) \in todo /\ \A j \in todo : Min(todo) <= j
        <3>1. todo \in SUBSET Nat /\ todo # {}
            BY <1>0, <1>2
        <3> HIDE DEF todo
        <3>2. QED
            BY <3>1, MinOfNats
    <2>3. PICK k : k = Min(todo)
        OBVIOUS
    <2>4. k \in (i + 1)..Len(Strategies) /\ RowOf(h, k) \in indices
        BY <2>2, <2>3
    <2>5. \A j \in (i + 1)..Len(Strategies) : RowOf(h, j) \in indices => k <= j
        BY <2>2, <2>3
    <2>6. \E op \in {"navigate", "answer"} : Request(h, Scope("query", op, RowOf(h, k)))
        BY <2>1, <2>3
    <2>7. QED
        BY <2>1, <2>4, <2>5, <2>6 DEF GoesOn
<1>3. QED
    BY <1>1, <1>2


(* A history that has a scope is at work, and at its index or at a row.    *)
LEMMA AtWork ==
    ASSUME LedgerInv, StageInv, NEW h \in Histories, scope[h] # NoCall
    PROVE  /\ stage = "generating" /\ h \in begun /\ h \notin ended /\ scope[h].round = round
           /\ \E i \in 0..Len(Strategies) : AtRow(h, i)
           /\ Indexing(h) <=> scope[h].op = "index"
           /\ ~Indexing(h) => Querying(h)
<1>1. /\ stage = "generating" /\ h \in begun /\ h \notin ended /\ scope[h].round = round
      /\ Indexing(h) \/ Querying(h)
    BY DEF StageInv
<1>2. Len(Strategies) \in Nat
    BY RunAssumption
<1>3. CASE Indexing(h)
    <2>1. AtRow(h, 0) /\ 0 \in 0..Len(Strategies)
        BY <1>2, <1>3 DEF AtRow
    <2>2. QED
        BY <1>1, <1>3, <2>1 DEF Indexing
<1>4. CASE Querying(h)
    <2>1. scope[h].of \in Rows
        BY <1>4 DEF StageInv, Querying
    <2>2. Position(scope[h].of) \in 0..Len(Strategies)
        BY <1>2, <2>1, RowsAre
    <2>3. AtRow(h, Position(scope[h].of))
        BY <1>4 DEF AtRow
    <2>4. QED
        BY <1>1, <1>4, <2>2, <2>3 DEF Querying, Indexing
<1>5. QED
    BY <1>1, <1>3, <1>4

(* Nothing behind the row that a history is at has been sent.              *)
LEMMA NothingAhead ==
    ASSUME StageInv, SentInv, NEW h \in Histories, h \notin ended, stage = "generating",
           NEW i \in Nat, AtRow(h, i),
           NEW c \in calls, c.scope.phase = "query", c.scope.of \in indices, c.scope.of[1] = h
    PROVE  i > 0 /\ Position(c.scope.of) <= i
<1>1. Past(c.scope)
    BY DEF SentInv, SentToGenerate
<1>2. /\ scope[h].phase = "query"
      /\ \/ Position(c.scope.of) < Position(scope[h].of)
         \/ c.scope.of = scope[h].of
    BY <1>1 DEF Past
<1>3. Querying(h) /\ i = Position(scope[h].of)
    BY <1>2 DEF AtRow, Indexing
<1>4. scope[h].of \in Rows /\ c.scope.of \in Rows
    BY <1>3 DEF StageInv, Querying
<1>5. i \in 1..Len(Strategies) /\ Position(c.scope.of) \in 1..Len(Strategies)
    BY <1>3, <1>4, RowsAre
<1>6. Len(Strategies) \in Nat
    BY RunAssumption
<1>7. QED
    BY <1>2, <1>3, <1>5, <1>6

(* What the turn of a history may do with its rows. *)
RowsGoOn(h, i) ==
    /\ DOMAIN row' = Rows
    /\ \A r \in Rows :
        \/ row'[r] = row[r]
        \/ /\ row'[r] \in {"answered", "abstained", "error", "RunStopped"}
           /\ row'[r] = "RunStopped" => stopped
    /\ i > 0 => row'[RowOf(h, i)] # "none"

Turn(h, i) ==
    /\ at[h] = "out" /\ scope[h] # NoCall /\ AtRow(h, i)
    /\ Finishes(h, i) \/ GoesOn(h, i)
    /\ RowsGoOn(h, i)
    /\ UNCHANGED <<stopped, calls, round, stage, status, begun, review, indices>>

LEMMA TurnIsFresh ==
    ASSUME LedgerInv, StageInv, SentInv, NEW h \in Histories, NEW i \in 0..Len(Strategies), Turn(h, i)
    PROVE  Rests(h) \/ \E s : Request(h, s) /\ Fresh(s)
<1>1. stage = "generating" /\ h \notin ended
    BY AtWork DEF Turn
<1>2. CASE GoesOn(h, i)
    <2>1. PICK k \in (i + 1)..Len(Strategies), op \in {"navigate", "answer"} :
                RowOf(h, k) \in indices /\ Request(h, Scope("query", op, RowOf(h, k)))
        BY <1>2 DEF GoesOn
    <2>2. Len(Strategies) \in Nat /\ k \in 1..Len(Strategies) /\ k > i
        BY RunAssumption
    <2>3. RowOf(h, k) \in Rows /\ Position(RowOf(h, k)) = k /\ RowOf(h, k)[1] = h
        BY <2>2, RowsAre DEF RowOf
    <2>4. Scope("query", op, RowOf(h, k)) \in Scopes
        BY <2>3 DEF Scope, Scopes, StageInv
    <2>5. ASSUME NEW c \in calls
          PROVE  c.scope # Scope("query", op, RowOf(h, k))
        <3>1. SUFFICES ASSUME c.scope = Scope("query", op, RowOf(h, k)) PROVE FALSE
            OBVIOUS
        <3>2. c.scope.phase = "query" /\ c.scope.of = RowOf(h, k)
            BY <3>1 DEF Scope
        <3>3. i \in Nat /\ AtRow(h, i)
            BY <2>2 DEF Turn
        <3>4. k <= i
            BY <1>1, <2>1, <2>3, <3>2, <3>3, NothingAhead
        <3>5. QED
            BY <2>2, <3>3, <3>4
    <2>6. QED
        BY <2>1, <2>4, <2>5 DEF Fresh
<1>3. CASE Finishes(h, i)
    BY <1>3 DEF Finishes
<1>4. QED
    BY <1>2, <1>3 DEF Turn

LEMMA TurnKeepsStage ==
    ASSUME LedgerInv, StageInv, NEW h \in Histories, NEW i \in 0..Len(Strategies), Turn(h, i)
    PROVE  StageInv'
<1>1. stage = "generating" /\ h \in begun /\ h \notin ended
    BY AtWork DEF Turn
<1>2. /\ round' = round /\ stage' = stage /\ begun' = begun /\ review' = review /\ indices' = indices
      /\ DOMAIN row' = Rows
    BY DEF Turn, RowsGoOn
<1>3. scope \in [Tasks -> Scopes \cup {NoCall}] /\ h \in Tasks
    BY TasksAre DEF LedgerInv
<1>4. \A u \in Tasks : u # h => scope'[u] = scope[u]
    BY <1>3 DEF Turn, Finishes, GoesOn, Rests, Request
<1>5. ended' \subseteq begun /\ \A g \in Histories : g # h => (g \in ended' <=> g \in ended)
    BY <1>1 DEF Turn, Finishes, GoesOn, StageInv
<1>6. ASSUME scope'[h] # NoCall
      PROVE  h \notin ended' /\ scope'[h].round = round /\ Querying(h)'
    <2>1. GoesOn(h, i)
        BY <1>3, <1>6 DEF Turn, Finishes, Rests
    <2>2. PICK k \in (i + 1)..Len(Strategies), op \in {"navigate", "answer"} :
                /\ RowOf(h, k) \in indices /\ Request(h, Scope("query", op, RowOf(h, k)))
                /\ ended' = ended
        BY <2>1 DEF GoesOn
    <2>3. scope'[h] = Scope("query", op, RowOf(h, k))
        BY <1>3, <2>2 DEF Request
    <2>4. QED
        BY <1>1, <1>2, <2>2, <2>3 DEF Scope, Querying, RowOf
<1>7. \A g \in Histories : g # h => (Indexing(g)' <=> Indexing(g)) /\ (Querying(g)' <=> Querying(g))
    BY <1>2, <1>4, TasksAre DEF Indexing, Querying
<1>8. \A g \in Histories : scope'[g] # NoCall =>
        /\ stage' = "generating" /\ g \in begun' \ ended'
        /\ scope'[g].round = round'
        /\ Indexing(g)' \/ Querying(g)'
    <2>1. ASSUME NEW g \in Histories, scope'[g] # NoCall
          PROVE  /\ stage' = "generating" /\ g \in begun' \ ended'
                 /\ scope'[g].round = round'
                 /\ Indexing(g)' \/ Querying(g)'
        <3>1. CASE g = h
            BY <1>1, <1>2, <1>6, <2>1, <3>1
        <3>2. CASE g # h
            <4>1. scope'[g] = scope[g]
                BY <1>4, <3>2, TasksAre
            <4>2. /\ g \in begun \ ended /\ scope[g].round = round
                  /\ Indexing(g) \/ Querying(g)
                BY <2>1, <4>1 DEF StageInv
            <4>3. QED
                BY <1>1, <1>2, <1>5, <1>7, <3>2, <4>1, <4>2
        <3>3. QED
            BY <3>1, <3>2
    <2>2. QED
        BY <2>1
<1>9. \A r \in Rows : scope'[r] = NoCall
    <2>1. \A r \in Rows : scope[r] = NoCall
        BY <1>1 DEF StageInv
    <2>2. QED
        BY <1>4, <2>1, TasksAre
<1>10. QED
    BY <1>2, <1>5, <1>8, <1>9 DEF StageInv


LEMMA TurnKeepsSent ==
    ASSUME LedgerInv, StageInv, SentInv, NEW h \in Histories, NEW i \in 0..Len(Strategies),
           Turn(h, i)
    PROVE  SentInv'
<1>1. stage = "generating" /\ h \in begun /\ h \notin ended
    BY AtWork DEF Turn
<1>2. /\ round' = round /\ stage' = stage /\ begun' = begun /\ indices' = indices /\ calls' = calls
    BY DEF Turn
<1>3. scope \in [Tasks -> Scopes \cup {NoCall}] /\ h \in Tasks
    BY TasksAre DEF LedgerInv
<1>4. \A u \in Tasks : u # h => scope'[u] = scope[u]
    BY <1>3 DEF Turn, Finishes, GoesOn, Rests, Request
<1>5. \A g \in Histories : g # h => (g \in ended' <=> g \in ended)
    BY DEF Turn, Finishes, GoesOn
<1>6. ASSUME NEW c \in calls, c.scope.phase = "query", c.scope.of \in indices
      PROVE  Past(c.scope)'
    <2>1. PICK s : s = c.scope
        OBVIOUS
    <2>2. Past(s) /\ s.of \in Rows /\ s.of[1] \in Histories
        BY <1>1, <1>6, <2>1, RowsAre DEF SentInv, SentToGenerate, StageInv
    <2>3. CASE s.of[1] # h
        <3>1. scope'[s.of[1]] = scope[s.of[1]]
            BY <1>4, <2>2, <2>3, TasksAre
        <3>2. Past(s)'
            BY <1>5, <2>2, <2>3, <3>1 DEF Past
        <3>3. QED
            BY <2>1, <3>2 DEF Past
    <2>4. CASE s.of[1] = h
        <3>1. i \in Nat /\ AtRow(h, i) /\ Len(Strategies) \in Nat
            BY RunAssumption DEF Turn
        <3>2. i > 0 /\ Position(s.of) <= i /\ Position(s.of) \in 1..Len(Strategies)
            BY <1>1, <1>6, <2>1, <2>2, <2>4, <3>1, NothingAhead, RowsAre
        <3>3. CASE Finishes(h, i)
            <4>1. h \in ended'
                BY <3>3 DEF Finishes
            <4>2. QED
                BY <2>1, <2>4, <4>1 DEF Past
        <3>4. CASE GoesOn(h, i)
            <4>1. PICK k \in (i + 1)..Len(Strategies), op \in {"navigate", "answer"} :
                        Request(h, Scope("query", op, RowOf(h, k)))
                BY <3>4 DEF GoesOn
            <4>2. scope'[h] = Scope("query", op, RowOf(h, k))
                BY <1>3, <4>1 DEF Request
            <4>3. scope'[h].phase = "query" /\ scope'[h].of = RowOf(h, k)
                BY <4>2 DEF Scope
            <4>4. k \in 1..Len(Strategies) /\ k > i
                BY <3>1
            <4>5. Position(RowOf(h, k)) = k
                BY <4>4, RowsAre DEF RowOf
            <4>6. Position(s.of) < Position(scope'[h].of)
                BY <3>1, <3>2, <4>3, <4>4, <4>5
            <4>7. QED
                BY <2>1, <2>4, <4>3, <4>6 DEF Past, Position
        <3>5. QED
            BY <3>3, <3>4 DEF Turn
    <2>5. QED
        BY <2>3, <2>4
<1>7. ASSUME NEW c \in calls
      PROVE  SentToGenerate(c.scope)'
    <2>1. SentToGenerate(c.scope)
        BY <1>1 DEF SentInv
    <2>2. QED
        BY <1>2, <1>6, <2>1 DEF SentToGenerate
<1>8. QED
    BY <1>1, <1>2, <1>7 DEF SentInv

LEMMA TurnKeepsComplete ==
    ASSUME LedgerInv, StageInv, CompleteInv, NEW h \in Histories, NEW i \in 0..Len(Strategies),
           Turn(h, i)
    PROVE  CompleteInv'
<1>1. stage = "generating" /\ h \in begun /\ h \notin ended
    BY AtWork DEF Turn
<1>2. /\ round' = round /\ stage' = stage /\ status' = status /\ indices' = indices
      /\ calls' = calls /\ stopped' = stopped
    BY DEF Turn
<1>3. scope \in [Tasks -> Scopes \cup {NoCall}] /\ h \in Tasks /\ Len(Strategies) \in Nat
      /\ DOMAIN Strategies = 1..Len(Strategies)
    BY TasksAre, RunAssumption DEF LedgerInv
<1>4. \A u \in Tasks : u # h => scope'[u] = scope[u]
    BY <1>3 DEF Turn, Finishes, GoesOn, Rests, Request
<1>5. \A g \in Histories : g # h => (g \in ended' <=> g \in ended)
    BY DEF Turn, Finishes, GoesOn
<1>6. RowsGoOn(h, i)
    BY DEF Turn
<1>7. ASSUME round = 1, NEW g \in Histories, NEW k \in 1..Len(Strategies), PastRow(g, k)'
      PROVE  row'[RowOf(g, k)] # "none"
    <2>1. RowOf(g, k) \in Rows /\ Position(RowOf(g, k)) = k
        BY RowsAre DEF RowOf
    <2>2. ASSUME PastRow(g, k)
          PROVE  row'[RowOf(g, k)] # "none"
        <3>1. row[RowOf(g, k)] # "none"
            BY <1>1, <1>3, <1>7, <2>2 DEF CompleteInv, RowOf
        <3>2. QED
            BY <1>6, <2>1, <3>1 DEF RowsGoOn
    <2>3. CASE g # h
        <3>1. scope'[g] = scope[g]
            BY <1>4, <2>3, TasksAre
        <3>2. PastRow(g, k)
            BY <1>5, <1>7, <2>3, <3>1 DEF PastRow
        <3>3. QED
            BY <2>2, <3>2
    <2>4. CASE g = h
        <3>1. k < i => PastRow(h, k)
            BY DEF Turn, AtRow, PastRow, Querying
        <3>2. k = i => row'[RowOf(g, k)] # "none"
            BY <1>6, <2>4 DEF RowsGoOn
        <3>3. indices = Rows
            BY <1>1, <1>7 DEF CompleteInv
        <3>4. CASE Finishes(h, i)
            <4>1. \A j \in (i + 1)..Len(Strategies) : RowOf(h, j) \notin indices
                BY <1>7, <3>4 DEF Finishes
            <4>2. k <= i
                BY <1>3, <2>1, <2>4, <3>3, <4>1
            <4>3. QED
                BY <2>2, <2>4, <3>1, <3>2, <4>2
        <3>5. CASE GoesOn(h, i)
            <4>1. PICK l \in (i + 1)..Len(Strategies), op \in {"navigate", "answer"} :
                        /\ \A j \in (i + 1)..Len(Strategies) : RowOf(h, j) \in indices => l <= j
                        /\ Request(h, Scope("query", op, RowOf(h, l))) /\ ended' = ended
                BY <3>5 DEF GoesOn
            <4>2. scope'[h].of = RowOf(h, l) /\ h \notin ended'
                BY <1>1, <1>3, <4>1 DEF Request, Scope
            <4>3. l \in 1..Len(Strategies) /\ i + 1 \in 1..Len(Strategies) /\ l >= i + 1
                BY <1>3
            <4>4. RowOf(h, i + 1) \in Rows /\ Position(RowOf(h, l)) = l
                BY <4>3, RowsAre DEF RowOf
            <4>5. l = i + 1
                BY <3>3, <4>1, <4>3, <4>4
            <4>6. k < l
                BY <1>7, <2>4, <4>2, <4>4 DEF PastRow, Position
            <4>7. k <= i
                BY <1>3, <4>5, <4>6
            <4>8. QED
                BY <2>2, <2>4, <3>1, <3>2, <4>7
        <3>6. QED
            BY <3>4, <3>5 DEF Turn
    <2>5. QED
        BY <2>3, <2>4
<1>8. round = 1 => \A r \in Rows :
            /\ row'[r] \in {"none", "answered", "abstained", "error", "RunStopped"}
            /\ row'[r] = "RunStopped" => stopped
    BY <1>6 DEF RowsGoOn, CompleteInv
<1>9. CompleteMeansComplete'
    BY <1>1, <1>2 DEF CompleteInv, CompleteMeansComplete
<1>10. QED
    BY <1>1, <1>2, <1>3, <1>7, <1>8, <1>9 DEF CompleteInv, RowOf

LEMMA TurnKeepsInv ==
    ASSUME IInv, NEW h \in Histories, NEW i \in 0..Len(Strategies), Turn(h, i)
    PROVE  IInv'
<1>1. h \in Tasks
    BY TasksAre
<1>2. UNCHANGED <<stopped, calls, round>> /\ at[h] = "out"
    BY DEF Turn
<1>3. NeverSentTwice'
    BY <1>2 DEF IInv, NeverSentTwice
<1>4. QED
    BY <1>1, <1>2, <1>3, TurnIsFresh, TurnKeepsLedger, TurnKeepsJournal, TurnKeepsStage,
       TurnKeepsSent, TurnKeepsComplete DEF IInv


-----------------------------------------------------------------------------
(* The actions of a history *)

LEMMA IndexedKeepsInv ==
    ASSUME IInv, NEW h \in Histories, Indexed(h)
    PROVE  IInv'
<1>1. Returned(h, "index") /\ NextRow(h, 0)
    BY DEF Indexed
<1>2. at[h] = "out" /\ scope[h] # NoCall /\ scope[h].op = "index"
    BY <1>1, TasksAre DEF Returned, IInv, LedgerInv
<1>3. AtRow(h, 0)
    BY <1>2, AtWork DEF IInv, AtRow
<1>4. RowsGoOn(h, 0)
    BY DEF IInv, StageInv, Indexed, RowsGoOn
<1>5. Finishes(h, 0) \/ GoesOn(h, 0)
    BY <1>1, NextRowMeans
<1>6. Turn(h, 0)
    BY <1>2, <1>3, <1>4, <1>5 DEF Turn, Indexed
<1>7. 0 \in 0..Len(Strategies)
    BY RunAssumption
<1>8. QED
    BY <1>6, <1>7, TurnKeepsInv

(* A row of this history is over, one way or the other. *)
LEMMA RowOver ==
    ASSUME IInv, NEW h \in Histories, at[h] = "out", result[h] # "none", scope[h].op # "index",
           NEW how \in {"answered", "abstained", "error", "RunStopped"},
           how = "RunStopped" => result[h] = "RunStopped",
           row' = [row EXCEPT ![scope[h].of] = how], NextRow(h, Position(scope[h].of)),
           UNCHANGED <<stopped, calls, round, stage, status, begun, review, indices>>
    PROVE  IInv'
<1>1. scope[h] # NoCall
    BY TasksAre DEF IInv, LedgerInv
<1>2. Querying(h)
    BY <1>1, AtWork DEF IInv
<1>3. PICK i : i = Position(scope[h].of)
    OBVIOUS
<1>4. scope[h].of \in Rows /\ scope[h].of[1] = h
    BY <1>2 DEF Querying, IInv, StageInv
<1>5. i \in 1..Len(Strategies) /\ scope[h].of = RowOf(h, i) /\ Len(Strategies) \in Nat
    BY <1>3, <1>4, RowsAre, RunAssumption DEF RowOf
<1>6. how = "RunStopped" => stopped
    BY TasksAre DEF IInv, LedgerInv
<1>7. RowsGoOn(h, i)
    BY <1>4, <1>5, <1>6 DEF RowsGoOn, IInv, StageInv
<1>8. Finishes(h, i) \/ GoesOn(h, i)
    BY <1>3, <1>5, NextRowMeans
<1>9. Turn(h, i)
    BY <1>1, <1>2, <1>3, <1>7, <1>8 DEF Turn, AtRow
<1>10. i \in 0..Len(Strategies)
    BY <1>5
<1>11. QED
    BY <1>9, <1>10, TurnKeepsInv

LEMMA QueriedKeepsInv ==
    ASSUME IInv, NEW h \in Histories, Queried(h)
    PROVE  IInv'
<1>1. at[h] = "out" /\ result[h] # "none" /\ scope[h].op = "answer"
    BY DEF Queried, Returned
<1>2. PICK how \in CASE result[h] = "ok"         -> {"answered", "abstained", "error"}
                     [] result[h] = "RunStopped" -> {"RunStopped"}
                     [] OTHER                    -> {"error"} :
            row' = [row EXCEPT ![scope[h].of] = how]
    BY DEF Queried
<1>3. /\ how \in {"answered", "abstained", "error", "RunStopped"}
      /\ how = "RunStopped" => result[h] = "RunStopped"
    BY <1>2
<1>4. NextRow(h, Position(scope[h].of))
    BY DEF Queried
<1>5. QED
    BY <1>1, <1>2, <1>3, <1>4, RowOver DEF Queried

(* After its navigation, a row asks for its answer. *)
LEMMA AnswerKeepsInv ==
    ASSUME IInv, NEW h \in Histories, Returned(h, "navigate"),
           Request(h, Scope("query", "answer", scope[h].of)),
           UNCHANGED <<stopped, calls, runVars>>
    PROVE  IInv'
<1> DEFINE s == Scope("query", "answer", scope[h].of)
<1>1. at[h] = "out" /\ scope[h] # NoCall /\ scope[h].op = "navigate" /\ h \in Tasks
    BY TasksAre DEF Returned, IInv, LedgerInv
<1>2. Querying(h) /\ stage = "generating" /\ h \notin ended /\ h \in begun
    BY <1>1, AtWork DEF IInv
<1>3. scope[h].of \in Rows /\ scope[h].of \in indices /\ scope[h].of[1] = h
    BY <1>2 DEF Querying, IInv, StageInv
<1>4. s \in Scopes /\ s.phase = "query" /\ s.op = "answer" /\ s.of = scope[h].of /\ s.round = round
    BY <1>3 DEF Scope, Scopes, IInv, StageInv
<1>5. /\ scope \in [Tasks -> Scopes \cup {NoCall}]
      /\ scope' = [scope EXCEPT ![h] = s]
    BY DEF IInv, LedgerInv, Request
<1>6. (\A u \in Tasks : u # h => scope'[u] = scope[u]) /\ scope'[h] = s
    BY <1>1, <1>5
<1>7. ASSUME NEW c \in calls
      PROVE  c.scope # s
    <2>1. SUFFICES ASSUME c.scope = s PROVE FALSE
        OBVIOUS
    <2>2. Past(c.scope)
        BY <1>2, <1>3, <1>4, <2>1 DEF IInv, SentInv, SentToGenerate
    <2>3. Position(scope[h].of) \in Nat
        BY <1>3, RowsAre
    <2>4. QED
        BY <1>1, <1>2, <1>3, <1>4, <2>1, <2>2, <2>3 DEF Past
<1>8. Fresh(s)
    BY <1>4, <1>7 DEF Fresh
<1>9. LedgerInv' /\ JournalInv'
    <2>1. \E x : Request(h, x) /\ Fresh(x)
        BY <1>8
    <2>2. QED
        BY <1>1, <2>1, TurnKeepsLedger, TurnKeepsJournal DEF IInv, runVars
<1>10. StageInv'
    <2>1. Querying(h)'
        BY <1>3, <1>4, <1>6 DEF Querying, runVars
    <2>2. \A g \in Histories : g # h => (Indexing(g)' <=> Indexing(g)) /\ (Querying(g)' <=> Querying(g))
        BY <1>6, TasksAre DEF Indexing, Querying, runVars
    <2>3. ASSUME NEW g \in Histories, scope'[g] # NoCall
          PROVE  /\ stage' = "generating" /\ g \in begun' \ ended'
                 /\ scope'[g].round = round'
                 /\ Indexing(g)' \/ Querying(g)'
        <3>1. CASE g = h
            BY <1>2, <1>4, <1>6, <2>1, <3>1 DEF runVars
        <3>2. CASE g # h
            <4>1. scope'[g] = scope[g]
                BY <1>6, <3>2, TasksAre
            <4>2. g \in begun \ ended /\ scope[g].round = round /\ (Indexing(g) \/ Querying(g))
                BY <2>3, <4>1 DEF IInv, StageInv
            <4>3. QED
                BY <1>2, <2>2, <3>2, <4>1, <4>2 DEF runVars
        <3>3. QED
            BY <3>1, <3>2
    <2>4. \A r \in Rows : scope'[r] = NoCall
        BY <1>2, <1>6, TasksAre DEF IInv, StageInv
    <2>5. QED
        BY <2>3, <2>4 DEF IInv, StageInv, runVars
<1>11. SentInv'
    <2>1. ASSUME NEW c \in calls
          PROVE  SentToGenerate(c.scope)'
        <3>1. PICK x : x = c.scope
            OBVIOUS
        <3>2. SentToGenerate(x)
            BY <1>2, <3>1 DEF IInv, SentInv
        <3>3. ASSUME x.phase = "query", x.of \in indices
              PROVE  Past(x)'
            <4>1. Past(x) /\ x.of[1] \in Histories
                BY <3>2, <3>3, RowsAre DEF SentToGenerate, IInv, StageInv
            <4>2. CASE x.of[1] = h
                BY <1>4, <1>6, <4>1, <4>2 DEF Past, runVars, Position
            <4>3. CASE x.of[1] # h
                <5>1. scope'[x.of[1]] = scope[x.of[1]]
                    BY <1>6, <4>1, <4>3, TasksAre
                <5>2. QED
                    BY <4>1, <5>1 DEF Past, runVars, Position
            <4>4. QED
                BY <4>2, <4>3
        <3>4. QED
            BY <3>1, <3>2, <3>3 DEF SentToGenerate, runVars
    <2>2. QED
        BY <1>2, <2>1 DEF SentInv, runVars
<1>12. CompleteInv'
    <2>1. ASSUME NEW g \in Histories, NEW k \in DOMAIN Strategies, PastRow(g, k)'
          PROVE  PastRow(g, k)
        <3>1. CASE g = h
            BY <1>1, <1>2, <1>4, <1>6, <2>1, <3>1 DEF PastRow, Querying, runVars, Position
        <3>2. CASE g # h
            <4>1. scope'[g] = scope[g]
                BY <1>6, <3>2, TasksAre
            <4>2. QED
                BY <2>1, <4>1 DEF PastRow, runVars
        <3>3. QED
            BY <3>1, <3>2
    <2>2. QED
        BY <1>2, <2>1 DEF IInv, CompleteInv, CompleteMeansComplete, runVars
<1>13. NeverSentTwice'
    BY DEF IInv, NeverSentTwice
<1>14. QED
    BY <1>9, <1>10, <1>11, <1>12, <1>13 DEF IInv

LEMMA NavigatedKeepsInv ==
    ASSUME IInv, NEW h \in Histories, Navigated(h)
    PROVE  IInv'
<1>1. Returned(h, "navigate")
    BY DEF Navigated
<1>2. CASE result[h] = "RunStopped"
    <2>1. row' = [row EXCEPT ![scope[h].of] = "RunStopped"] /\ NextRow(h, Position(scope[h].of))
        BY <1>2 DEF Navigated
    <2>2. at[h] = "out" /\ result[h] # "none" /\ scope[h].op # "index"
        BY <1>1 DEF Returned
    <2>3. QED
        BY <1>2, <2>1, <2>2, RowOver DEF Navigated
<1>3. CASE result[h] # "RunStopped"
    BY <1>1, <1>3, AnswerKeepsInv DEF Navigated, runVars
<1>4. QED
    BY <1>2, <1>3


LEMMA BeginHistoryKeepsInv ==
    ASSUME IInv, NEW h \in Histories, BeginHistory(h)
    PROVE  IInv'
<1>1. /\ stage = "generating" /\ h \notin begun /\ begun' = begun \cup {h} /\ h \notin ended
      /\ UNCHANGED <<stopped, calls, round, stage, status, ended, lifecycle, row, review, indices>>
    BY DEF BeginHistory, IInv, StageInv
<1>2. scope[h] = NoCall /\ h \in Tasks
    BY <1>1, TasksAre DEF IInv, StageInv
<1>3. PICK phase \in {"index", "recovery"} : Request(h, Scope(phase, "index", h))
    BY DEF BeginHistory
<1>4. PICK s : s = Scope(phase, "index", h)
    OBVIOUS
<1>5. s \in Scopes /\ s.phase = phase /\ s.op = "index" /\ s.of = h /\ s.round = round
    BY <1>4 DEF Scope, Scopes, IInv, StageInv
<1>6. at[h] = "out" /\ scope \in [Tasks -> Scopes \cup {NoCall}]
    BY <1>2 DEF IInv, LedgerInv
<1>7. (\A u \in Tasks : u # h => scope'[u] = scope[u]) /\ scope'[h] = s
    BY <1>2, <1>3, <1>4, <1>6 DEF Request
<1>8. \A c \in calls : c.scope # s
    BY <1>1, <1>5 DEF IInv, SentInv, SentToGenerate
<1>9. LedgerInv' /\ JournalInv'
    <2>1. \E x : Request(h, x) /\ Fresh(x)
        BY <1>3, <1>4, <1>5, <1>8 DEF Fresh
    <2>2. QED
        BY <1>1, <1>2, <1>6, <2>1, TurnKeepsLedger, TurnKeepsJournal DEF IInv
<1>10. StageInv'
    <2>1. \A g \in Histories : g # h => (Indexing(g)' <=> Indexing(g)) /\ (Querying(g)' <=> Querying(g))
        BY <1>1, <1>7, TasksAre DEF Indexing, Querying
    <2>2. ASSUME NEW g \in Histories, scope'[g] # NoCall
          PROVE  /\ stage' = "generating" /\ g \in begun' \ ended'
                 /\ scope'[g].round = round'
                 /\ Indexing(g)' \/ Querying(g)'
        <3>1. CASE g = h
            BY <1>1, <1>5, <1>7, <3>1 DEF Indexing
        <3>2. CASE g # h
            <4>1. scope'[g] = scope[g]
                BY <1>7, <3>2, TasksAre
            <4>2. g \in begun \ ended /\ scope[g].round = round /\ (Indexing(g) \/ Querying(g))
                BY <2>2, <4>1 DEF IInv, StageInv
            <4>3. QED
                BY <1>1, <2>1, <3>2, <4>1, <4>2
        <3>3. QED
            BY <3>1, <3>2
    <2>3. \A r \in Rows : scope'[r] = NoCall
        BY <1>1, <1>7, TasksAre DEF IInv, StageInv
    <2>4. QED
        BY <1>1, <2>2, <2>3 DEF IInv, StageInv
<1>11. SentInv'
    <2>1. ASSUME NEW c \in calls
          PROVE  SentToGenerate(c.scope)'
        <3>1. PICK x : x = c.scope
            OBVIOUS
        <3>2. SentToGenerate(x)
            BY <1>1, <3>1 DEF IInv, SentInv
        <3>3. ASSUME x.phase = "query", x.of \in indices
              PROVE  Past(x)'
            <4>1. Past(x) /\ x.of[1] \in Histories
                BY <3>2, <3>3, RowsAre DEF SentToGenerate, IInv, StageInv
            <4>2. NoCall.phase # "query"
                BY DEF NoCall
            <4>3. x.of[1] # h
                BY <1>1, <1>2, <4>1, <4>2 DEF Past
            <4>4. scope'[x.of[1]] = scope[x.of[1]]
                BY <1>7, <4>1, <4>3, TasksAre
            <4>5. QED
                BY <1>1, <4>1, <4>4 DEF Past
        <3>4. QED
            BY <1>1, <3>1, <3>2, <3>3 DEF SentToGenerate
    <2>2. QED
        BY <1>1, <2>1 DEF SentInv
<1>12. CompleteInv'
    <2>1. ASSUME NEW g \in Histories, NEW k \in DOMAIN Strategies, PastRow(g, k)'
          PROVE  PastRow(g, k)
        <3>1. CASE g = h
            BY <1>1, <1>5, <1>7, <2>1, <3>1 DEF PastRow
        <3>2. CASE g # h
            <4>1. scope'[g] = scope[g]
                BY <1>7, <3>2, TasksAre
            <4>2. QED
                BY <1>1, <2>1, <4>1 DEF PastRow
        <3>3. QED
            BY <3>1, <3>2
    <2>2. QED
        BY <1>1, <2>1 DEF IInv, CompleteInv, CompleteMeansComplete
<1>13. NeverSentTwice'
    BY <1>1 DEF IInv, NeverSentTwice
<1>14. QED
    BY <1>9, <1>10, <1>11, <1>12, <1>13 DEF IInv

-----------------------------------------------------------------------------
(* Reviews *)

LEMMA BeginReviewKeepsInv ==
    ASSUME IInv, NEW r \in Rows, BeginReview(r)
    PROVE  IInv'
<1>1. /\ stage = "reviewing" /\ r \in indices /\ indices' = indices \ {r}
      /\ UNCHANGED <<stopped, calls, round, stage, status, begun, ended, lifecycle, row>>
    BY DEF BeginReview
<1>2. scope[r] = NoCall /\ r \in Tasks
    BY <1>1, TasksAre DEF IInv, StageInv
<1>3. at[r] = "out" /\ scope \in [Tasks -> Scopes \cup {NoCall}]
    BY <1>2 DEF IInv, LedgerInv
<1>4. PICK s : s = Scope("review", "review", r)
    OBVIOUS
<1>5. s \in Scopes /\ s.phase = "review" /\ s.of = r /\ s.round = round
    BY <1>4 DEF Scope, Scopes, IInv, StageInv
<1>6. \A c \in calls : c.scope # s
    BY <1>1, <1>5 DEF IInv, SentInv, SentToReview
<1>7. \/ Request(r, s) /\ review' = review
      \/ /\ row[r] # "answered" /\ review' = [review EXCEPT ![r] = "not_needed"]
         /\ UNCHANGED <<at, scope, result>>
    BY <1>4 DEF BeginReview
<1>8. LedgerInv' /\ JournalInv'
    <2>1. CASE Request(r, s)
        <3>1. \E x : Request(r, x) /\ Fresh(x)
            BY <1>5, <1>6, <2>1 DEF Fresh
        <3>2. QED
            BY <1>1, <1>2, <1>3, <3>1, TurnKeepsLedger, TurnKeepsJournal DEF IInv
    <2>2. CASE UNCHANGED <<at, scope, result>>
        BY <1>1, <2>2 DEF IInv, LedgerInv, JournalInv, Unsent
    <2>3. QED
        BY <1>7, <2>1, <2>2
<1>9. /\ \A u \in Tasks : u # r => scope'[u] = scope[u]
      /\ scope'[r] \in {s, NoCall}
    BY <1>2, <1>3, <1>7 DEF Request
<1>10. DOMAIN review' = Rows /\ \A x \in Rows : x # r => review'[x] = review[x]
    BY <1>7 DEF IInv, StageInv
<1>11. StageInv'
    <2>1. \A g \in Histories : scope'[g] = NoCall
        BY <1>1, <1>9, TasksAre DEF IInv, StageInv
    <2>2. ASSUME NEW x \in Rows, scope'[x] # NoCall
          PROVE  x \notin indices' /\ scope'[x] = Scope("review", "review", x)'
        <3>1. CASE x = r
            BY <1>1, <1>4, <1>9, <2>2, <3>1 DEF Scope
        <3>2. CASE x # r
            <4>1. scope'[x] = scope[x]
                BY <1>9, <3>2, TasksAre
            <4>2. QED
                BY <1>1, <2>2, <4>1 DEF IInv, StageInv, Scope
        <3>3. QED
            BY <3>1, <3>2
    <2>3. indices' \subseteq Rows
        BY <1>1 DEF IInv, StageInv
    <2>4. QED
        BY <1>1, <1>10, <2>1, <2>2, <2>3 DEF IInv, StageInv
<1>12. SentInv'
    <2>1. ASSUME NEW c \in calls, c.scope.phase = "review"
          PROVE  c.scope.of \notin indices' /\ (Reviewing(c.scope.of)' => c.scope.round = round)
        <3>1. PICK x : x = c.scope.of
            OBVIOUS
        <3>2. x \notin indices /\ (Reviewing(x) => c.scope.round = round)
            BY <1>1, <2>1, <3>1 DEF IInv, SentInv, SentToReview
        <3>3. x \in Tasks
            BY <3>1, TasksAre DEF IInv, JournalInv, Journaled, Scopes
        <3>4. scope'[x] = scope[x]
            BY <1>1, <1>9, <3>2, <3>3
        <3>5. QED
            BY <1>1, <3>1, <3>2, <3>4 DEF Reviewing
    <2>2. QED
        BY <1>1, <2>1 DEF SentInv, SentToReview
<1>13. CompleteInv'
    <2>1. ASSUME NEW x \in Rows, Reviewed(x)
          PROVE  Reviewed(x)'
        <3>1. CASE x = r
            BY <1>1, <1>2, <1>3, <1>5, <1>7, <3>1 DEF Reviewed, Reviewing, Request
        <3>2. CASE x # r
            <4>1. scope'[x] = scope[x] /\ review'[x] = review[x]
                BY <1>9, <1>10, <3>2, TasksAre
            <4>2. QED
                BY <1>1, <2>1, <3>2, <4>1 DEF Reviewed, Reviewing
        <3>3. QED
            BY <3>1, <3>2
    <2>2. QED
        BY <1>1, <2>1 DEF IInv, CompleteInv, CompleteMeansComplete
<1>14. NeverSentTwice'
    BY <1>1 DEF IInv, NeverSentTwice
<1>15. QED
    BY <1>8, <1>11, <1>12, <1>13, <1>14 DEF IInv

LEMMA EndReviewKeepsInv ==
    ASSUME IInv, NEW r \in Rows, EndReview(r)
    PROVE  IInv'
<1>1. /\ at[r] = "out" /\ result[r] # "none"
      /\ review' = [review EXCEPT ![r] = IF result[r] = "ok" THEN "ok" ELSE "error"]
      /\ scope' = [scope EXCEPT ![r] = NoCall] /\ result' = [result EXCEPT ![r] = "none"]
      /\ UNCHANGED <<stopped, calls, at, round, stage, status, begun, ended, lifecycle, row, indices>>
    BY DEF EndReview, Returned
<1>2. /\ r \in Tasks /\ at \in [Tasks -> Places] /\ scope \in [Tasks -> Scopes \cup {NoCall}]
      /\ scope[r] # NoCall
    BY <1>1, TasksAre DEF IInv, LedgerInv
<1>3. stage = "reviewing"
    BY <1>2 DEF IInv, StageInv
<1>4. Rests(r)
    BY <1>1, <1>2 DEF Rests
<1>5. LedgerInv' /\ JournalInv'
    BY <1>1, <1>2, <1>4, TurnKeepsLedger, TurnKeepsJournal DEF IInv
<1>6. (\A u \in Tasks : u # r => scope'[u] = scope[u]) /\ scope'[r] = NoCall
    BY <1>1, <1>2
<1>7. /\ DOMAIN review' = Rows /\ \A x \in Rows : x # r => review'[x] = review[x]
      /\ review'[r] \in {"ok", "error"}
    BY <1>1 DEF IInv, StageInv
<1>8. StageInv'
    <2>1. \A g \in Histories : scope'[g] = NoCall
        BY <1>3, <1>6, TasksAre DEF IInv, StageInv
    <2>2. ASSUME NEW x \in Rows, scope'[x] # NoCall
          PROVE  x \notin indices' /\ scope'[x] = Scope("review", "review", x)'
        <3>1. x # r /\ scope'[x] = scope[x]
            BY <1>6, <2>2, TasksAre
        <3>2. QED
            BY <1>1, <2>2, <3>1 DEF IInv, StageInv, Scope
    <2>3. QED
        BY <1>1, <1>3, <1>7, <2>1, <2>2 DEF IInv, StageInv
<1>9. SentInv'
    <2>1. ASSUME NEW c \in calls, c.scope.phase = "review"
          PROVE  c.scope.of \notin indices' /\ (Reviewing(c.scope.of)' => c.scope.round = round)
        <3>1. PICK x : x = c.scope.of
            OBVIOUS
        <3>2. x \notin indices /\ (Reviewing(x) => c.scope.round = round)
            BY <1>3, <2>1, <3>1 DEF IInv, SentInv, SentToReview
        <3>3. x \in Tasks
            BY <3>1, TasksAre DEF IInv, JournalInv, Journaled, Scopes
        <3>4. Reviewing(x)' => Reviewing(x)
            BY <1>6, <3>3 DEF Reviewing, NoCall
        <3>5. QED
            BY <1>1, <3>1, <3>2, <3>4 DEF Reviewing
    <2>2. QED
        BY <1>1, <1>3, <2>1 DEF SentInv, SentToReview
<1>10. CompleteInv'
    <2>1. ASSUME NEW x \in Rows, Reviewed(x)
          PROVE  Reviewed(x)'
        <3>1. CASE x = r
            BY <1>7, <3>1 DEF Reviewed
        <3>2. CASE x # r
            <4>1. scope'[x] = scope[x] /\ review'[x] = review[x]
                BY <1>6, <1>7, <3>2, TasksAre
            <4>2. QED
                BY <1>1, <2>1, <4>1 DEF Reviewed, Reviewing
        <3>3. QED
            BY <3>1, <3>2
    <2>2. QED
        BY <1>1, <1>3, <2>1 DEF IInv, CompleteInv, CompleteMeansComplete
<1>11. NeverSentTwice'
    BY <1>1 DEF IInv, NeverSentTwice
<1>12. QED
    BY <1>5, <1>8, <1>9, <1>10, <1>11 DEF IInv


-----------------------------------------------------------------------------
(* From stage to stage *)

LEMMA GeneratedKeepsInv ==
    ASSUME IInv, Generated
    PROVE  IInv'
<1>1. /\ stage = "generating" /\ stage' = "reviewing" /\ begun = ended
      /\ UNCHANGED <<ledgerVars, round, status, begun, ended, lifecycle, row, review>>
    BY DEF Generated
<1>2. indices' = {r \in Rows : row[r] # "none"} \ (IF round = 1 THEN {} ELSE ReviewSent)
    BY DEF Generated
<1>3. \A t \in Tasks : scope[t] = NoCall
    BY <1>1, TasksAre DEF IInv, StageInv
<1>4. LedgerInv' /\ JournalInv' /\ NeverSentTwice'
    BY <1>1 DEF IInv, LedgerInv, JournalInv, NeverSentTwice, Unsent, ledgerVars
<1>5. StageInv'
    BY <1>1, <1>2, <1>3, TasksAre DEF IInv, StageInv, ledgerVars
<1>6. SentInv'
    <2>1. ASSUME NEW c \in calls, c.scope.phase = "review"
          PROVE  c.scope.of \notin indices' /\ ~Reviewing(c.scope.of)'
        <3>1. c.scope.round < round
            BY <1>1, <2>1 DEF IInv, SentInv, SentToGenerate
        <3>2. c.scope.round \in Nat \ {0} /\ c.scope.of \in Tasks
            BY TasksAre DEF IInv, JournalInv, Journaled, Scopes
        <3>3. round # 1
            BY <3>1, <3>2
        <3>4. c.scope.of \in ReviewSent
            BY <2>1 DEF ReviewSent
        <3>5. scope[c.scope.of].phase # "review"
            BY <1>3, <3>2 DEF NoCall
        <3>6. QED
            BY <1>1, <1>2, <3>3, <3>4, <3>5 DEF Reviewing, ledgerVars
    <2>2. QED
        BY <1>1, <2>1 DEF SentInv, SentToReview, ledgerVars
<1>7. CompleteInv'
    <2>1. ASSUME round = 1, NEW r \in Rows
          PROVE  row[r] # "none" /\ r \in indices'
        <3>1. begun = Histories
            BY <2>1 DEF Generated
        <3>2. r[1] \in ended /\ r = RowOf(r[1], Position(r)) /\ Position(r) \in DOMAIN Strategies
            BY <1>1, <3>1, RowsAre, RunAssumption DEF RowOf
        <3>3. row[r] # "none"
            BY <1>1, <2>1, <3>1, <3>2 DEF IInv, CompleteInv, PastRow, RowOf
        <3>4. QED
            BY <1>2, <2>1, <3>3
    <2>2. QED
        BY <1>1, <2>1 DEF IInv, CompleteInv, CompleteMeansComplete, Reviewed, ledgerVars
<1>8. QED
    BY <1>4, <1>5, <1>6, <1>7 DEF IInv

LEMMA EndRunKeepsInv ==
    ASSUME IInv, EndRun
    PROVE  IInv'
<1>1. /\ stage = "reviewing" /\ stage' = "ended" /\ \A r \in Rows : ~Reviewing(r)
      /\ indices = {} \/ (round > 1 /\ stopped)
      /\ UNCHANGED <<ledgerVars, round, begun, ended, lifecycle, row, review, indices>>
    BY DEF EndRun, ReviewsOver
<1>2. \A t \in Tasks : scope[t] = NoCall
    <2>1. \A h \in Histories : scope[h] = NoCall
        BY <1>1, NoneOutside DEF IInv
    <2>2. ASSUME NEW r \in Rows, scope[r] # NoCall
          PROVE  FALSE
        <3>1. scope[r] = Scope("review", "review", r)
            BY <2>2 DEF IInv, StageInv
        <3>2. scope[r].phase = "review"
            BY <3>1 DEF Scope
        <3>3. QED
            BY <1>1, <3>2 DEF Reviewing
    <2>3. QED
        BY <2>1, <2>2, TasksAre
<1>3. LedgerInv' /\ JournalInv' /\ NeverSentTwice'
    BY <1>1 DEF IInv, LedgerInv, JournalInv, NeverSentTwice, Unsent, ledgerVars
<1>4. StageInv'
    BY <1>1, <1>2, TasksAre DEF IInv, StageInv, ledgerVars
<1>5. SentInv'
    BY <1>1 DEF SentInv
<1>6. CompleteMeansComplete'
    <2>1. SUFFICES ASSUME status' = "COMPLETE" PROVE CompleteMeansComplete'
        BY DEF CompleteMeansComplete
    <2>2. ~stopped /\ round = 1 /\ indices = {}
        <3>1. stopped \in BOOLEAN
            BY DEF IInv, LedgerInv
        <3>2. QED
            BY <1>1, <2>1, <3>1 DEF EndRun
    <2>3. ASSUME NEW r \in Rows
          PROVE  /\ row[r] \in {"answered", "abstained", "error"}
                 /\ row[r] = "answered" => review[r] \in {"ok", "error"}
        BY <1>1, <2>2 DEF IInv, CompleteInv, Reviewed
    <2>4. ASSUME NEW c \in calls
          PROVE  c.status # "pending" /\ c.used # 0
        <3>1. \A t \in Tasks : at[t] # "sent"
            BY <1>2 DEF IInv, LedgerInv
        <3>2. QED
            BY <2>2, <3>1 DEF IInv, JournalInv, CompleteInv
    <2>5. QED
        BY <1>1, <2>3, <2>4 DEF CompleteMeansComplete, ledgerVars
<1>7. CompleteInv'
    BY <1>1, <1>6 DEF IInv, CompleteInv, ledgerVars
<1>8. QED
    BY <1>3, <1>4, <1>5, <1>6, <1>7 DEF IInv

LEMMA AbortKeepsInv ==
    ASSUME IInv, Abort
    PROVE  IInv'
<1>1. /\ stage' = "ended" /\ status' = "INCOMPLETE" /\ stage # "ended"
      /\ UNCHANGED <<stopped, round, begun, ended, lifecycle, row, review, indices>>
      /\ at' = [t \in Tasks |-> "out"] /\ result' = [t \in Tasks |-> "none"]
      /\ scope' = [t \in Tasks |-> NoCall]
    BY DEF Abort, CancelCalls
<1> DEFINE Cut(c) == IF c.status = "pending" THEN [c EXCEPT !.status = "error"] ELSE c
<1>2. calls' = {Cut(c) : c \in calls}
    BY DEF Abort, CancelCalls
<1>3. ASSUME NEW c \in calls
      PROVE  /\ Cut(c) \in Journaled /\ Cut(c).scope = c.scope /\ Cut(c).used = c.used
             /\ Cut(c).status # "pending"
    BY DEF IInv, JournalInv, Journaled
<1>4. ASSUME NEW d \in calls'
      PROVE  /\ d \in Journaled /\ d.status # "pending"
             /\ \E c \in calls : d = Cut(c) /\ c.scope = d.scope /\ c.used = d.used
    <2>1. PICK c \in calls : d = Cut(c)
        BY <1>2
    <2> HIDE DEF Cut
    <2>2. QED
        BY <1>3, <2>1
<1> HIDE DEF Cut
<1>5. LedgerInv'
    BY <1>1 DEF IInv, LedgerInv, Places, Outcomes
<1>6. JournalInv'
    <2>1. IsFiniteSet(calls')
        <3>1. PICK f : f = [c \in calls |-> Cut(c)]
            OBVIOUS
        <3>2. f \in Surjection(calls, calls')
            BY <1>2, <3>1 DEF Surjection
        <3>3. IsFiniteSet(calls)
            BY DEF IInv, JournalInv
        <3>4. QED
            BY <3>2, <3>3, FS_Surjection
    <2>2. \A c, d \in calls' : c.scope = d.scope => c = d
        BY <1>4 DEF IInv, JournalInv
    <2>3. \A c \in calls' : c.scope.round <= round
        BY <1>4 DEF IInv, JournalInv
    <2>4. calls' \subseteq Journaled /\ \A c \in calls' : c.status # "pending"
        BY <1>4
    <2>5. \A t \in Tasks : at'[t] = "out"
        BY <1>1
    <2>6. QED
        BY <1>1, <2>1, <2>2, <2>3, <2>4, <2>5 DEF JournalInv, Unsent
<1>7. StageInv'
    BY <1>1, TasksAre DEF IInv, StageInv
<1>8. SentInv'
    BY <1>1 DEF SentInv
<1>9. CompleteInv'
    <2>1. round = 1 => \A c \in calls' : c.used = 0 => stopped
        BY <1>4 DEF IInv, CompleteInv
    <2>2. QED
        BY <1>1, <2>1 DEF IInv, CompleteInv, CompleteMeansComplete
<1>10. NeverSentTwice'
    BY <1>4 DEF IInv, NeverSentTwice
<1>11. QED
    BY <1>5, <1>6, <1>7, <1>8, <1>9, <1>10 DEF IInv

LEMMA ContinueKeepsInv ==
    ASSUME IInv, Continue
    PROVE  IInv'
<1>1. /\ stage = "ended" /\ stage' = "generating" /\ status' = "RUNNING" /\ stopped' = FALSE
      /\ begun' = {} /\ ended' = {} /\ indices' = PendingRows
      /\ round' = round + 1 /\ round \in Nat \ {0}
      /\ UNCHANGED <<calls, at, scope, result, lifecycle, row, review>>
    BY DEF Continue, IInv, StageInv
<1>2. \A t \in Tasks : scope[t] = NoCall
    BY <1>1, NoneOutside DEF IInv
<1>3. LedgerInv'
    BY <1>1, <1>2 DEF IInv, LedgerInv
<1>4. JournalInv'
    <2>1. \A c \in calls : c.scope.round \in Nat /\ c.scope.round <= round
        BY DEF IInv, JournalInv, Journaled, Scopes
    <2>2. \A c \in calls : c.scope.round <= round'
        BY <1>1, <2>1
    <2>3. QED
        BY <1>1, <2>2 DEF IInv, JournalInv, Unsent
<1>5. StageInv'
    BY <1>1, <1>2, TasksAre DEF IInv, StageInv, PendingRows
<1>6. SentInv'
    <2>1. ASSUME NEW c \in calls
          PROVE  SentToGenerate(c.scope)'
        <3>1. c.scope.round \in Nat /\ c.scope.round < round'
            BY <1>1 DEF IInv, JournalInv, Journaled, Scopes
        <3>2. ~ (c.scope.phase = "query" /\ c.scope.of \in indices')
            BY <1>1 DEF PendingRows
        <3>3. QED
            BY <1>1, <3>1, <3>2 DEF SentToGenerate
    <2>2. QED
        BY <1>1, <2>1 DEF SentInv
<1>7. CompleteInv'
    BY <1>1 DEF CompleteInv, CompleteMeansComplete
<1>8. NeverSentTwice'
    BY <1>1 DEF IInv, NeverSentTwice
<1>9. QED
    BY <1>3, <1>4, <1>5, <1>6, <1>7, <1>8 DEF IInv

LEMMA StepInv ==
    ASSUME IInv, [Next]_vars
    PROVE  IInv'
<1>1. CASE UNCHANGED vars
    <2>1. /\ UNCHANGED <<stopped, calls, at, scope, result>>
          /\ UNCHANGED <<round, stage, status, begun, ended, lifecycle, row, review, indices>>
        BY <1>1 DEF vars, ledgerVars, runVars
    <2>2. LedgerInv' /\ JournalInv' /\ NeverSentTwice'
        BY <2>1 DEF IInv, LedgerInv, JournalInv, Unsent, NeverSentTwice
    <2>3. StageInv'
        BY <2>1 DEF IInv, StageInv, Indexing, Querying, Scope
    <2>4. SentInv'
        BY <2>1 DEF IInv, SentInv, SentToGenerate, SentToReview, Past, Reviewing
    <2>5. CompleteInv'
        BY <2>1 DEF IInv, CompleteInv, PastRow, Reviewed, Reviewing, CompleteMeansComplete
    <2>6. QED
        BY <2>2, <2>3, <2>4, <2>5 DEF IInv
<1>2. CASE \E h \in Histories : BeginHistory(h) \/ Indexed(h) \/ Navigated(h) \/ Queried(h)
    BY <1>2, BeginHistoryKeepsInv, IndexedKeepsInv, NavigatedKeepsInv, QueriedKeepsInv
<1>3. CASE \E r \in Rows : BeginReview(r) \/ EndReview(r)
    BY <1>3, BeginReviewKeepsInv, EndReviewKeepsInv
<1>4. CASE CallStep /\ UNCHANGED runVars
    BY <1>4, CallKeepsInv
<1>5. QED
    BY <1>1, <1>2, <1>3, <1>4, GeneratedKeepsInv, EndRunKeepsInv, AbortKeepsInv, ContinueKeepsInv
       DEF Next, Stay

LEMMA InitInv == RunInit => IInv
<1>1. SUFFICES ASSUME RunInit PROVE IInv
    OBVIOUS
<1>2. /\ stopped = FALSE /\ calls = {} /\ at = [t \in Tasks |-> "out"]
      /\ scope = [t \in Tasks |-> NoCall] /\ result = [t \in Tasks |-> "none"]
      /\ round = 1 /\ stage = "generating" /\ status = "RUNNING" /\ begun = {} /\ ended = {}
      /\ row = [r \in Rows |-> "none"] /\ review = [r \in Rows |-> "none"] /\ indices = Rows
    BY <1>1 DEF RunInit, LedgerInit
<1>3. LedgerInv
    BY <1>2 DEF LedgerInv, Places, Outcomes
<1>4. JournalInv
    BY <1>2, FS_EmptySet DEF JournalInv, Unsent
<1>5. StageInv
    BY <1>2, TasksAre DEF StageInv
<1>6. SentInv /\ NeverSentTwice
    BY <1>2 DEF SentInv, NeverSentTwice
<1>7. CompleteInv
    BY <1>2, TasksAre DEF CompleteInv, CompleteMeansComplete, PastRow
<1>8. QED
    BY <1>3, <1>4, <1>5, <1>6, <1>7 DEF IInv


-----------------------------------------------------------------------------
(* Theorems *)

(* Whatever the histories, the strategies and the limits, and however      *)
(* often a run is continued: the journal holds each request once and knows *)
(* what is under way, what was sent for a row is never a row's that is     *)
(* still to be asked, and the first run leaves no row behind.              *)
THEOREM ComparisonInvariance == Spec => []IInv
<1>1. RunInit => IInv
    BY InitInv
<1>2. IInv /\ [Next]_vars => IInv'
    BY StepInv
<1>3. QED
    BY <1>1, <1>2, PTL DEF Spec

(* "Never retry a dispatched query or review": whatever was sent for a row *)
(* by the run or by an earlier continuation, answered, refused, timed out  *)
(* or cancelled, no continuation sends it again.                           *)
THEOREM SentOnce == Spec => []NeverSentTwice
<1>1. IInv => NeverSentTwice
    BY DEF IInv
<1>2. QED
    BY <1>1, ComparisonInvariance, PTL

(* A run ends COMPLETE only with a result in every row and a review of     *)
(* every answer, nothing pending and no call that claims to be free.       *)
THEOREM CompleteIsComplete == Spec => []CompleteMeansComplete
<1>1. IInv => CompleteMeansComplete
    BY DEF IInv, CompleteInv
<1>2. QED
    BY <1>1, ComparisonInvariance, PTL

-----------------------------------------------------------------------------
(* A stopped run sends nothing *)

(* The end of a call puts one journal entry in the place of another. *)
LEMMA EndReplaces ==
    ASSUME JournalInv, NEW t \in Tasks, Ends(t)
    PROVE  \E old \in calls, new \in Journaled :
                /\ calls' = (calls \ {old}) \cup {new} /\ new \notin calls \ {old}
                /\ old.used = Unknown
<1>1. PICK state \in {"ok", "error"}, used \in {Unknown} \cup 0..(Reserve + 1) : Record(t, state, used)
    BY DEF Ends
<1>2. PICK new : Replaced(t, state, used, new)
    BY <1>1, Recorded DEF Ends
<1>3. PICK old : old = MyCall(t)
    OBVIOUS
<1>4. /\ old \in calls /\ old.scope = scope[t] /\ old.used = Unknown
      /\ \A c \in calls : c.scope = scope[t] => c = old
    BY <1>3, MyCallIs DEF Ends
<1>5. {c \in calls : c.scope # scope[t]} = calls \ {old}
    BY <1>4
<1>6. QED
    BY <1>2, <1>4, <1>5 DEF Replaced

Cut(c) == IF c.status = "pending" THEN [c EXCEPT !.status = "error"] ELSE c

(* Cancellation moves the journal entries, each to one of its own. *)
LEMMA AbortMoves ==
    ASSUME JournalInv, Abort
    PROVE  /\ calls' = {Cut(c) : c \in calls}
           /\ \A c \in calls : Cut(c) \in Journaled /\ Cut(c).used = c.used
           /\ \A c, d \in calls : Cut(c) = Cut(d) => c = d
<1>1. calls' = {Cut(c) : c \in calls}
    BY DEF Abort, CancelCalls, Cut
<1>2. ASSUME NEW c \in calls
      PROVE  Cut(c) \in Journaled /\ Cut(c).used = c.used /\ Cut(c).scope = c.scope
    BY DEF JournalInv, Journaled, Cut
<1>3. \A c, d \in calls : Cut(c) = Cut(d) => c.scope = d.scope
    BY <1>2
<1>4. QED
    BY <1>1, <1>2, <1>3 DEF JournalInv

(* Which steps change the journal. *)
LEMMA JournalSteps ==
    ASSUME IInv, [Next]_vars
    PROVE  \/ UNCHANGED calls
           \/ \E t \in Tasks : \/ Sends(t) /\ ~Exhausted(MaxCalls * round, MaxTokens * round)
                               \/ Ends(t)
              /\ UNCHANGED runVars
           \/ Abort
<1>1. CASE UNCHANGED vars
    BY <1>1 DEF vars, ledgerVars
<1>2. CASE \E h \in Histories : BeginHistory(h) \/ Indexed(h) \/ Navigated(h) \/ Queried(h)
    BY <1>2 DEF BeginHistory, Indexed, Navigated, Queried
<1>3. CASE \E r \in Rows : BeginReview(r) \/ EndReview(r)
    BY <1>3 DEF BeginReview, EndReview
<1>4. CASE CallStep /\ UNCHANGED runVars
    <2>1. PICK t \in Tasks : LedgerStep(t, MaxCalls * round, MaxTokens * round)
        BY <1>4 DEF CallStep
    <2>2. \/ Paces(t) \/ Quits(t) \/ Ends(t)
          \/ Sends(t) /\ ~Exhausted(MaxCalls * round, MaxTokens * round)
        BY <2>1, CallForms DEF IInv
    <2>3. Paces(t) \/ Quits(t) => UNCHANGED calls
        BY DEF Paces, Quits
    <2>4. QED
        BY <1>4, <2>2, <2>3
<1>5. CASE Generated \/ EndRun \/ Continue \/ Stay
    BY <1>5 DEF Generated, EndRun, Continue, Stay, ledgerVars, vars
<1>6. QED
    BY <1>1, <1>2, <1>3, <1>4, <1>5 DEF Next

LEMMA StopStep ==
    ASSUME IInv, [Next]_vars, stopped
    PROVE  Cardinality(calls') = Cardinality(calls)
<1>0. IsFiniteSet(calls)
    BY DEF IInv, JournalInv
<1>1. CASE \E t \in Tasks : Ends(t)
    <2>1. PICK old \in calls, new \in Journaled : calls' = (calls \ {old}) \cup {new} /\ new \notin calls \ {old}
        BY <1>1, EndReplaces DEF IInv
    <2>2. IsFiniteSet(calls \ {old}) /\ Cardinality(calls \ {old}) = Cardinality(calls) - 1
        BY <1>0, FS_RemoveElement
    <2>3. Cardinality(calls') = Cardinality(calls \ {old}) + 1
        BY <2>1, <2>2, FS_AddElement
    <2>4. QED
        BY <1>0, <2>2, <2>3, FS_CardinalityType
<1>2. CASE Abort
    <2>1. PICK f : f = [c \in calls |-> Cut(c)]
        OBVIOUS
    <2>2. calls' = {Cut(c) : c \in calls} /\ \A c, d \in calls : Cut(c) = Cut(d) => c = d
        BY <1>2, AbortMoves DEF IInv
    <2>3. f \in [calls -> calls'] /\ \A c \in calls : f[c] = Cut(c)
        BY <2>1, <2>2
    <2>4. \A d \in calls' : \E c \in calls : f[c] = d
        BY <2>2, <2>3
    <2>5. f \in Surjection(calls, calls') /\ f \in Injection(calls, calls')
        BY <2>2, <2>3, <2>4 DEF Surjection, Injection, IsInjective
    <2>6. QED
        BY <1>0, <2>5, FS_Surjection
<1>3. \A t \in Tasks : ~Sends(t)
    BY DEF Sends
<1>4. QED
    BY <1>1, <1>2, <1>3, JournalSteps

(* Once the run has stopped no journal entry is added, though calls wait   *)
(* for a slot or sleep at that moment, until a continuation takes over.    *)
THEOREM StoppedSendsNothing == Spec => NothingSentAfterStop
<1>1. IInv /\ [Next]_vars => [stopped => Cardinality(calls') = Cardinality(calls)]_vars
    BY StopStep
<1>2. QED
    BY <1>1, ComparisonInvariance, PTL DEF Spec, NothingSentAfterStop


-----------------------------------------------------------------------------
(* The plan's limits hold *)

Charges(S) == [c \in S |-> Charge(c)]

(* No call has cost more than was reserved for it, as far as is known. *)
KeptToReserve(S) == \A c \in S : c.used \in {Unknown} \cup 1..Reserve

BudgetInv ==
    /\ Cardinality(calls) <= MaxCalls * round
    /\ KeptToReserve(calls) => SumFunction(Charges(calls)) <= MaxTokens * round

(* A call costs a whole number of tokens. *)
LEMMA ChargeType ==
    ASSUME NEW S \in SUBSET Journaled
    PROVE  Charges(S) \in [S -> Int]
<1>1. ASSUME NEW c \in S
      PROVE  Charge(c) \in Int
    BY LedgerAssumption DEF Charge, Journaled
<1>2. QED
    BY <1>1 DEF Charges

(* What is reserved is the sum of the charges. *)
LEMMA ReservedIs ==
    ASSUME NEW S \in SUBSET Journaled, IsFiniteSet(S)
    PROVE  MapThenSumSet(Charge, S) = SumFunction(Charges(S))
<1> DEFINE Sums(sum) ==
                sum = [s \in SUBSET S |->
                        IF s = {} THEN 0 ELSE Charge(Some(s)) + sum[s \ {Some(s)}]]
<1>1. Charges(S) \in [S -> Int]
    BY ChargeType
<1>2. \A s \in SUBSET S : s # {} => Charges(S)[Some(s)] = Charge(Some(s))
    BY DEF Charges, Some
<1>3. \A sum : Sums(sum) <=> AddsUp(sum, Charges(S), S)
    BY <1>2 DEF AddsUp
<1>4. MapThenSumSet(Charge, S) = (CHOOSE sum : Sums(sum))[S]
    BY DEF MapThenSumSet, MapThenFoldSet, Some
<1>5. PICK sum : AddsUp(sum, Charges(S), S) /\ SumFunction(Charges(S)) = sum[S]
    BY <1>1, SumAddsUp
<1> HIDE DEF Sums
<1>6. Sums(CHOOSE s : Sums(s))
    BY <1>3, <1>5
<1>7. PICK other : other = (CHOOSE s : Sums(s))
    OBVIOUS
<1>8. AddsUp(other, Charges(S), S) /\ MapThenSumSet(Charge, S) = other[S]
    BY <1>3, <1>4, <1>6, <1>7
<1>9. other[S] = sum[S]
    BY <1>1, <1>5, <1>8, SumAgrees
<1>10. QED
    BY <1>5, <1>8, <1>9

(* So is the worst that calls can have cost which kept to their reserve. *)
LEMMA WorstIs ==
    ASSUME NEW S \in SUBSET Journaled, IsFiniteSet(S), KeptToReserve(S)
    PROVE  MapThenSumSet(Worst, S) = SumFunction(Charges(S))
<1> DEFINE Sums(sum) ==
                sum = [s \in SUBSET S |->
                        IF s = {} THEN 0 ELSE Worst(Some(s)) + sum[s \ {Some(s)}]]
<1>1. Charges(S) \in [S -> Int]
    BY ChargeType
<1>2. \A s \in SUBSET S : s # {} => Charges(S)[Some(s)] = Worst(Some(s))
    <2>1. \A c \in S : Charge(c) = Worst(c)
        BY LedgerAssumption DEF KeptToReserve, Charge, Worst
    <2>2. QED
        BY <2>1 DEF Charges, Some
<1>3. \A sum : Sums(sum) <=> AddsUp(sum, Charges(S), S)
    BY <1>2 DEF AddsUp
<1>4. MapThenSumSet(Worst, S) = (CHOOSE sum : Sums(sum))[S]
    BY DEF MapThenSumSet, MapThenFoldSet, Some
<1>5. PICK sum : AddsUp(sum, Charges(S), S) /\ SumFunction(Charges(S)) = sum[S]
    BY <1>1, SumAddsUp
<1> HIDE DEF Sums
<1>6. Sums(CHOOSE s : Sums(s))
    BY <1>3, <1>5
<1>7. PICK other : other = (CHOOSE s : Sums(s))
    OBVIOUS
<1>8. AddsUp(other, Charges(S), S) /\ MapThenSumSet(Worst, S) = other[S]
    BY <1>3, <1>4, <1>6, <1>7
<1>9. other[S] = sum[S]
    BY <1>1, <1>5, <1>8, SumAgrees
<1>10. QED
    BY <1>5, <1>8, <1>9

(* One call more, one charge more. *)
LEMMA OneMore ==
    ASSUME NEW S \in SUBSET Journaled, IsFiniteSet(S), NEW c \in Journaled, c \notin S
    PROVE  /\ Cardinality(S \cup {c}) = Cardinality(S) + 1
           /\ SumFunction(Charges(S \cup {c})) = SumFunction(Charges(S)) + Charge(c)
<1>1. IsFiniteSet(S \cup {c}) /\ Cardinality(S \cup {c}) = Cardinality(S) + 1
    BY FS_AddElement
<1>2. Charges(S) \in [S -> Int] /\ Charges(S \cup {c}) \in [S \cup {c} -> Int]
    BY ChargeType
<1>3. PICK D : D = S \cup {c}
    OBVIOUS
<1>4. D \ {c} = S /\ c \in D
    BY <1>3
<1>5. \A d \in S : Charges(S)[d] = Charges(D)[d]
    BY <1>3 DEF Charges
<1>6. SumFunction(Charges(D)) = SumFunction(Charges(S)) + Charges(D)[c]
    <2>1. PICK f, g : f = Charges(D) /\ g = Charges(S)
        OBVIOUS
    <2>2. f \in [D -> Int] /\ g \in [D \ {c} -> Int] /\ \A d \in D \ {c} : g[d] = f[d]
        BY <1>2, <1>3, <1>4, <1>5, <2>1
    <2>3. IsFiniteSet(D) /\ c \in D
        BY <1>1, <1>3
    <2>4. SumFunction(f) = SumFunction(g) + f[c]
        BY <2>2, <2>3, SumSplits
    <2>5. QED
        BY <2>1, <2>4
<1>7. Charges(D)[c] = Charge(c)
    BY <1>4 DEF Charges
<1>8. QED
    BY <1>1, <1>3, <1>6, <1>7


LEMMA SendKeepsBudget ==
    ASSUME IInv, NEW t \in Tasks, Sends(t), ~Exhausted(MaxCalls * round, MaxTokens * round),
           UNCHANGED runVars
    PROVE  BudgetInv'
<1>1. PICK new : new = [scope |-> scope[t], status |-> "pending", used |-> Unknown]
    OBVIOUS
<1>2. calls' = calls \cup {new} /\ round' = round
    BY <1>1 DEF Sends, Send, runVars
<1>3. new \notin calls
    BY <1>1 DEF IInv, JournalInv, Unsent, Sends
<1>4. new \in Journaled
    <2>1. scope[t] # NoCall
        BY DEF IInv, LedgerInv, Sends
    <2>2. scope[t] \in Scopes
        BY <2>1, CallerScope DEF IInv
    <2>3. QED
        BY <1>1, <2>2 DEF Journaled
<1>5. IsFiniteSet(calls) /\ calls \in SUBSET Journaled
    BY DEF IInv, JournalInv
<1>6. Cardinality(calls') = Cardinality(calls) + 1
    BY <1>2, <1>3, <1>4, <1>5, OneMore
<1>7. SumFunction(Charges(calls')) = Reserved + Reserve
    <2>1. SumFunction(Charges(calls')) = SumFunction(Charges(calls)) + Charge(new)
        BY <1>2, <1>3, <1>4, <1>5, OneMore
    <2>2. Charge(new) = Reserve
        BY <1>1 DEF Charge
    <2>3. Reserved = SumFunction(Charges(calls))
        BY <1>5, ReservedIs DEF Reserved
    <2>4. QED
        BY <2>1, <2>2, <2>3
<1>8. Reserved \in Int
    BY <1>5, ReservedIs, ChargeType, SumType DEF Reserved
<1>9. Cardinality(calls) \in Nat /\ MaxCalls * round \in Int /\ MaxTokens * round \in Int
    BY <1>5, FS_CardinalityType, RunAssumption DEF IInv, StageInv
<1>10. ~ (Cardinality(calls) >= MaxCalls * round) /\ ~ (Reserved + Reserve > MaxTokens * round)
    BY DEF Exhausted
<1>11. Cardinality(calls') <= MaxCalls * round
    BY <1>6, <1>9, <1>10
<1>12. SumFunction(Charges(calls')) <= MaxTokens * round
    BY <1>7, <1>8, <1>9, <1>10, LedgerAssumption
<1>13. QED
    BY <1>2, <1>11, <1>12 DEF BudgetInv

LEMMA EndKeepsBudget ==
    ASSUME IInv, BudgetInv, NEW t \in Tasks, Ends(t), UNCHANGED runVars
    PROVE  BudgetInv'
<1>1. PICK old \in calls, new \in Journaled :
            /\ calls' = (calls \ {old}) \cup {new} /\ new \notin calls \ {old}
            /\ old.used = Unknown
    BY EndReplaces DEF IInv
<1>2. PICK rest : rest = calls \ {old}
    OBVIOUS
<1>3. IsFiniteSet(calls) /\ calls \in SUBSET Journaled
    BY DEF IInv, JournalInv
<1>4. IsFiniteSet(rest) /\ rest \in SUBSET Journaled /\ old \notin rest /\ new \notin rest
    BY <1>1, <1>2, <1>3, FS_RemoveElement
<1>5. calls = rest \cup {old} /\ calls' = rest \cup {new}
    BY <1>1, <1>2
<1>6. /\ Cardinality(calls) = Cardinality(rest) + 1
      /\ SumFunction(Charges(calls)) = SumFunction(Charges(rest)) + Charge(old)
    BY <1>3, <1>4, <1>5, OneMore
<1>7. /\ Cardinality(calls') = Cardinality(rest) + 1
      /\ SumFunction(Charges(calls')) = SumFunction(Charges(rest)) + Charge(new)
    BY <1>1, <1>4, <1>5, OneMore
<1>8. Cardinality(calls') <= MaxCalls * round
    BY <1>6, <1>7 DEF BudgetInv
<1>9. ASSUME KeptToReserve(calls')
      PROVE  SumFunction(Charges(calls')) <= MaxTokens * round
    <2>1. KeptToReserve(calls)
        BY <1>1, <1>5, <1>9 DEF KeptToReserve
    <2>2. new.used \in {Unknown} \cup 1..Reserve
        BY <1>5, <1>9 DEF KeptToReserve
    <2>3. Charge(old) = Reserve /\ Charge(new) \in Int /\ Charge(new) <= Reserve
        BY <1>1, <2>2, LedgerAssumption DEF Charge
    <2>4. SumFunction(Charges(rest)) \in Int
        BY <1>4, ChargeType, SumType
    <2>5. MaxTokens * round \in Int
        BY RunAssumption DEF IInv, StageInv
    <2>6. SumFunction(Charges(rest)) + Reserve <= MaxTokens * round
        BY <1>6, <2>1, <2>3 DEF BudgetInv
    <2>7. QED
        BY <1>7, <2>3, <2>4, <2>5, <2>6, LedgerAssumption
<1>10. round' = round
    BY DEF runVars
<1>11. QED
    BY <1>8, <1>9, <1>10 DEF BudgetInv


LEMMA AbortKeepsBudget ==
    ASSUME IInv, BudgetInv, Abort
    PROVE  BudgetInv'
<1>1. /\ calls' = {Cut(c) : c \in calls}
      /\ \A c \in calls : Cut(c) \in Journaled /\ Cut(c).used = c.used
      /\ \A c, d \in calls : Cut(c) = Cut(d) => c = d
    BY AbortMoves DEF IInv
<1>2. IsFiniteSet(calls) /\ calls \in SUBSET Journaled /\ round' = round
    BY DEF IInv, JournalInv, Abort
<1>3. PICK to, f, g : /\ to = [c \in calls |-> Cut(c)]
                      /\ f = Charges(calls) /\ g = Charges(calls')
    OBVIOUS
<1>4. /\ to \in [calls -> calls'] /\ \A c \in calls : to[c] = Cut(c)
      /\ \A c, d \in calls : to[c] = to[d] => c = d
      /\ \A e \in calls' : \E c \in calls : to[c] = e
    BY <1>1, <1>3
<1>5. calls' \in SUBSET Journaled
    BY <1>1
<1>6. f \in [calls -> Int] /\ g \in [calls' -> Int]
    BY <1>2, <1>3, <1>5, ChargeType
<1>7. \A c \in calls : g[to[c]] = f[c]
    <2>1. ASSUME NEW c \in calls
          PROVE  g[to[c]] = f[c]
        <3>1. to[c] \in calls' /\ to[c] = Cut(c)
            BY <1>4
        <3>2. g[to[c]] = Charge(Cut(c)) /\ f[c] = Charge(c)
            BY <1>3, <3>1 DEF Charges
        <3>3. QED
            BY <1>1, <3>2 DEF Charge
    <2>2. QED
        BY <2>1
<1>8. SumFunction(g) = SumFunction(f)
    BY <1>2, <1>4, <1>6, <1>7, SumMoves
<1>9. Cardinality(calls') <= Cardinality(calls) /\ IsFiniteSet(calls')
    <2>1. to \in Surjection(calls, calls')
        BY <1>4 DEF Surjection
    <2>2. QED
        BY <1>2, <2>1, FS_Surjection
<1>10. Cardinality(calls') <= MaxCalls * round
    <2>1. Cardinality(calls) \in Nat /\ Cardinality(calls') \in Nat /\ MaxCalls * round \in Int
        BY <1>2, <1>9, FS_CardinalityType, RunAssumption DEF IInv, StageInv
    <2>2. QED
        BY <1>9, <2>1 DEF BudgetInv
<1>11. KeptToReserve(calls') => KeptToReserve(calls)
    BY <1>1 DEF KeptToReserve
<1>12. SumFunction(Charges(calls')) = SumFunction(Charges(calls))
    BY <1>3, <1>8
<1>13. QED
    BY <1>2, <1>10, <1>11, <1>12 DEF BudgetInv

LEMMA StepKeepsBudget ==
    ASSUME IInv, BudgetInv, [Next]_vars
    PROVE  BudgetInv'
<1>1. CASE \E t \in Tasks : \/ Sends(t) /\ ~Exhausted(MaxCalls * round, MaxTokens * round)
                            \/ Ends(t)
           /\ UNCHANGED runVars
    BY <1>1, SendKeepsBudget, EndKeepsBudget
<1>2. CASE Abort
    BY <1>2, AbortKeepsBudget
<1>3. CASE UNCHANGED calls
    <2>1. round' = round \/ round' = round + 1
        BY DEF Next, vars, runVars, BeginHistory, Indexed, Navigated, Queried, BeginReview,
               EndReview, Generated, EndRun, Abort, Continue, Stay
    <2>2. round \in Nat /\ MaxCalls \in Nat /\ MaxTokens \in Nat
        BY RunAssumption DEF IInv, StageInv
    <2>3. MaxCalls * round <= MaxCalls * round' /\ MaxTokens * round <= MaxTokens * round'
        BY <2>1, <2>2
    <2>4. Cardinality(calls) \in Nat /\ SumFunction(Charges(calls)) \in Int
        BY ChargeType, SumType, FS_CardinalityType DEF IInv, JournalInv
    <2>5. /\ MaxCalls * round \in Int /\ MaxCalls * round' \in Int
          /\ MaxTokens * round \in Int /\ MaxTokens * round' \in Int
        BY <2>1, <2>2
    <2>6. Cardinality(calls) <= MaxCalls * round'
        BY <2>3, <2>4, <2>5 DEF BudgetInv
    <2>7. KeptToReserve(calls) => SumFunction(Charges(calls)) <= MaxTokens * round'
        BY <2>3, <2>4, <2>5 DEF BudgetInv
    <2>8. QED
        BY <1>3, <2>6, <2>7 DEF BudgetInv
<1>4. QED
    BY <1>1, <1>2, <1>3, JournalSteps

LEMMA InitBudget == RunInit => BudgetInv
<1>1. SUFFICES ASSUME RunInit PROVE BudgetInv
    OBVIOUS
<1>2. calls = {} /\ round = 1
    BY <1>1 DEF RunInit, LedgerInit
<1>3. Cardinality(calls) = 0 /\ SumFunction(Charges(calls)) = 0
    BY <1>2, FS_EmptySet, SumOfNothing DEF Charges
<1>4. QED
    BY <1>2, <1>3, RunAssumption DEF BudgetInv

(* Whatever calls run beside each other in however many slots, whatever    *)
(* they answer and whichever are cancelled: there are never more calls     *)
(* than the plan and its continuations allow, and as long as no usage is   *)
(* above the reserve, all of them cost at most what is allowed, a call of  *)
(* unknown usage taken at its worst.                                       *)
THEOREM PlanKept == Spec => []WithinPlan
<1>1. RunInit => IInv /\ BudgetInv
    BY InitInv, InitBudget
<1>2. IInv /\ BudgetInv /\ [Next]_vars => (IInv /\ BudgetInv)'
    BY StepInv, StepKeepsBudget
<1>3. IInv /\ BudgetInv => WithinPlan
    <2>1. SUFFICES ASSUME IInv, BudgetInv, KeptToReserve(calls)
                   PROVE  MapThenSumSet(Worst, calls) <= MaxTokens * round
        BY DEF BudgetInv, WithinPlan, KeptToReserve
    <2>2. IsFiniteSet(calls) /\ calls \in SUBSET Journaled
        BY <2>1 DEF IInv, JournalInv
    <2>3. QED
        BY <2>1, <2>2, WorstIs DEF BudgetInv
<1>4. QED
    BY <1>1, <1>2, <1>3, PTL DEF Spec
=============================================================================
