--------------------------- MODULE WriteGateProofs ---------------------------
(***************************************************************************)
(* Proofs about the write gate: the counter of writers in flight is exact  *)
(* and the gate is not left closed, for any number of writers and clears,  *)
(* cancelled anywhere.                                                     *)
(***************************************************************************)
EXTENDS WriteGate, SetsAndQueues

(* Where a writer is counted, and where a clear has the gate closed.       *)
CountedAt == {"working", "queued", "writing"}
ClosedAt == {"draining", "delete queued", "deleting"}
Places == {"idle", "waiting", "wiping"} \cup CountedAt \cup ClosedAt

IInv ==
    /\ pc \in [Tasks -> Places]
    /\ gate \in BOOLEAN
    /\ InflightExact
    /\ GateNotLeftClosed

LEMMA CountedFinite ==
    /\ IsFiniteSet(Counted)
    /\ Cardinality(Counted) \in Nat
    BY TasksAssumption, FS_Subset, FS_CardinalityType DEF Counted, TasksAssumption

LEMMA Apart == ASSUME NEW w \in Writers, NEW c \in Clearers
               PROVE  w # c /\ w \in Tasks /\ c \in Tasks
    BY TasksAssumption DEF TasksAssumption, Tasks

-----------------------------------------------------------------------------
(* What a move of one task does to the counter and the gate *)

LEMMA PlaceChanged ==
    ASSUME pc \in [Tasks -> Places], NEW t \in Tasks, NEW place \in Places,
           pc' = [pc EXCEPT ![t] = place]
    PROVE  /\ pc' \in [Tasks -> Places]
           /\ pc'[t] = place
           /\ \A u \in Tasks \ {t} : pc'[u] = pc[u]
    OBVIOUS

(* A writer begins, and counts itself. *)
LEMMA WriterBegins ==
    ASSUME IInv, NEW w \in Writers, pc[w] \in {"idle", "waiting"}, NEW place \in CountedAt,
           pc' = [pc EXCEPT ![w] = place], inflight' = inflight + 1, UNCHANGED gate
    PROVE  IInv'
<1>1. w \in Tasks /\ place \in Places
    BY DEF Tasks, Places
<1>2. /\ pc' \in [Tasks -> Places]
      /\ pc'[w] = place
      /\ \A u \in Tasks \ {w} : pc'[u] = pc[u]
    BY <1>1, PlaceChanged DEF IInv
<1>3. Counted' = Counted \cup {w} /\ w \notin Counted
    BY <1>2 DEF Counted, CountedAt, Tasks
<1>4. Cardinality(Counted') = Cardinality(Counted) + 1
    BY <1>3, CountedFinite, FS_AddElement
<1>5. Clearing' = Clearing
    BY <1>2, Apart DEF Clearing
<1>6. QED
    BY <1>2, <1>4, <1>5 DEF IInv, InflightExact, GateNotLeftClosed

(* A writer ends, however, and is no longer counted. *)
LEMMA WriterEnded ==
    ASSUME IInv, NEW w \in Writers, pc[w] \in CountedAt,
           pc' = [pc EXCEPT ![w] = "idle"], inflight' = inflight - 1, UNCHANGED gate
    PROVE  IInv'
<1>1. w \in Tasks /\ "idle" \in Places
    BY DEF Tasks, Places
<1>2. /\ pc' \in [Tasks -> Places]
      /\ pc'[w] = "idle"
      /\ \A u \in Tasks \ {w} : pc'[u] = pc[u]
    BY <1>1, PlaceChanged DEF IInv
<1>3. Counted' = Counted \ {w} /\ w \in Counted
    BY <1>2 DEF Counted, CountedAt, Tasks
<1>4. Cardinality(Counted') = Cardinality(Counted) - 1
    BY <1>3, CountedFinite, FS_RemoveElement
<1>5. Clearing' = Clearing
    BY <1>2, Apart DEF Clearing
<1>6. QED
    BY <1>2, <1>4, <1>5 DEF IInv, InflightExact, GateNotLeftClosed

(* A writer goes on: counted as before, or not counted as before. *)
LEMMA WriterMoves ==
    ASSUME IInv, NEW w \in Writers, NEW place \in Places \ ClosedAt,
           pc[w] \in CountedAt <=> place \in CountedAt,
           pc' = [pc EXCEPT ![w] = place], UNCHANGED <<inflight, gate>>
    PROVE  IInv'
<1>1. w \in Tasks
    BY DEF Tasks
<1>2. /\ pc' \in [Tasks -> Places]
      /\ pc'[w] = place
      /\ \A u \in Tasks \ {w} : pc'[u] = pc[u]
    BY <1>1, PlaceChanged DEF IInv
<1>3. Counted' = Counted /\ Clearing' = Clearing
    BY <1>2, Apart DEF Counted, CountedAt, Clearing, Tasks
<1>4. QED
    BY <1>2, <1>3 DEF IInv, InflightExact, GateNotLeftClosed

(* A clear moves: it has the gate closed, or leaves it open. *)
LEMMA ClearerMoves ==
    ASSUME IInv, NEW c \in Clearers, NEW place \in Places,
           pc' = [pc EXCEPT ![c] = place], UNCHANGED inflight, gate' \in BOOLEAN,
           gate' \/ place \in ClosedAt \/ (pc[c] \notin ClosedAt /\ UNCHANGED gate)
    PROVE  IInv'
<1>1. c \in Tasks
    BY DEF Tasks
<1>2. /\ pc' \in [Tasks -> Places]
      /\ pc'[c] = place
      /\ \A u \in Tasks \ {c} : pc'[u] = pc[u]
    BY <1>1, PlaceChanged DEF IInv
<1>3. Counted' = Counted
    BY <1>2, Apart DEF Counted
<1>4. GateNotLeftClosed'
    BY <1>2 DEF IInv, GateNotLeftClosed, Clearing, ClosedAt, Tasks
<1>5. QED
    BY <1>2, <1>3, <1>4 DEF IInv, InflightExact

-----------------------------------------------------------------------------
(* The steps *)

LEMMA WriterStep ==
    ASSUME IInv, NEW w \in Writers, WriterRuns(w)
    PROVE  IInv'
<1> USE DEF CountedAt, ClosedAt, Places
<1>1. CASE Call(w) \/ PassGate(w)
    <2>1. \E place \in CountedAt : pc' = [pc EXCEPT ![w] = place]
        BY <1>1 DEF Call, PassGate, Acquire
    <2>2. QED
        BY <1>1, <2>1, WriterBegins DEF Call, PassGate
<1>2. CASE CallAtClosedGate(w)
    BY <1>2, WriterMoves DEF CallAtClosedGate
<1>3. CASE LeaveGate(w)
    BY <1>3, WriterMoves DEF LeaveGate
<1>4. CASE LockToWrite(w)
    BY <1>4, WriterMoves DEF LockToWrite, Acquire
<1>5. CASE StartWriting(w)
    BY <1>5, WriterMoves DEF StartWriting
<1>6. CASE Written(w)
    BY <1>6, WriterEnded DEF Written, EndWrite
<1>7. CASE GiveUp(w)
    BY <1>7, WriterEnded DEF GiveUp, EndWrite
<1>8. CASE LeaveQueue(w)
    BY <1>8, WriterEnded DEF LeaveQueue, EndWrite
<1>9. QED
    BY <1>1, <1>2, <1>3, <1>4, <1>5, <1>6, <1>7, <1>8 DEF WriterRuns

LEMMA ClearerStep ==
    ASSUME IInv, NEW c \in Clearers, ClearerRuns(c)
    PROVE  IInv'
<1> USE DEF CountedAt, ClosedAt, Places
<1>1. CASE Close(c)
    <2>1. \E place \in ClosedAt : pc' = [pc EXCEPT ![c] = place]
        BY <1>1 DEF Close, Acquire
    <2>2. QED
        BY <1>1, <2>1, ClearerMoves DEF Close
<1>2. CASE Drained(c)
    <2>1. CASE UNCHANGED pc
        BY <1>2, <2>1 DEF Drained, IInv, InflightExact, GateNotLeftClosed, Counted, Clearing
    <2>2. CASE \E place \in ClosedAt : pc' = [pc EXCEPT ![c] = place]
        BY <1>2, <2>2, ClearerMoves DEF Drained, IInv
    <2>3. QED
        BY <1>2, <2>1, <2>2 DEF Drained, Acquire
<1>3. CASE TimedOut(c)
    BY <1>3, ClearerMoves DEF TimedOut, OpenGate
<1>4. CASE StartDeleting(c)
    BY <1>4, ClearerMoves DEF StartDeleting, IInv
<1>5. CASE Deleted(c)
    BY <1>5, ClearerMoves DEF Deleted, OpenGate
<1>6. CASE Wiped(c)
    BY <1>6, ClearerMoves DEF Wiped, IInv
<1>7. QED
    BY <1>1, <1>2, <1>3, <1>4, <1>5, <1>6 DEF ClearerRuns

LEMMA NextInv ==
    ASSUME IInv, [GateNext]_vars
    PROVE  IInv'
<1>1. ASSUME UNCHANGED <<pc, gate, inflight>> PROVE IInv'
    BY <1>1 DEF IInv, InflightExact, GateNotLeftClosed, Counted, Clearing
<1>2. CASE LoopStep
    BY <1>2, WriterStep, ClearerStep DEF LoopStep
<1>3. CASE \E t \in Tasks : BecomeReady(t) \/ Cancel(t) \/ Deadline(t)
    BY <1>1, <1>3 DEF BecomeReady, Cancel, Deadline
<1>4. CASE UNCHANGED vars
    BY <1>1, <1>4 DEF vars
<1>5. QED
    BY <1>2, <1>3, <1>4 DEF GateNext, Tasks

-----------------------------------------------------------------------------
(* The theorems *)

(* The inductive invariant holds in every reachable state. *)
THEOREM GateInvariance == GateSpec => []IInv
<1>1. GateInit => IInv
    <2>1. SUFFICES ASSUME GateInit PROVE IInv
        OBVIOUS
    <2>2. Counted = {}
        <3>1. pc = [t \in Tasks |-> "idle"]
            BY <2>1 DEF GateInit
        <3>2. \A w \in Writers : w \in Tasks
            BY DEF Tasks
        <3>3. \A w \in Writers : pc[w] = "idle"
            BY <3>1, <3>2
        <3>4. QED
            BY <3>3 DEF Counted
    <2>3. QED
        BY <2>1, <2>2, FS_EmptySet DEF GateInit, IInv, InflightExact, GateNotLeftClosed, Places
<1>2. IInv /\ [GateNext]_vars => IInv'
    BY NextInv
<1>3. QED
    BY <1>1, <1>2, PTL DEF GateSpec

(* _inflight_writers is the number of writers in flight, however they were *)
(* let in and however they end (begin_write and end_write of store.py).    *)
THEOREM CounterExact == GateSpec => []InflightExact
<1>1. IInv => InflightExact
    BY DEF IInv
<1>2. QED
    BY <1>1, GateInvariance, PTL

(* Without a clear under way the gate is open, whichever of several clears *)
(* ended first, and however (the finally clause of clear_history).         *)
THEOREM GateOpens == GateSpec => []GateNotLeftClosed
<1>1. IInv => GateNotLeftClosed
    BY DEF IInv
<1>2. QED
    BY <1>1, GateInvariance, PTL

-----------------------------------------------------------------------------
(* Queues *)

(* The queue s becomes r when its head leaves and those of x join: where   *)
(* everybody is in it then.                                                *)
Becomes(s, x, r) ==
    /\ Len(s) \in Nat \ {0} /\ Len(x) \in Nat
    /\ Len(r) = (Len(s) - 1) + Len(x)
    /\ \A i \in 1..(Len(s) - 1) : i + 1 \in 1..Len(s) /\ r[i] = s[i + 1]
    /\ \A k \in 1..Len(x) : r[(Len(s) - 1) + k] = x[k]
    /\ \A i \in 1..Len(r) : \/ i \in 1..(Len(s) - 1)
                            \/ \E k \in 1..Len(x) : i = (Len(s) - 1) + k

LEMMA HeadLeaves ==
    ASSUME NEW S, NEW s \in Seq(S), s # <<>>, NEW x \in Seq(S), NEW r, r = Tail(s) \o x
    PROVE  r \in Seq(S) /\ s[1] = Head(s) /\ Becomes(s, x, r)
<1> DEFINE u == Tail(s)
<1>1. /\ u \in Seq(S) /\ Len(u) = Len(s) - 1 /\ Len(s) \in Nat \ {0} /\ Len(x) \in Nat
      /\ \A i \in 1..(Len(s) - 1) : u[i] = s[i + 1]
    OBVIOUS
<1>2. r = u \o x
    OBVIOUS
<1> HIDE DEF u
<1>3. r \in Seq(S) /\ Len(r) = (Len(s) - 1) + Len(x)
    BY <1>1, <1>2
<1>4. \A i \in 1..Len(r) : r[i] = IF i <= Len(u) THEN u[i] ELSE x[i - Len(u)]
    BY <1>1, <1>2, <1>3
<1>5. \A i \in 1..(Len(s) - 1) : r[i] = s[i + 1]
    BY <1>1, <1>3, <1>4
<1>6. ASSUME NEW k \in 1..Len(x) PROVE r[(Len(s) - 1) + k] = x[k]
    <2> DEFINE i == (Len(s) - 1) + k
    <2>1. i \in 1..Len(r) /\ ~ (i <= Len(u)) /\ i - Len(u) = k
        BY <1>1, <1>3
    <2> HIDE DEF i
    <2>2. r[i] = x[k]
        BY <1>4, <2>1
    <2>3. QED
        BY <2>2 DEF i
<1>7. ASSUME NEW i \in 1..Len(r), i \notin 1..(Len(s) - 1)
      PROVE  \E k \in 1..Len(x) : i = (Len(s) - 1) + k
    <2>1. i - (Len(s) - 1) \in 1..Len(x) /\ i = (Len(s) - 1) + (i - (Len(s) - 1))
        BY <1>1, <1>3, <1>7
    <2>2. QED
        BY <2>1
<1>8. s[1] = Head(s)
    OBVIOUS
<1>9. \A i \in 1..(Len(s) - 1) : i + 1 \in 1..Len(s)
    BY <1>1
<1>10. QED
    BY <1>1, <1>3, <1>5, <1>6, <1>7, <1>8, <1>9 DEF Becomes

(* Two queues without a common element, one behind the other. *)
Disjoint(a, b) == \A i \in 1..Len(a), j \in 1..Len(b) : a[i] # b[j]

FromEither(r, a, b) ==
    \A k \in 1..Len(r) : \/ \E i \in 1..Len(a) : r[k] = a[i]
                         \/ \E j \in 1..Len(b) : r[k] = b[j]

LEMMA OneBehindOther ==
    ASSUME NEW S, NEW a \in Seq(S), NEW b \in Seq(S), EachOnce(a), EachOnce(b),
           Disjoint(a, b), NEW r, r = a \o b
    PROVE  r \in Seq(S) /\ EachOnce(r) /\ FromEither(r, a, b)
<1>1. /\ r \in Seq(S) /\ Len(r) = Len(a) + Len(b) /\ Len(a) \in Nat /\ Len(b) \in Nat
      /\ \A k \in 1..Len(r) : r[k] = IF k <= Len(a) THEN a[k] ELSE b[k - Len(a)]
    OBVIOUS
<1>2. \A k \in 1..Len(r) : IF k <= Len(a) THEN k \in 1..Len(a) ELSE k - Len(a) \in 1..Len(b)
    BY <1>1
<1>3. ASSUME NEW k \in 1..Len(r), NEW l \in 1..Len(r), r[k] = r[l]
      PROVE  k = l
    <2>1. (k <= Len(a)) <=> (l <= Len(a))
        BY <1>1, <1>2, <1>3 DEF Disjoint
    <2>2. CASE k <= Len(a)
        BY <1>1, <1>2, <1>3, <2>1, <2>2 DEF EachOnce
    <2>3. CASE ~ (k <= Len(a))
        <3>1. k - Len(a) = l - Len(a)
            BY <1>1, <1>2, <1>3, <2>1, <2>3 DEF EachOnce
        <3>2. QED
            BY <1>1, <3>1
    <2>4. QED
        BY <2>2, <2>3
<1>4. QED
    BY <1>1, <1>2, <1>3 DEF EachOnce, FromEither

(* A set in some order: each of its elements once. *)
LEMMA Ordered ==
    ASSUME NEW S, IsFiniteSet(S), NEW s \in InOrder(S)
    PROVE  s \in Seq(S) /\ EachOnce(s)
<1> DEFINE n == Cardinality(S)
<1>1. n \in Nat
    BY FS_CardinalityType
<1>2. s \in [1..n -> S] /\ \A x \in S : \E i \in 1..n : s[i] = x
    BY DEF InOrder
<1> HIDE DEF n
<1>3. s \in Surjection(1..n, S)
    BY <1>2 DEF Surjection
<1>4. IsFiniteSet(1..n) /\ Cardinality(1..n) = n
    BY <1>1, FS_Interval
<1>5. s \in Injection(1..n, S)
    BY <1>3, <1>4, FS_Surjection DEF n
<1>6. \A i, j \in 1..n : s[i] = s[j] => i = j
    BY <1>5 DEF Injection, IsInjective
<1>7. s \in Seq(S) /\ Len(s) = n
    BY <1>1, <1>2
<1>8. QED
    BY <1>6, <1>7 DEF EachOnce

-----------------------------------------------------------------------------
(* The order of the event loop and of write_lock *)

(* The tasks that the host runs at all. *)
Runners == Writers \cup callers

HoldingAt == {"writing", "deleting"}
QueuedAt == {"queued", "delete queued"}
AtLock == HoldingAt \cup QueuedAt

(* write_lock: who holds it, and who waits for it. *)
LockInv ==
    /\ lock \in Tasks \cup {Nobody}
    /\ queue \in Seq(Tasks)
    /\ EachOnce(queue)
    /\ \A i \in 1..Len(queue) : pc[queue[i]] \in QueuedAt /\ queue[i] # lock
    /\ \A t \in Tasks : pc[t] \in HoldingAt => lock = t
    /\ lock # Nobody => pc[lock] \in AtLock

(* Whoever is in the queue of write_lock runs when it inherits the lock or *)
(* is cancelled, and may be ready twice when both happen.                  *)
Fit(t) ==
    /\ pc[t] = "queued" => t \in cancelled \/ lock = t
    /\ pc[t] = "delete queued" => lock = t

Twofold(t) == pc[t] = "queued" /\ t \in cancelled /\ lock = t

(* The event loop: who is ready to run, at most once but for the above.    *)
LoopInv ==
    /\ callers \subseteq Clearers
    /\ \A c \in Clearers \ callers : pc[c] = "idle"
    /\ cancelled \subseteq Tasks
    /\ ready \in Seq(Runners)
    /\ \A i \in 1..Len(ready) : Fit(ready[i])
    /\ \A i, j \in 1..Len(ready) : i < j /\ ready[i] = ready[j] => Twofold(ready[i])
    /\ \A i, j, k \in 1..Len(ready) :
          i < j /\ j < k => ~ (ready[i] = ready[j] /\ ready[j] = ready[k])

(* The event's own queue: who is in it runs only to be cancelled.          *)
EventInv ==
    /\ gateQueue \in Seq(Writers)
    /\ EachOnce(gateQueue)
    /\ \A k \in 1..Len(gateQueue) : pc[gateQueue[k]] = "waiting"
    /\ \A i \in 1..Len(ready), k \in 1..Len(gateQueue) :
          ready[i] = gateQueue[k] => ready[i] \in cancelled

(* A writer that the gate has let through and that has not run since.      *)
Awake(w) == pc[w] = "waiting" /\ w \notin cancelled

(* With one clear only, the gate is open unless it is under way, and who   *)
(* was let through by its last opening runs before it can close the gate.  *)
SoleGate(c) ==
    /\ gate <=> pc[c] \in {"idle", "wiping"}
    /\ pc[c] \in {"delete queued", "deleting"} => inflight = 0

SoleOrder(c) ==
    \A i \in 1..Len(ready) : ready[i] \in Writers /\ Awake(ready[i]) =>
        gate /\ \A j \in 1..Len(ready) : ready[j] = c => i < j

OrderInv ==
    /\ LockInv
    /\ LoopInv
    /\ EventInv
    /\ \A c \in Clearers : callers = {c} => SoleGate(c) /\ SoleOrder(c)

LEMMA ReadyAreTasks ==
    ASSUME LoopInv
    PROVE  ready \in Seq(Tasks) /\ \A i \in 1..Len(ready) : ready[i] \in Tasks
<1>1. Runners \subseteq Tasks
    BY DEF LoopInv, Tasks, Runners
<1>2. QED
    BY <1>1 DEF LoopInv

-----------------------------------------------------------------------------
(* write_lock from step to step *)

(* A task moves where neither is about the lock. *)
LEMMA LockUntouched ==
    ASSUME IInv, LockInv, NEW t \in Tasks, NEW place, pc[t] \notin AtLock, place \notin AtLock,
           pc' = [pc EXCEPT ![t] = place], UNCHANGED <<lock, queue>>
    PROVE  LockInv' /\ lock # t
<1>1. \A i \in 1..Len(queue) : queue[i] \in Tasks /\ queue[i] # t
    BY DEF LockInv, AtLock
<1>2. QED
    BY <1>1, TasksAssumption DEF IInv, LockInv, AtLock, TasksAssumption, Tasks

(* Its heir takes it up. *)
LEMMA LockTakenUp ==
    ASSUME IInv, LockInv, NEW t \in Tasks, NEW place \in HoldingAt, lock = t,
           pc' = [pc EXCEPT ![t] = place], UNCHANGED <<lock, queue>>
    PROVE  LockInv'
<1>1. \A i \in 1..Len(queue) : queue[i] \in Tasks /\ queue[i] # t
    BY DEF LockInv, AtLock
<1>2. QED
    BY <1>1, TasksAssumption DEF IInv, LockInv, AtLock, TasksAssumption, Tasks

LEMMA LockAcquired ==
    ASSUME IInv, LockInv, NEW t \in Tasks, pc[t] \notin AtLock,
           NEW held \in HoldingAt, NEW waits \in QueuedAt, Acquire(t, held, waits)
    PROVE  /\ LockInv'
           /\ \E place \in AtLock : pc' = [pc EXCEPT ![t] = place]
           /\ \A u \in Tasks \ {t} : lock = u => lock' = u
<1>1. \A i \in 1..Len(queue) : queue[i] \in Tasks /\ queue[i] # t
    BY DEF LockInv, AtLock
<1>2. t # Nobody /\ lock # t
    BY TasksAssumption DEF TasksAssumption, LockInv, Tasks
<1>3. CASE lock = Nobody
    <2>1. lock' = t /\ pc' = [pc EXCEPT ![t] = held] /\ queue' = queue
        BY <1>3 DEF Acquire
    <2>2. \A u \in Tasks : pc[u] \notin HoldingAt
        BY <1>3, TasksAssumption DEF LockInv, TasksAssumption, Tasks
    <2>3. \A u \in Tasks : pc'[u] = IF u = t THEN held ELSE pc[u]
        BY <2>1 DEF IInv
    <2>4. LockInv'
        BY <1>1, <1>2, <2>1, <2>2, <2>3 DEF LockInv, AtLock
    <2>5. held \in AtLock
        BY DEF AtLock
    <2>6. \A u \in Tasks : lock # u
        BY <1>3, TasksAssumption DEF TasksAssumption, Tasks
    <2>7. QED
        BY <2>1, <2>4, <2>5, <2>6
<1>4. CASE lock # Nobody
    <2>1. lock' = lock /\ pc' = [pc EXCEPT ![t] = waits] /\ queue' = Append(queue, t)
        BY <1>4 DEF Acquire
    <2>2. /\ queue' \in Seq(Tasks) /\ Len(queue') = Len(queue) + 1 /\ Len(queue) \in Nat
          /\ \A i \in 1..Len(queue') : queue'[i] = IF i \in 1..Len(queue) THEN queue[i] ELSE t
        BY <2>1 DEF LockInv
    <2>3. EachOnce(queue')
        BY <1>1, <2>2 DEF LockInv, EachOnce
    <2>4. \A u \in Tasks : pc'[u] = IF u = t THEN waits ELSE pc[u]
        BY <2>1 DEF IInv
    <2>5. \A i \in 1..Len(queue') : pc'[queue'[i]] \in QueuedAt /\ queue'[i] # lock'
        BY <1>1, <1>2, <2>1, <2>2, <2>4 DEF LockInv
    <2>6. HoldingAt \cap QueuedAt = {}
        BY DEF HoldingAt, QueuedAt
    <2>7. LockInv'
        <3>1. \A u \in Tasks : pc'[u] \in HoldingAt => lock' = u
            BY <2>1, <2>4, <2>6 DEF LockInv
        <3>2. lock \in Tasks /\ lock # t /\ pc'[lock] \in AtLock
            BY <1>2, <1>4, <2>4 DEF LockInv
        <3>3. QED
            BY <2>1, <2>2, <2>3, <2>5, <3>1, <3>2 DEF LockInv
    <2>8. waits \in AtLock
        BY DEF AtLock
    <2>9. QED
        BY <2>1, <2>7, <2>8
<1>5. QED
    BY <1>3, <1>4

(* Who releases it hands it to the first in the queue, who becomes ready.  *)
LEMMA LockReleased ==
    ASSUME IInv, LockInv, LoopInv, NEW t \in Tasks, NEW place, place \notin AtLock, lock = t,
           Release, pc' = [pc EXCEPT ![t] = place]
    PROVE  /\ LockInv'
           /\ Heir \in Seq(Runners)
           /\ EachOnce(Heir)
           /\ \A k \in 1..Len(Heir) : /\ Heir[k] # t /\ Heir[k] = lock'
                                      /\ pc[Heir[k]] \in QueuedAt
<1>1. \A i \in 1..Len(queue) : queue[i] \in Tasks /\ queue[i] # t /\ pc[queue[i]] \in QueuedAt
    BY DEF LockInv, AtLock
<1>2. \A u \in Tasks \ {t} : pc[u] \notin HoldingAt
    BY DEF LockInv
<1>3. \A u \in Tasks : pc'[u] = IF u = t THEN place ELSE pc[u]
    BY DEF IInv
<1>4. CASE queue = <<>>
    <2>1. lock' = Nobody /\ queue' = queue /\ Heir = <<>>
        BY <1>4 DEF Release, Heir
    <2>2. QED
        BY <1>2, <1>3, <1>4, <2>1 DEF LockInv, AtLock, EachOnce
<1>5. CASE queue # <<>>
    <2>1. lock' = Head(queue) /\ queue' = Tail(queue) /\ Heir = <<Head(queue)>>
        BY <1>5 DEF Release, Heir
    <2> DEFINE h == Head(queue)
    <2>2. h = queue[1] /\ 1 \in 1..Len(queue) /\ Len(queue) \in Nat
        BY <1>5 DEF LockInv
    <2>3. h \in Tasks /\ h # t /\ pc[h] \in QueuedAt
        BY <1>1, <2>2
    <2>4. h \in Runners
        BY <2>3 DEF LoopInv, Tasks, QueuedAt, Runners
    <2>5. /\ queue' \in Seq(Tasks) /\ Len(queue') = Len(queue) - 1
          /\ \A i \in 1..Len(queue') : queue'[i] = queue[i + 1] /\ i + 1 \in 1..Len(queue)
        BY <1>5, <2>1 DEF LockInv
    <2> HIDE DEF h
    <2>6. EachOnce(queue') /\ \A i \in 1..Len(queue') : queue'[i] # h
        BY <2>2, <2>5 DEF LockInv, EachOnce
    <2>7. LockInv'
        BY <1>1, <1>2, <1>3, <2>1, <2>3, <2>5, <2>6 DEF LockInv, AtLock, h
    <2>8. Heir = <<h>> /\ lock' = h
        BY <2>1 DEF h
    <2>9. QED
        BY <2>3, <2>4, <2>7, <2>8 DEF EachOnce
<1>6. QED
    BY <1>4, <1>5

(* Who is cancelled in the queue leaves it. *)
LEMMA LockGivenUp ==
    ASSUME IInv, LockInv, NEW t \in Tasks, NEW place, place \notin AtLock, lock # t,
           pc[t] \in QueuedAt, UNCHANGED lock, queue' = RemoveFirst(queue, t),
           pc' = [pc EXCEPT ![t] = place]
    PROVE  LockInv'
<1>1. /\ queue' \in Seq(Tasks)
      /\ EachOnce(queue')
      /\ \A i \in 1..Len(queue') : queue'[i] # t /\ \E j \in 1..Len(queue) : queue'[i] = queue[j]
    BY Left DEF LockInv
<1>2. \A u \in Tasks : pc'[u] = IF u = t THEN place ELSE pc[u]
    BY DEF IInv
<1>3. ASSUME NEW i \in 1..Len(queue')
      PROVE  pc'[queue'[i]] \in QueuedAt /\ queue'[i] # lock'
    <2>1. PICK j \in 1..Len(queue) : queue'[i] = queue[j]
        BY <1>1
    <2>2. queue[j] \in Tasks /\ queue[j] # t /\ pc[queue[j]] \in QueuedAt /\ queue[j] # lock
        BY <1>1, <2>1 DEF LockInv
    <2>3. QED
        BY <1>2, <2>1, <2>2
<1>4. \A u \in Tasks : pc'[u] \in HoldingAt => lock' = u
    BY <1>2 DEF LockInv, AtLock
<1>5. lock' # Nobody => pc'[lock'] \in AtLock
    BY <1>2 DEF LockInv
<1>6. QED
    BY <1>1, <1>3, <1>4, <1>5 DEF LockInv

-----------------------------------------------------------------------------
(* The loop from step to step *)

(* What a turn of t puts behind the tasks that are ready: the heir of the  *)
(* lock, and tasks that were not ready and do not wait for the lock.       *)
Wakes(t, x) ==
    /\ x \in Seq(Runners)
    /\ EachOnce(x)
    /\ \A k \in 1..Len(x) :
          /\ x[k] # t
          /\ \/ x[k] = lock' /\ x[k] # lock /\ pc[x[k]] \in QueuedAt
             \/ ~InReady(x[k]) /\ pc[x[k]] \notin QueuedAt

(* The task t has its turn and moves to a place of its own. *)
Turn(t, place, x) ==
    /\ Runs(t, x)
    /\ Wakes(t, x)
    /\ pc' = [pc EXCEPT ![t] = place]
    /\ cancelled' \in {cancelled, cancelled \ {t}}
    /\ \A u \in Tasks \ {t} : lock = u => lock' = u
    /\ Twofold(t) => place \notin QueuedAt
    /\ UNCHANGED callers

(* Where the ready tasks are after a turn. *)
LEMMA AfterTurn ==
    ASSUME IInv, LoopInv, NEW t \in Tasks, NEW place, NEW x, Turn(t, place, x)
    PROVE  /\ t \in Runners
           /\ ready' \in Seq(Runners)
           /\ ready[1] = t
           /\ Becomes(ready, x, ready')
           /\ \A u \in Tasks : pc'[u] = IF u = t THEN place ELSE pc[u]
           /\ \A u \in Tasks \ {t} : u \in cancelled' <=> u \in cancelled
<1>1. ready \in Seq(Runners) /\ ready # <<>> /\ Head(ready) = t
    BY DEF LoopInv, Turn, Runs
<1>2. x \in Seq(Runners) /\ ready' = Tail(ready) \o x
    BY DEF Turn, Wakes, Runs
<1>3. ready' \in Seq(Runners) /\ ready[1] = Head(ready) /\ Becomes(ready, x, ready')
    BY <1>1, <1>2, HeadLeaves
<1>4. t \in Runners
    BY <1>1
<1>5. \A u \in Tasks : pc'[u] = IF u = t THEN place ELSE pc[u]
    BY DEF Turn, IInv
<1>6. \A u \in Tasks \ {t} : u \in cancelled' <=> u \in cancelled
    BY DEF Turn
<1>7. QED
    BY <1>1, <1>3, <1>4, <1>5, <1>6

(* A task that had its turn is ready once more only if it was twofold.     *)
LEMMA TurnOver ==
    ASSUME IInv, LoopInv, NEW t \in Tasks, NEW place, NEW x, Turn(t, place, x),
           ~Twofold(t), NEW i \in 1..Len(ready')
    PROVE  ready'[i] # t
<1>1. ready[1] = t /\ Becomes(ready, x, ready')
    BY AfterTurn
<1>2. CASE i \in 1..(Len(ready) - 1)
    <2>1. /\ 1 \in 1..Len(ready) /\ i + 1 \in 1..Len(ready) /\ 1 < i + 1
          /\ ready[1] = t /\ ready'[i] = ready[i + 1]
        BY <1>1, <1>2 DEF Becomes
    <2>2. ready[i + 1] # t
        BY <2>1 DEF LoopInv
    <2>3. QED
        BY <2>1, <2>2
<1>3. CASE i \notin 1..(Len(ready) - 1)
    <2>1. PICK k \in 1..Len(x) : i = (Len(ready) - 1) + k
        BY <1>1, <1>3 DEF Becomes
    <2>2. ready'[i] = x[k]
        BY <1>1, <2>1 DEF Becomes
    <2>3. QED
        BY <2>2 DEF Turn, Wakes
<1>4. QED
    BY <1>2, <1>3

LEMMA LoopTurns ==
    ASSUME IInv, LoopInv, NEW t \in Tasks, NEW place, NEW x, Turn(t, place, x)
    PROVE  LoopInv'
<1> DEFINE n == Len(ready) - 1
           FitThen(u) == /\ pc'[u] = "queued" => u \in cancelled' \/ lock' = u
                         /\ pc'[u] = "delete queued" => lock' = u
           TwofoldThen(u) == pc'[u] = "queued" /\ u \in cancelled' /\ lock' = u
<1>1. /\ ready' \in Seq(Runners)
      /\ t \in Runners
      /\ ready[1] = t
    BY AfterTurn
<1>2. /\ n \in Nat /\ Len(ready) = n + 1 /\ 1 \in 1..Len(ready) /\ Len(x) \in Nat
      /\ Len(ready') = n + Len(x)
      /\ \A i \in 1..n : i + 1 \in 1..Len(ready) /\ ready'[i] = ready[i + 1]
      /\ \A k \in 1..Len(x) : ready'[n + k] = x[k]
      /\ \A i \in 1..Len(ready') : i \in 1..n \/ \E k \in 1..Len(x) : i = n + k
    BY AfterTurn DEF Becomes
<1> HIDE DEF n
<1>3. \A u \in Tasks : pc'[u] = IF u = t THEN place ELSE pc[u]
    BY AfterTurn
<1>4. \A u \in Tasks \ {t} : u \in cancelled' <=> u \in cancelled
    BY AfterTurn
<1>5. \A i \in 1..Len(ready) : ready[i] \in Tasks
    BY ReadyAreTasks
<1>6. \A i \in 1..n : /\ ready[i + 1] \in Tasks
                      /\ Fit(ready[i + 1])
                      /\ ready[i + 1] = t => Twofold(t)
    BY <1>1, <1>2, <1>5 DEF LoopInv
<1>7. \A i, j \in 1..n : i < j => ~ (ready[i + 1] = t /\ ready[j + 1] = t)
    <2>1. SUFFICES ASSUME NEW i \in 1..n, NEW j \in 1..n, i < j PROVE ~ (ready[i + 1] = t /\ ready[j + 1] = t)
        OBVIOUS
    <2>2. 1 < i + 1 /\ i + 1 < j + 1 /\ i + 1 \in 1..Len(ready) /\ j + 1 \in 1..Len(ready)
        BY <1>2, <2>1
    <2>3. QED
        BY <1>1, <1>2, <2>2 DEF LoopInv
<1>8. ASSUME NEW u \in Tasks \ {t}
      PROVE  (Fit(u) => FitThen(u)) /\ (Twofold(u) => TwofoldThen(u))
    BY <1>3, <1>4 DEF Turn, Fit, Twofold
<1>9. Twofold(t) => FitThen(t)
    BY <1>1, <1>3 DEF Turn, Fit, QueuedAt
<1>10. ASSUME NEW k \in 1..Len(x)
       PROVE  /\ x[k] \in Tasks \ {t}
              /\ FitThen(x[k])
              /\ \A i \in 1..n : ready[i + 1] = x[k] => TwofoldThen(x[k]) /\ lock # x[k]
    <2>1. x[k] \in Runners /\ x[k] # t
        BY DEF Turn, Wakes
    <2>2. x[k] \in Tasks
        BY <2>1 DEF LoopInv, Tasks, Runners
    <2>3. CASE x[k] = lock' /\ x[k] # lock /\ pc[x[k]] \in QueuedAt
        <3>1. FitThen(x[k])
            BY <2>3 DEF Fit
        <3>2. ASSUME NEW i \in 1..n, ready[i + 1] = x[k] PROVE TwofoldThen(x[k])
            <4>1. Fit(x[k])
                BY <1>6, <3>2
            <4>2. pc[x[k]] = "queued" /\ x[k] \in cancelled
                BY <2>3, <4>1 DEF Fit, QueuedAt
            <4>3. QED
                BY <1>3, <1>4, <2>1, <2>2, <2>3, <4>2 DEF Twofold
        <3>3. QED
            BY <2>1, <2>2, <2>3, <3>1, <3>2
    <2>4. CASE ~InReady(x[k]) /\ pc[x[k]] \notin QueuedAt
        <3>1. FitThen(x[k])
            BY <1>3, <2>1, <2>2, <2>4 DEF Fit, QueuedAt
        <3>2. \A i \in 1..n : ready[i + 1] # x[k]
            BY <1>2, <2>4 DEF InReady
        <3>3. QED
            BY <2>1, <2>2, <3>1, <3>2
    <2>5. QED
        BY <2>3, <2>4 DEF Turn, Wakes
<1>11. ASSUME NEW i \in 1..Len(ready')
       PROVE  FitThen(ready'[i])
    <2>1. CASE i \in 1..n
        BY <1>2, <1>6, <1>8, <1>9, <2>1
    <2>2. CASE i \notin 1..n
        <3>1. PICK k \in 1..Len(x) : i = n + k
            BY <1>2, <2>2
        <3>2. QED
            BY <1>2, <1>10, <3>1
    <2>3. QED
        BY <2>1, <2>2
<1>12. ASSUME NEW i \in 1..Len(ready'), NEW j \in 1..Len(ready'), i < j, ready'[i] = ready'[j]
       PROVE  /\ i \in 1..n
              /\ TwofoldThen(ready'[i])
              /\ j \in 1..n => i + 1 \in 1..Len(ready) /\ j + 1 \in 1..Len(ready) /\ Twofold(ready'[i])
              /\ j \notin 1..n => lock # ready'[i]
    <2>1. i \in 1..n
        <3>1. SUFFICES ASSUME i \notin 1..n PROVE FALSE
            OBVIOUS
        <3>2. j \notin 1..n
            BY <1>2, <1>12, <3>1
        <3>3. PICK k \in 1..Len(x) : i = n + k
            BY <1>2, <3>1
        <3>4. PICK l \in 1..Len(x) : j = n + l
            BY <1>2, <3>2
        <3>5. x[k] = x[l] /\ k # l
            BY <1>2, <1>12, <3>3, <3>4
        <3>6. QED
            BY <3>5 DEF Turn, Wakes, EachOnce
    <2>2. CASE j \in 1..n
        <3>1. i + 1 \in 1..Len(ready) /\ j + 1 \in 1..Len(ready) /\ i + 1 < j + 1
            BY <1>2, <1>12, <2>1, <2>2
        <3>2. ready'[i] = ready[i + 1] /\ ready'[j] = ready[j + 1]
            BY <1>2, <2>1, <2>2
        <3>3. Twofold(ready[i + 1])
            BY <1>12, <3>1, <3>2 DEF LoopInv
        <3>4. ready[i + 1] \in Tasks \ {t}
            BY <1>5, <1>7, <1>12, <2>1, <2>2, <3>1, <3>2
        <3>5. Twofold(ready'[i]) /\ TwofoldThen(ready'[i])
            BY <1>8, <3>2, <3>3, <3>4
        <3>6. QED
            BY <2>1, <2>2, <3>1, <3>5
    <2>3. CASE j \notin 1..n
        <3>1. PICK l \in 1..Len(x) : j = n + l
            BY <1>2, <2>3
        <3>2. ready[i + 1] = x[l] /\ ready'[i] = x[l]
            BY <1>2, <1>12, <2>1, <3>1
        <3>3. QED
            BY <1>10, <2>1, <2>3, <3>2
    <2>4. QED
        BY <2>2, <2>3
<1>13. ASSUME NEW i \in 1..Len(ready'), NEW j \in 1..Len(ready'), NEW k \in 1..Len(ready'),
              i < j, j < k, ready'[i] = ready'[j], ready'[j] = ready'[k]
       PROVE  FALSE
    <2>1. i \in 1..n /\ j \in 1..n
        BY <1>12, <1>13
    <2>2. Twofold(ready'[i]) /\ i + 1 \in 1..Len(ready) /\ j + 1 \in 1..Len(ready)
        BY <1>12, <1>13, <2>1
    <2>3. lock = ready'[j]
        BY <1>13, <2>2 DEF Twofold
    <2>4. k \in 1..n
        BY <1>12, <1>13, <2>3
    <2>5. k + 1 \in 1..Len(ready) /\ i + 1 < j + 1 /\ j + 1 < k + 1
        BY <1>2, <1>13, <2>1, <2>4
    <2>6. ready[i + 1] = ready[j + 1] /\ ready[j + 1] = ready[k + 1]
        BY <1>2, <1>13, <2>1, <2>4
    <2>7. QED
        BY <2>2, <2>5, <2>6 DEF LoopInv
<1>14. \A c \in Clearers \ callers : pc'[c] = "idle"
    BY <1>1, <1>3, TasksAssumption DEF LoopInv, Tasks, TasksAssumption, Runners
<1>15. cancelled' \subseteq Tasks /\ callers' = callers
    BY DEF Turn, LoopInv
<1>16. QED
    BY <1>1, <1>11, <1>12, <1>13, <1>14, <1>15 DEF LoopInv, Fit, Twofold, Runners

(* A turn that wakes nobody, and one that wakes the tasks of a set. *)
LEMMA WakesNobody == \A t \in Tasks : Wakes(t, <<>>)
    BY DEF Wakes, EachOnce

Fresh(S) == \A u \in S : ~InReady(u) /\ pc[u] \notin QueuedAt

LEMMA WakesBehind ==
    ASSUME LoopInv, NEW t \in Tasks, NEW first, Wakes(t, first),
           \A k \in 1..Len(first) : pc[first[k]] \in QueuedAt,
           NEW S \in SUBSET Runners, t \notin S,
           Fresh(S),
           NEW woken \in InOrder(S), NEW x, x = first \o woken
    PROVE  /\ Wakes(t, x)
           /\ \A k \in 1..Len(x) : pc[x[k]] \in QueuedAt \/ x[k] \in S
<1>1. IsFiniteSet(S)
    BY TasksAssumption, FS_Subset DEF TasksAssumption, LoopInv, Runners
<1>2. woken \in Seq(S) /\ EachOnce(woken)
    BY <1>1, Ordered
<1>3. woken \in Seq(Runners) /\ \A k \in 1..Len(woken) : woken[k] \in S
    BY <1>2
<1>4. first \in Seq(Runners) /\ EachOnce(first)
    BY DEF Wakes
<1>5. Disjoint(first, woken)
    BY <1>3 DEF Fresh, Disjoint
<1>6. x \in Seq(Runners) /\ EachOnce(x) /\ FromEither(x, first, woken)
    BY <1>2, <1>3, <1>4, <1>5, OneBehindOther
<1>7. ASSUME NEW k \in 1..Len(x)
      PROVE  /\ x[k] # t
             /\ \/ x[k] = lock' /\ x[k] # lock /\ pc[x[k]] \in QueuedAt
                \/ ~InReady(x[k]) /\ pc[x[k]] \notin QueuedAt
             /\ pc[x[k]] \in QueuedAt \/ x[k] \in S
    <2>1. CASE \E i \in 1..Len(first) : x[k] = first[i]
        BY <2>1 DEF Wakes
    <2>2. CASE \E j \in 1..Len(woken) : x[k] = woken[j]
        BY <1>3, <2>2 DEF Fresh
    <2>3. QED
        BY <1>6, <2>1, <2>2 DEF FromEither
<1>8. QED
    BY <1>6, <1>7 DEF Wakes

(* Becoming ready without a turn. *)
Joins(t) ==
    IF InReady(t)
    THEN ready' = ready
    ELSE /\ ready' = Append(ready, t)
         /\ pc[t] = "queued" => t \in cancelled'
         /\ pc[t] # "delete queued"

LEMMA LoopGrows ==
    ASSUME LoopInv, NEW t \in Runners, UNCHANGED <<pc, lock, callers>>,
           cancelled' \in {cancelled, cancelled \cup {t}},
           Joins(t)
    PROVE  /\ LoopInv'
           /\ \A i \in 1..Len(ready') :
                 \/ i \in 1..Len(ready) /\ ready'[i] = ready[i]
                 \/ i \notin 1..Len(ready) /\ i = Len(ready) + 1 /\ ready'[i] = t /\ ~InReady(t)
<1>1. ready \in Seq(Runners) /\ Len(ready) \in Nat
    <2>1. ready \in Seq(Runners)
        BY DEF LoopInv
    <2>2. QED
        BY <2>1
<1>2. /\ ready' \in Seq(Runners)
      /\ \A i \in 1..Len(ready') :
            \/ i \in 1..Len(ready) /\ ready'[i] = ready[i]
            \/ i \notin 1..Len(ready) /\ i = Len(ready) + 1 /\ ready'[i] = t /\ ~InReady(t)
    <2>1. CASE InReady(t)
        BY <1>1, <2>1 DEF Joins
    <2>2. CASE ~InReady(t)
        <3>1. ready' = Append(ready, t)
            BY <2>2 DEF Joins
        <3>2. /\ ready' \in Seq(Runners)
              /\ Len(ready') = Len(ready) + 1
              /\ \A i \in 1..Len(ready) : ready'[i] = ready[i]
              /\ ready'[Len(ready) + 1] = t
            BY <1>1, <3>1
        <3>3. QED
            BY <1>1, <2>2, <3>2
    <2>3. QED
        BY <2>1, <2>2
<1>3. t \in Tasks
    BY DEF LoopInv, Tasks, Runners
<1>4. \A u : (Fit(u) => Fit(u)') /\ (Twofold(u) => Twofold(u)')
    BY DEF Fit, Twofold
<1>5. ASSUME NEW i \in 1..Len(ready'), NEW u, u = ready'[i] PROVE Fit(u)'
    BY <1>2, <1>4, <1>5 DEF LoopInv, Fit, Joins
<1>6. \A i \in 1..Len(ready) : ready[i] = t => InReady(t)
    BY DEF InReady
<1>7. ASSUME NEW i \in 1..Len(ready'), NEW j \in 1..Len(ready'), i < j, ready'[i] = ready'[j]
      PROVE  i \in 1..Len(ready) /\ j \in 1..Len(ready)
    BY <1>1, <1>2, <1>6, <1>7
<1>8. \A i, j \in 1..Len(ready') : i < j /\ ready'[i] = ready'[j] =>
          pc'[ready'[i]] = "queued" /\ ready'[i] \in cancelled' /\ lock' = ready'[i]
    <2>1. SUFFICES ASSUME NEW i \in 1..Len(ready'), NEW j \in 1..Len(ready'), i < j, ready'[i] = ready'[j]
                   PROVE  pc'[ready'[i]] = "queued" /\ ready'[i] \in cancelled' /\ lock' = ready'[i]
        OBVIOUS
    <2>2. i \in 1..Len(ready) /\ j \in 1..Len(ready) /\ ready'[i] = ready[i] /\ ready'[j] = ready[j]
        BY <1>2, <1>7, <2>1
    <2>3. Twofold(ready[i])
        BY <2>1, <2>2 DEF LoopInv
    <2>4. QED
        BY <2>2, <2>3 DEF Twofold
<1>9. \A i, j, k \in 1..Len(ready') : i < j /\ j < k => ~ (ready'[i] = ready'[j] /\ ready'[j] = ready'[k])
    <2>1. SUFFICES ASSUME NEW i \in 1..Len(ready'), NEW j \in 1..Len(ready'), NEW k \in 1..Len(ready'),
                          i < j, j < k, ready'[i] = ready'[j], ready'[j] = ready'[k]
                   PROVE  FALSE
        OBVIOUS
    <2>2. i \in 1..Len(ready) /\ j \in 1..Len(ready) /\ k \in 1..Len(ready)
        BY <1>7, <2>1
    <2>3. QED
        BY <1>2, <2>1, <2>2 DEF LoopInv
<1>10. QED
    BY <1>2, <1>3, <1>5, <1>8, <1>9 DEF LoopInv, Fit, Twofold, Runners

-----------------------------------------------------------------------------
(* The event's queue from step to step *)

LEMMA EventTurns ==
    ASSUME IInv, LoopInv, EventInv, NEW t \in Tasks, NEW place, NEW x, Turn(t, place, x),
           \A k \in 1..Len(x) : pc[x[k]] # "waiting",
           gateQueue' \in Seq(Writers), EachOnce(gateQueue'),
           \A k \in 1..Len(gateQueue') :
              \/ gateQueue'[k] = t /\ place = "waiting" /\ ~Twofold(t)
              \/ gateQueue'[k] # t /\ \E j \in 1..Len(gateQueue) : gateQueue'[k] = gateQueue[j]
    PROVE  EventInv'
<1>1. Becomes(ready, x, ready')
    BY AfterTurn
<1>2. \A u \in Tasks : pc'[u] = IF u = t THEN place ELSE pc[u]
    BY AfterTurn
<1>3. \A u \in Tasks \ {t} : u \in cancelled' <=> u \in cancelled
    BY AfterTurn
<1>4. ASSUME NEW k \in 1..Len(gateQueue')
      PROVE  /\ pc'[gateQueue'[k]] = "waiting"
             /\ \A i \in 1..Len(ready') : ready'[i] = gateQueue'[k] => ready'[i] \in cancelled'
    <2>1. CASE gateQueue'[k] = t /\ place = "waiting" /\ ~Twofold(t)
        BY <1>2, <2>1, TurnOver
    <2>2. CASE gateQueue'[k] # t /\ \E j \in 1..Len(gateQueue) : gateQueue'[k] = gateQueue[j]
        <3>1. PICK j \in 1..Len(gateQueue) : gateQueue'[k] = gateQueue[j]
            BY <2>2
        <3> DEFINE u == gateQueue[j]
        <3>2. u \in Tasks /\ u # t /\ pc[u] = "waiting"
            BY <2>2, <3>1 DEF EventInv, Tasks
        <3>3. pc'[u] = "waiting"
            BY <1>2, <3>2
        <3>4. ASSUME NEW i \in 1..Len(ready'), ready'[i] = u PROVE u \in cancelled
            <4>1. i \in 1..(Len(ready) - 1)
                <5>1. SUFFICES ASSUME i \notin 1..(Len(ready) - 1) PROVE FALSE
                    OBVIOUS
                <5>2. PICK l \in 1..Len(x) : i = (Len(ready) - 1) + l
                    BY <1>1, <5>1 DEF Becomes
                <5>3. ready'[i] = x[l]
                    BY <1>1, <5>2 DEF Becomes
                <5>4. QED
                    BY <3>2, <3>4, <5>3
            <4>2. i + 1 \in 1..Len(ready) /\ ready[i + 1] = gateQueue[j]
                BY <1>1, <3>4, <4>1 DEF Becomes
            <4>3. QED
                BY <4>2 DEF EventInv
        <3>5. QED
            BY <1>3, <3>1, <3>2, <3>3, <3>4
    <2>3. QED
        BY <2>1, <2>2
<1>5. QED
    BY <1>4 DEF EventInv

(* A turn that leaves it alone. *)
LEMMA EventUntouched ==
    ASSUME IInv, LoopInv, EventInv, NEW t \in Tasks, NEW place, NEW x, Turn(t, place, x),
           \A k \in 1..Len(x) : pc[x[k]] # "waiting",
           pc[t] = "waiting" => t \notin cancelled, UNCHANGED gateQueue
    PROVE  EventInv'
<1>1. ready[1] = t /\ 1 \in 1..Len(ready)
    BY AfterTurn DEF Becomes
<1>2. \A k \in 1..Len(gateQueue) : gateQueue[k] # t
    BY <1>1 DEF EventInv
<1>3. gateQueue' \in Seq(Writers) /\ EachOnce(gateQueue')
    BY DEF EventInv
<1>4. QED
    BY <1>2, <1>3, EventTurns

-----------------------------------------------------------------------------
(* One clear only, from step to step *)

(* A turn that leaves the gate as it is: nobody is let through, and who    *)
(* was stays before the clear.                                             *)
LEMMA SoleTurns ==
    ASSUME IInv, LoopInv, NEW c \in Clearers, SoleOrder(c),
           NEW t \in Tasks, NEW place, NEW x, Turn(t, place, x), UNCHANGED gate,
           \A k \in 1..Len(x) : pc[x[k]] # "waiting",
           place = "waiting" => ~Twofold(t)
    PROVE  SoleOrder(c)'
<1>1. Becomes(ready, x, ready') /\ ready' \in Seq(Runners)
    BY AfterTurn
<1>2. \A u \in Tasks : pc'[u] = IF u = t THEN place ELSE pc[u]
    BY AfterTurn
<1>3. \A u \in Tasks \ {t} : u \in cancelled' <=> u \in cancelled
    BY AfterTurn
<1>4. ASSUME NEW i \in 1..Len(ready'), NEW w \in Writers, ready'[i] = w,
             pc'[w] = "waiting", w \notin cancelled'
      PROVE  gate' /\ \A j \in 1..Len(ready') : ready'[j] = c => i < j
    <2>1. w # t
        BY <1>2, <1>4, TurnOver
    <2>2. w \in Tasks
        BY DEF Tasks
    <2>3. Awake(w)
        BY <1>2, <1>3, <1>4, <2>1, <2>2 DEF Awake
    <2>4. i \in 1..(Len(ready) - 1)
        <3>1. SUFFICES ASSUME i \notin 1..(Len(ready) - 1) PROVE FALSE
            OBVIOUS
        <3>2. PICK k \in 1..Len(x) : i = (Len(ready) - 1) + k
            BY <1>1, <3>1 DEF Becomes
        <3>3. ready'[i] = x[k]
            BY <1>1, <3>2 DEF Becomes
        <3>4. QED
            BY <1>4, <2>3, <3>3 DEF Awake
    <2>5. i + 1 \in 1..Len(ready) /\ ready[i + 1] = w
        BY <1>1, <1>4, <2>4 DEF Becomes
    <2>6. gate /\ \A j \in 1..Len(ready) : ready[j] = c => i + 1 < j
        BY <2>3, <2>5 DEF SoleOrder
    <2>7. ASSUME NEW j \in 1..Len(ready'), ready'[j] = c PROVE i < j
        <3>1. CASE j \in 1..(Len(ready) - 1)
            <4>1. j + 1 \in 1..Len(ready) /\ ready[j + 1] = c
                BY <1>1, <2>7, <3>1 DEF Becomes
            <4>2. i + 1 < j + 1
                BY <2>6, <4>1
            <4>3. i \in Nat /\ j \in Nat
                BY <1>1, <2>4, <3>1 DEF Becomes
            <4>4. QED
                BY <4>2, <4>3
        <3>2. CASE j \notin 1..(Len(ready) - 1)
            <4>1. PICK k \in 1..Len(x) : j = (Len(ready) - 1) + k
                BY <1>1, <2>7, <3>2 DEF Becomes
            <4>2. Len(ready) \in Nat \ {0} /\ Len(x) \in Nat
                BY <1>1 DEF Becomes
            <4>3. QED
                BY <2>4, <4>1, <4>2
        <3>3. QED
            BY <3>1, <3>2
    <2>8. QED
        BY <2>6, <2>7
<1>5. QED
    BY <1>4 DEF SoleOrder, Awake

(* The turn in which the clear opens the gate: it is not ready afterwards. *)
LEMMA SoleOpens ==
    ASSUME IInv, LoopInv, NEW c \in Clearers, c \in Tasks,
           NEW place \in {"idle", "wiping"}, NEW x, Turn(c, place, x), gate' = TRUE, ~Twofold(c)
    PROVE  SoleGate(c)' /\ SoleOrder(c)'
<1>1. \A j \in 1..Len(ready') : ready'[j] # c
    BY TurnOver
<1>2. pc'[c] = place
    BY AfterTurn
<1>3. QED
    BY <1>1, <1>2 DEF SoleGate, SoleOrder

(* The turn in which it closes the gate: who was let through has run.      *)
LEMMA SoleCloses ==
    ASSUME IInv, LoopInv, NEW c \in Clearers, c \in Tasks, SoleOrder(c),
           NEW place \in ClosedAt, Turn(c, place, <<>>), gate' = FALSE,
           place # "draining" => inflight' = 0
    PROVE  SoleGate(c)' /\ SoleOrder(c)'
<1>1. Becomes(ready, <<>>, ready') /\ ready[1] = c
    BY AfterTurn
<1>2. \A u \in Tasks : pc'[u] = IF u = c THEN place ELSE pc[u]
    BY AfterTurn
<1>3. \A u \in Tasks \ {c} : u \in cancelled' <=> u \in cancelled
    BY AfterTurn
<1>4. ASSUME NEW i \in 1..Len(ready'), NEW w \in Writers, ready'[i] = w,
             pc'[w] = "waiting", w \notin cancelled'
      PROVE  FALSE
    <2>1. w # c /\ w \in Tasks
        BY Apart
    <2>2. Awake(w)
        BY <1>2, <1>3, <1>4, <2>1 DEF Awake
    <2>3. 1 \in 1..Len(ready) /\ i + 1 \in 1..Len(ready) /\ ready[i + 1] = w
        BY <1>1, <1>4 DEF Becomes
    <2>4. i + 1 < 1
        BY <1>1, <2>2, <2>3 DEF SoleOrder
    <2>5. QED
        BY <2>4
<1>5. QED
    BY <1>2, <1>4 DEF SoleGate, SoleOrder, Awake, ClosedAt

(* Becoming ready without a turn. *)
LEMMA SoleGrows ==
    ASSUME LoopInv, NEW c \in Clearers, SoleOrder(c), NEW t \in Runners,
           UNCHANGED <<pc, lock, callers, gate>>,
           cancelled' \in {cancelled, cancelled \cup {t}}, Joins(t),
           pc[t] = "waiting" => t \in cancelled'
    PROVE  SoleOrder(c)'
<1>1. \A i \in 1..Len(ready') :
         \/ i \in 1..Len(ready) /\ ready'[i] = ready[i]
         \/ i \notin 1..Len(ready) /\ i = Len(ready) + 1 /\ ready'[i] = t /\ ~InReady(t)
    BY LoopGrows
<1>2. ASSUME NEW i \in 1..Len(ready'), NEW w \in Writers, ready'[i] = w,
             pc'[w] = "waiting", w \notin cancelled'
      PROVE  gate' /\ \A j \in 1..Len(ready') : ready'[j] = c => i < j
    <2>1. Awake(w) /\ w # t
        BY <1>2 DEF Awake
    <2>2. i \in 1..Len(ready) /\ ready[i] = w
        BY <1>1, <1>2, <2>1
    <2>3. gate /\ \A j \in 1..Len(ready) : ready[j] = c => i < j
        BY <2>1, <2>2 DEF SoleOrder
    <2>4. QED
        BY <1>1, <2>2, <2>3
<1>3. QED
    BY <1>2 DEF SoleOrder, Awake

-----------------------------------------------------------------------------
(* The order is kept: writers *)

(* A writer has its turn: what is left to show of it. *)
LEMMA WriterTurns ==
    ASSUME IInv, OrderInv, NEW w \in Writers, NEW place, NEW x, Turn(w, place, x),
           UNCHANGED gate, \A k \in 1..Len(x) : pc[x[k]] # "waiting",
           place = "waiting" => ~Twofold(w),
           UNCHANGED inflight \/ inflight # 0 \/ gate \/ Awake(w),
           LockInv', EventInv'
    PROVE  OrderInv'
<1>1. w \in Tasks /\ LoopInv
    BY DEF Tasks, OrderInv
<1>2. LoopInv'
    BY <1>1, LoopTurns
<1>3. ASSUME NEW c \in Clearers, callers = {c}
      PROVE  SoleGate(c)' /\ SoleOrder(c)'
    <2>1. SoleGate(c) /\ SoleOrder(c)
        BY <1>3 DEF OrderInv
    <2>2. pc'[c] = pc[c]
        BY <1>1, Apart, AfterTurn
    <2>3. Awake(w) => gate
        <3>1. ready[1] = w /\ 1 \in 1..Len(ready)
            BY <1>1, AfterTurn DEF Becomes
        <3>2. QED
            BY <2>1, <3>1 DEF SoleOrder
    <2>4. SoleGate(c)'
        BY <2>1, <2>2, <2>3 DEF SoleGate
    <2>5. SoleOrder(c)'
        BY <1>1, <2>1, SoleTurns
    <2>6. QED
        BY <2>4, <2>5
<1>4. callers' = callers
    BY DEF Turn
<1>5. QED
    BY <1>2, <1>3, <1>4 DEF OrderInv

(* It waits for nothing, or for write_lock. *)
LEMMA WriterGoesOn ==
    ASSUME IInv, OrderInv, NEW w \in Writers, Runs(w, <<>>), UNCHANGED <<gate, gateQueue, cancelled, callers>>,
           UNCHANGED inflight \/ gate \/ Awake(w),
           pc[w] \notin AtLock, pc[w] = "waiting" => w \notin cancelled,
           \/ pc' = [pc EXCEPT ![w] = "working"] /\ UNCHANGED <<lock, queue>>
           \/ Acquire(w, "writing", "queued")
    PROVE  OrderInv'
<1>1. w \in Tasks /\ LockInv /\ LoopInv /\ EventInv
    BY DEF Tasks, OrderInv
<1>2. PICK place : /\ LockInv'
                   /\ place # "waiting"
                   /\ pc' = [pc EXCEPT ![w] = place]
                   /\ \A u \in Tasks \ {w} : lock = u => lock' = u
    <2>1. CASE pc' = [pc EXCEPT ![w] = "working"] /\ UNCHANGED <<lock, queue>>
        <3>1. "working" \notin AtLock
            BY DEF AtLock, HoldingAt, QueuedAt
        <3>2. QED
            BY <1>1, <2>1, <3>1, LockUntouched
    <2>2. CASE Acquire(w, "writing", "queued")
        <3>1. "writing" \in HoldingAt /\ "queued" \in QueuedAt /\ "waiting" \notin AtLock
            BY DEF AtLock, HoldingAt, QueuedAt
        <3>2. QED
            BY <1>1, <2>2, <3>1, LockAcquired
    <2>3. QED
        BY <2>1, <2>2
<1>3. ~Twofold(w)
    BY DEF Twofold, AtLock, QueuedAt
<1>4. Turn(w, place, <<>>)
    BY <1>1, <1>2, <1>3, WakesNobody DEF Turn
<1>5. EventInv'
    BY <1>1, <1>4, EventUntouched
<1>6. QED
    BY <1>2, <1>3, <1>4, <1>5, WriterTurns

(* It ends: the first in the queue of the lock, if any, and the clears that *)
(* wait for writers become ready.                                          *)
LEMMA WriterLeaves ==
    ASSUME IInv, OrderInv, NEW w \in Writers, pc[w] \in CountedAt, NEW first, EndWrite(w, first),
           Wakes(w, first), \A k \in 1..Len(first) : pc[first[k]] \in QueuedAt,
           \A u \in Tasks \ {w} : lock = u => lock' = u,
           cancelled' \in {cancelled, cancelled \ {w}}, UNCHANGED callers, LockInv'
    PROVE  OrderInv'
<1>1. w \in Tasks /\ LoopInv /\ EventInv
    BY DEF Tasks, OrderInv
<1>2. PICK woken \in InOrder(Drainers) : Runs(w, first \o woken)
    BY DEF EndWrite
<1>3. PICK S : S = Drainers
    OBVIOUS
<1>4. S \subseteq Runners /\ w \notin S /\ Fresh(S) /\ \A u \in S : pc[u] = "draining"
    BY <1>1, <1>3, Apart DEF Drainers, Runners, Fresh, LoopInv, QueuedAt
<1>5. PICK x : x = first \o woken
    OBVIOUS
<1>6. Wakes(w, x) /\ \A k \in 1..Len(x) : pc[x[k]] \in QueuedAt \/ x[k] \in S
    BY <1>1, <1>2, <1>3, <1>4, <1>5, WakesBehind
<1>7. \A k \in 1..Len(x) : pc[x[k]] # "waiting"
    BY <1>4, <1>6 DEF QueuedAt
<1>8. Turn(w, "idle", x)
    BY <1>2, <1>5, <1>6 DEF Turn, EndWrite, QueuedAt
<1>9. UNCHANGED <<gate, gateQueue>>
    BY DEF EndWrite
<1>10. EventInv'
    BY <1>1, <1>7, <1>8, <1>9, EventUntouched DEF CountedAt
<1>11. inflight # 0
    <2>1. w \in Counted
        BY DEF Counted, CountedAt
    <2>2. QED
        BY <2>1, CountedFinite, FS_EmptySet DEF IInv, InflightExact
<1>12. QED
    BY <1>7, <1>8, <1>9, <1>10, <1>11, WriterTurns

LEMMA WriterOrder ==
    ASSUME IInv, OrderInv, NEW w \in Writers, WriterRuns(w), UNCHANGED callers
    PROVE  OrderInv'
<1>1. w \in Tasks /\ LockInv /\ LoopInv /\ EventInv
    BY DEF Tasks, OrderInv
<1>2. \A u \in Tasks \ {w} : lock = w => lock # u
    OBVIOUS
<1>3. "idle" \notin AtLock /\ "waiting" \notin AtLock /\ "working" \notin AtLock
    BY DEF AtLock, HoldingAt, QueuedAt
<1>4. CASE Call(w) \/ PassGate(w) \/ LockToWrite(w)
    BY <1>3, <1>4, WriterGoesOn DEF Call, PassGate, LockToWrite, Awake
<1>5. CASE CallAtClosedGate(w)
    <2>1. ~Twofold(w)
        BY <1>5 DEF CallAtClosedGate, Twofold
    <2>2. Turn(w, "waiting", <<>>)
        BY <1>5, <2>1, WakesNobody, <1>1 DEF CallAtClosedGate, Turn
    <2>3. LockInv'
        BY <1>1, <1>3, <1>5, LockUntouched DEF CallAtClosedGate
    <2>4. /\ gateQueue' \in Seq(Writers) /\ Len(gateQueue') = Len(gateQueue) + 1 /\ Len(gateQueue) \in Nat
          /\ \A k \in 1..Len(gateQueue') :
                gateQueue'[k] = IF k \in 1..Len(gateQueue) THEN gateQueue[k] ELSE w
        BY <1>1, <1>5 DEF CallAtClosedGate, EventInv
    <2>5. \A k \in 1..Len(gateQueue) : gateQueue[k] # w
        BY <1>1, <1>5 DEF CallAtClosedGate, EventInv
    <2>6. EachOnce(gateQueue')
        BY <1>1, <2>4, <2>5 DEF EachOnce, EventInv
    <2>7. EventInv'
        BY <1>1, <2>1, <2>2, <2>4, <2>5, <2>6, EventTurns
    <2>8. QED
        BY <1>5, <2>1, <2>2, <2>3, <2>7, WriterTurns DEF CallAtClosedGate
<1>6. CASE LeaveGate(w)
    <2>1. ~Twofold(w)
        BY <1>6 DEF LeaveGate, Twofold
    <2>2. Turn(w, "idle", <<>>)
        BY <1>6, <2>1, WakesNobody, <1>1 DEF LeaveGate, Turn
    <2>3. LockInv'
        BY <1>1, <1>3, <1>6, LockUntouched DEF LeaveGate
    <2>4. /\ gateQueue' \in Seq(Writers)
          /\ EachOnce(gateQueue')
          /\ \A k \in 1..Len(gateQueue') :
                gateQueue'[k] # w /\ \E j \in 1..Len(gateQueue) : gateQueue'[k] = gateQueue[j]
        BY <1>1, <1>6, Left DEF LeaveGate, EventInv
    <2>5. EventInv'
        BY <1>1, <2>2, <2>4, EventTurns
    <2>6. QED
        BY <1>6, <2>2, <2>3, <2>5, WriterTurns DEF LeaveGate
<1>7. CASE StartWriting(w)
    <2>1. lock = w
        <3>1. ready[1] = w /\ 1 \in 1..Len(ready)
            BY <1>1, <1>7 DEF StartWriting, Runs, LoopInv
        <3>2. QED
            BY <1>1, <1>7, <3>1 DEF StartWriting, LoopInv, Fit
    <2>2. "writing" \in HoldingAt
        BY DEF HoldingAt
    <2>3. LockInv'
        BY <1>1, <1>7, <2>1, <2>2, LockTakenUp DEF StartWriting
    <2>4. Turn(w, "writing", <<>>)
        BY <1>7, WakesNobody, <1>1 DEF StartWriting, Turn, Twofold
    <2>5. EventInv'
        BY <1>1, <1>7, <2>4, EventUntouched DEF StartWriting
    <2>6. QED
        BY <1>7, <2>3, <2>4, <2>5, WriterTurns DEF StartWriting
<1>8. CASE GiveUp(w)
    <2>1. LockInv'
        BY <1>1, <1>3, <1>8, LockUntouched DEF GiveUp, EndWrite
    <2>2. QED
        BY <1>1, <1>8, <2>1, WakesNobody, WriterLeaves DEF GiveUp, CountedAt
<1>9. CASE lock = w /\ pc[w] \in CountedAt /\ Release /\ EndWrite(w, Heir)
                    /\ cancelled' \in {cancelled, cancelled \ {w}}
    <2>1. PICK first : first = Heir
        OBVIOUS
    <2>2. /\ LockInv'
          /\ first \in Seq(Runners)
          /\ EachOnce(first)
          /\ \A k \in 1..Len(first) : first[k] # w /\ first[k] = lock' /\ pc[first[k]] \in QueuedAt
        BY <1>1, <1>3, <1>9, <2>1, LockReleased DEF EndWrite
    <2>3. Wakes(w, first)
        BY <1>9, <2>2 DEF Wakes
    <2>4. EndWrite(w, first)
        BY <1>9, <2>1
    <2>5. QED
        BY <1>2, <1>9, <2>2, <2>3, <2>4, WriterLeaves
<1>10. CASE Written(w)
    BY <1>1, <1>9, <1>10 DEF Written, LockInv, HoldingAt, CountedAt
<1>11. CASE LeaveQueue(w)
    <2>1. CASE lock = w
        BY <1>9, <1>11, <2>1 DEF LeaveQueue, CountedAt
    <2>2. CASE lock # w
        <3>1. LockInv'
            BY <1>1, <1>3, <1>11, <2>2, LockGivenUp DEF LeaveQueue, EndWrite, QueuedAt
        <3>2. QED
            BY <1>1, <1>11, <2>2, <3>1, WakesNobody, WriterLeaves DEF LeaveQueue, CountedAt
    <2>3. QED
        BY <2>1, <2>2
<1>12. QED
    BY <1>4, <1>5, <1>6, <1>7, <1>8, <1>10, <1>11 DEF WriterRuns

-----------------------------------------------------------------------------
(* The order is kept: clears *)

(* What is left to show of a turn of c, which is the only clear if there   *)
(* is only one.                                                            *)
LEMMA ClearerTurns ==
    ASSUME IInv, OrderInv, NEW c \in Clearers, NEW place, NEW x, Turn(c, place, x),
           LockInv', EventInv',
           callers = {c} => SoleGate(c)' /\ SoleOrder(c)'
    PROVE  OrderInv'
<1>1. c \in Tasks /\ LoopInv
    BY DEF Tasks, OrderInv
<1>2. LoopInv'
    BY <1>1, LoopTurns
<1>3. c \in Runners
    BY <1>1, AfterTurn
<1>4. c \in callers /\ callers' = callers
    BY <1>3, TasksAssumption DEF Runners, TasksAssumption, Turn
<1>5. QED
    BY <1>2, <1>4 DEF OrderInv

(* It opens the gate: the first in the queue of the lock, if any, and who  *)
(* waits for the gate become ready.                                        *)
LEMMA ClearerOpens ==
    ASSUME IInv, OrderInv, NEW c \in Clearers, NEW first, OpenGate(c, first),
           NEW place \in {"idle", "wiping"}, pc' = [pc EXCEPT ![c] = place],
           Wakes(c, first), \A k \in 1..Len(first) : pc[first[k]] \in QueuedAt,
           \A u \in Tasks \ {c} : lock = u => lock' = u, ~Twofold(c),
           cancelled' \in {cancelled, cancelled \ {c}}, UNCHANGED callers, LockInv'
    PROVE  OrderInv'
<1>1. c \in Tasks /\ LoopInv /\ EventInv
    BY DEF Tasks, OrderInv
<1>2. PICK awake \in InOrder(AtGate) : Runs(c, first \o awake)
    BY DEF OpenGate
<1>3. PICK S : S = AtGate
    OBVIOUS
<1>4. \A u \in S : u \in Writers /\ ~InReady(u) /\ pc[u] = "waiting"
    <2>1. SUFFICES ASSUME NEW u \in S PROVE u \in Writers /\ ~InReady(u) /\ pc[u] = "waiting"
        OBVIOUS
    <2>2. u \in Writers /\ ~InReady(u)
        BY <1>3 DEF AtGate
    <2>3. PICK k \in DOMAIN gateQueue : gateQueue[k] = u
        BY <1>3 DEF AtGate
    <2>4. k \in 1..Len(gateQueue)
        BY <1>1, <2>3 DEF EventInv
    <2>5. QED
        BY <1>1, <2>2, <2>3, <2>4 DEF EventInv
<1>5. S \subseteq Runners /\ c \notin S /\ Fresh(S)
    BY <1>4, Apart DEF Runners, Fresh, QueuedAt
<1>6. PICK x : x = first \o awake
    OBVIOUS
<1>7. Wakes(c, x)
    BY <1>1, <1>2, <1>3, <1>5, <1>6, WakesBehind
<1>8. Turn(c, place, x)
    BY <1>2, <1>6, <1>7 DEF Turn
<1>9. gate' = TRUE /\ gateQueue' = <<>>
    BY DEF OpenGate
<1>10. EventInv'
    BY <1>9 DEF EventInv, EachOnce
<1>11. SoleGate(c)' /\ SoleOrder(c)'
    BY <1>1, <1>8, <1>9, SoleOpens
<1>12. QED
    BY <1>8, <1>10, <1>11, ClearerTurns

(* It wakes nobody. *)
LEMMA ClearerGoesOn ==
    ASSUME IInv, OrderInv, NEW c \in Clearers, Runs(c, <<>>),
           UNCHANGED <<gate, gateQueue, cancelled, callers>>,
           NEW place, place # "waiting", pc[c] # "waiting", ~Twofold(c),
           pc' = [pc EXCEPT ![c] = place],
           LockInv', \A u \in Tasks \ {c} : lock = u => lock' = u,
           SoleGate(c) => SoleGate(c)'
    PROVE  OrderInv'
<1>1. c \in Tasks /\ LoopInv /\ EventInv
    BY DEF Tasks, OrderInv
<1>2. Turn(c, place, <<>>)
    BY <1>1, WakesNobody DEF Turn
<1>3. EventInv'
    BY <1>1, <1>2, EventUntouched
<1>4. ASSUME callers = {c} PROVE SoleGate(c)' /\ SoleOrder(c)'
    <2>1. SoleGate(c) /\ SoleOrder(c)
        BY <1>4 DEF OrderInv
    <2>2. SoleOrder(c)'
        BY <1>1, <1>2, <2>1, SoleTurns
    <2>3. QED
        BY <2>1, <2>2
<1>5. QED
    BY <1>2, <1>3, <1>4, ClearerTurns

LEMMA ClearerOrder ==
    ASSUME IInv, OrderInv, NEW c \in Clearers, ClearerRuns(c), UNCHANGED callers
    PROVE  OrderInv'
<1>1. c \in Tasks /\ LockInv /\ LoopInv /\ EventInv
    BY DEF Tasks, OrderInv
<1>2. {"idle", "wiping", "draining"} \cap AtLock = {}
    BY DEF AtLock, HoldingAt, QueuedAt
<1>3. "deleting" \in HoldingAt /\ "delete queued" \in QueuedAt
    BY DEF HoldingAt, QueuedAt
<1>4. CASE Close(c)
    <2>1. PICK place : /\ LockInv'
                       /\ place \in ClosedAt
                       /\ pc' = [pc EXCEPT ![c] = place]
                       /\ \A u \in Tasks \ {c} : lock = u => lock' = u
                       /\ place # "draining" => inflight' = 0
        <3>1. CASE inflight = 0
            <4>1. Acquire(c, "deleting", "delete queued") /\ inflight' = 0
                BY <1>4, <3>1 DEF Close
            <4>2. pc[c] \notin AtLock
                BY <1>2, <1>4 DEF Close
            <4>3. PICK place \in {"deleting", "delete queued"} : pc' = [pc EXCEPT ![c] = place]
                BY <4>1 DEF Acquire
            <4>4. LockInv' /\ \A u \in Tasks \ {c} : lock = u => lock' = u
                BY <1>1, <1>3, <4>1, <4>2, LockAcquired
            <4>5. QED
                BY <4>1, <4>3, <4>4 DEF ClosedAt
        <3>2. CASE inflight # 0
            BY <1>1, <1>2, <1>4, <3>2, LockUntouched DEF Close, ClosedAt
        <3>3. QED
            BY <3>1, <3>2
    <2>2. Turn(c, place, <<>>)
        BY <1>1, <1>4, <2>1, WakesNobody DEF Close, Turn, Twofold
    <2>3. EventInv'
        <3>1. UNCHANGED gateQueue /\ pc[c] = "idle"
            BY <1>4 DEF Close
        <3>2. QED
            BY <1>1, <2>2, <3>1, EventUntouched
    <2>4. ASSUME callers = {c} PROVE SoleGate(c)' /\ SoleOrder(c)'
        <3>1. SoleOrder(c)
            BY <2>4 DEF OrderInv
        <3>2. QED
            BY <1>1, <1>4, <2>1, <2>2, <3>1, SoleCloses DEF Close
    <2>5. QED
        BY <2>1, <2>2, <2>3, <2>4, ClearerTurns
<1>5. CASE Drained(c)
    <2>1. ~Twofold(c)
        BY <1>5 DEF Drained, Twofold
    <2>2. CASE inflight = 0
        <3>1. Acquire(c, "deleting", "delete queued") /\ inflight' = 0
            BY <1>5, <2>2 DEF Drained
        <3>2. pc[c] \notin AtLock
            BY <1>2, <1>5 DEF Drained
        <3>3. PICK place \in {"deleting", "delete queued"} : pc' = [pc EXCEPT ![c] = place]
            BY <3>1 DEF Acquire
        <3>4. LockInv' /\ \A u \in Tasks \ {c} : lock = u => lock' = u
            BY <1>1, <1>3, <3>1, <3>2, LockAcquired
        <3>5. pc'[c] = place
            BY <1>1, <3>3 DEF IInv
        <3>6. SoleGate(c) => SoleGate(c)'
            BY <1>5, <3>1, <3>5 DEF SoleGate, Drained
        <3>7. QED
            BY <1>5, <2>1, <3>3, <3>4, <3>6, ClearerGoesOn DEF Drained
    <2>3. CASE inflight # 0
        <3>1. UNCHANGED <<lock, queue, pc>> /\ UNCHANGED <<gate, inflight>>
            BY <1>5, <2>3 DEF Drained
        <3>2. pc' = [pc EXCEPT ![c] = "draining"]
            BY <1>1, <1>5, <3>1 DEF Drained, IInv
        <3>3. LockInv'
            BY <1>1, <3>1 DEF LockInv
        <3>4. SoleGate(c) => SoleGate(c)'
            BY <3>1 DEF SoleGate
        <3>5. QED
            BY <1>5, <2>1, <3>1, <3>2, <3>3, <3>4, ClearerGoesOn DEF Drained
    <2>4. QED
        BY <2>2, <2>3
<1>6. CASE TimedOut(c)
    <2>1. ~Twofold(c)
        BY <1>6 DEF TimedOut, Twofold
    <2>2. LockInv'
        BY <1>1, <1>2, <1>6, LockUntouched DEF TimedOut
    <2>3. PICK first : first = <<>>
        OBVIOUS
    <2>4. Wakes(c, first) /\ \A k \in 1..Len(first) : pc[first[k]] \in QueuedAt
        BY <1>1, <2>3, WakesNobody
    <2>5. /\ OpenGate(c, first) /\ UNCHANGED lock
          /\ pc' = [pc EXCEPT ![c] = "idle"]
          /\ cancelled' \in {cancelled, cancelled \ {c}}
        BY <1>6, <2>3 DEF TimedOut
    <2>6. QED
        BY <2>1, <2>2, <2>4, <2>5, ClearerOpens
<1>7. CASE StartDeleting(c)
    <2>1. lock = c
        <3>1. ready \in Seq(Runners) /\ ready # <<>> /\ Head(ready) = c
            BY <1>1, <1>7 DEF StartDeleting, Runs, LoopInv
        <3>2. ready[1] = c /\ 1 \in 1..Len(ready)
            BY <3>1
        <3>3. Fit(c)
            BY <1>1, <3>2 DEF LoopInv
        <3>4. QED
            BY <1>7, <3>3 DEF StartDeleting, Fit
    <2>2. ~Twofold(c)
        BY <1>7 DEF StartDeleting, Twofold
    <2>3. LockInv'
        BY <1>1, <1>3, <1>7, <2>1, LockTakenUp DEF StartDeleting
    <2>4. pc'[c] = "deleting"
        BY <1>1, <1>7 DEF StartDeleting, IInv
    <2>5. SoleGate(c) => SoleGate(c)'
        BY <1>7, <2>4 DEF SoleGate, StartDeleting
    <2>6. QED
        BY <1>7, <2>2, <2>3, <2>5, ClearerGoesOn DEF StartDeleting
<1>8. CASE Deleted(c)
    <2>1. lock = c
        BY <1>1, <1>3, <1>8 DEF Deleted, LockInv
    <2>2. ~Twofold(c)
        BY <1>8 DEF Deleted, Twofold
    <2>3. PICK first : first = Heir
        OBVIOUS
    <2>4. /\ LockInv'
          /\ first \in Seq(Runners)
          /\ EachOnce(first)
          /\ \A k \in 1..Len(first) : first[k] # c /\ first[k] = lock' /\ pc[first[k]] \in QueuedAt
        BY <1>1, <1>2, <1>8, <2>1, <2>3, LockReleased DEF Deleted
    <2>5. Wakes(c, first)
        BY <2>1, <2>4 DEF Wakes
    <2>6. OpenGate(c, first) /\ \A u \in Tasks \ {c} : lock = u => lock' = u
        BY <1>8, <2>1, <2>3 DEF Deleted
    <2>7. QED
        BY <1>8, <2>2, <2>4, <2>5, <2>6, ClearerOpens DEF Deleted
<1>9. CASE Wiped(c)
    <2>1. ~Twofold(c)
        BY <1>9 DEF Wiped, Twofold
    <2>2. LockInv'
        BY <1>1, <1>2, <1>9, LockUntouched DEF Wiped
    <2>3. pc'[c] = "idle"
        BY <1>1, <1>9 DEF Wiped, IInv
    <2>4. SoleGate(c) => SoleGate(c)'
        BY <1>9, <2>3 DEF SoleGate, Wiped
    <2>5. QED
        BY <1>9, <2>1, <2>2, <2>4, ClearerGoesOn DEF Wiped
<1>10. QED
    BY <1>4, <1>5, <1>6, <1>7, <1>8, <1>9 DEF ClearerRuns

-----------------------------------------------------------------------------
(* The theorem *)

(* The host makes a task ready or cancels it, or the drain deadline comes. *)
LEMMA HostOrder ==
    ASSUME IInv, OrderInv, NEW t \in Tasks, UNCHANGED callers,
           BecomeReady(t) \/ (t \in Writers /\ Cancel(t)) \/ (t \in Clearers /\ Deadline(t))
    PROVE  OrderInv'
<1>1. LockInv /\ LoopInv /\ EventInv
    BY DEF OrderInv
<1>2. UNCHANGED <<pc, lock, queue, gate, gateQueue, inflight, callers>>
    BY DEF BecomeReady, Cancel, Deadline
<1>3. t \in Runners
    BY <1>1 DEF Runners, BecomeReady, Deadline, LoopInv, Tasks
<1>4. /\ cancelled' \in {cancelled, cancelled \cup {t}}
      /\ Joins(t)
      /\ pc[t] = "waiting" => t \in cancelled'
    BY DEF BecomeReady, Cancel, Deadline, Joins
<1>5. LoopInv'
    BY <1>1, <1>2, <1>3, <1>4, LoopGrows
<1>6. LockInv'
    BY <1>1, <1>2 DEF LockInv
<1>7. EventInv'
    <2>1. ASSUME NEW i \in 1..Len(ready'), NEW k \in 1..Len(gateQueue), ready'[i] = gateQueue[k]
          PROVE  ready'[i] \in cancelled'
        <3>1. \/ i \in 1..Len(ready) /\ ready'[i] = ready[i]
              \/ i \notin 1..Len(ready) /\ i = Len(ready) + 1 /\ ready'[i] = t /\ ~InReady(t)
            BY <1>1, <1>2, <1>3, <1>4, LoopGrows
        <3>2. CASE i \in 1..Len(ready) /\ ready'[i] = ready[i]
            <4>1. ready[i] \in cancelled
                BY <1>1, <2>1, <3>2 DEF EventInv
            <4>2. QED
                BY <1>4, <3>2, <4>1
        <3>3. CASE ready'[i] = t
            <4>1. pc[t] = "waiting"
                BY <1>1, <2>1, <3>3 DEF EventInv
            <4>2. QED
                BY <1>4, <3>3, <4>1
        <3>4. QED
            BY <3>1, <3>2, <3>3
    <2>2. QED
        BY <1>1, <1>2, <2>1 DEF EventInv
<1>8. ASSUME NEW c \in Clearers, callers = {c}
      PROVE  SoleGate(c)' /\ SoleOrder(c)'
    <2>1. SoleGate(c) /\ SoleOrder(c)
        BY <1>8 DEF OrderInv
    <2>2. SoleOrder(c)'
        BY <1>1, <1>2, <1>3, <1>4, <2>1, SoleGrows
    <2>3. QED
        BY <1>2, <2>1, <2>2 DEF SoleGate
<1>9. QED
    BY <1>2, <1>5, <1>6, <1>7, <1>8 DEF OrderInv

LEMMA InitOrder ==
    ASSUME GateInit
    PROVE  OrderInv
<1>1. pc = [t \in Tasks |-> "idle"] /\ \A c \in Clearers : c \in Tasks
    BY DEF GateInit, Tasks
<1>2. \A c \in Clearers : pc[c] = "idle"
    BY <1>1
<1>3. LockInv
    BY <1>1 DEF GateInit, LockInv, EachOnce, HoldingAt
<1>4. LoopInv
    BY <1>2 DEF GateInit, LoopInv
<1>5. EventInv
    BY DEF GateInit, EventInv, EachOnce
<1>6. \A c \in Clearers : SoleGate(c) /\ SoleOrder(c)
    BY <1>2 DEF GateInit, SoleGate, SoleOrder
<1>7. QED
    BY <1>3, <1>4, <1>5, <1>6 DEF OrderInv

(* The order of the event loop's queue, of the lock's and of the event's   *)
(* is what OrderInv says, in every reachable state.                        *)
THEOREM OrderInvariance == GateSpec => [](IInv /\ OrderInv)
<1>1. IInv /\ OrderInv /\ [GateNext]_vars => OrderInv'
    <2>1. SUFFICES ASSUME IInv, OrderInv, [GateNext]_vars PROVE OrderInv'
        OBVIOUS
    <2>2. CASE LoopStep /\ UNCHANGED callers
        BY <2>1, <2>2, WriterOrder, ClearerOrder DEF LoopStep
    <2>3. CASE \E t \in Tasks : /\ \/ BecomeReady(t)
                                   \/ t \in Writers /\ Cancel(t)
                                   \/ t \in Clearers /\ Deadline(t)
                                /\ UNCHANGED callers
        BY <2>1, <2>3, HostOrder
    <2>4. CASE UNCHANGED vars
        <3>1. LockInv' /\ EventInv'
            BY <2>1, <2>4 DEF vars, OrderInv, LockInv, EventInv
        <3>2. LoopInv'
            <4>1. UNCHANGED <<ready, cancelled, pc, lock, callers>>
                BY <2>4 DEF vars
            <4>2. LoopInv
                BY <2>1 DEF OrderInv
            <4>3. \A i \in 1..Len(ready) : Fit(ready[i])'
                BY <4>1, <4>2 DEF LoopInv, Fit
            <4>4. \A i, j \in 1..Len(ready) : i < j /\ ready[i] = ready[j] => Twofold(ready[i])'
                BY <4>1, <4>2 DEF LoopInv, Twofold
            <4>5. Runners' = Runners
                BY <4>1 DEF Runners
            <4>6. QED
                BY <4>1, <4>2, <4>3, <4>4, <4>5 DEF LoopInv
        <3>3. \A c \in Clearers : callers' = {c} => SoleGate(c)' /\ SoleOrder(c)'
            BY <2>1, <2>4 DEF vars, OrderInv, SoleGate, SoleOrder, Awake
        <3>4. QED
            BY <3>1, <3>2, <3>3 DEF OrderInv
    <2>5. QED
        BY <2>1, <2>2, <2>3, <2>4 DEF GateNext, Tasks
<1>2. QED
    BY <1>1, InitOrder, GateInvariance, PTL DEF GateSpec

(* What clear.py says of its sequence: with one clear only, no writer is   *)
(* in flight while the rows are deleted, because who was let through the   *)
(* gate before has begun, and been counted, before it could be closed.     *)
THEOREM DeletesAlone == GateSpec => []DeleteFindsNoWriter
<1>1. OrderInv => DeleteFindsNoWriter
    <2>1. SUFFICES ASSUME OrderInv, Cardinality(callers) = 1, NEW d \in Clearers, pc[d] = "deleting"
                   PROVE  inflight = 0
        BY DEF DeleteFindsNoWriter
    <2>2. callers \subseteq Clearers /\ d \in callers
        BY <2>1 DEF OrderInv, LoopInv
    <2>3. IsFiniteSet(callers)
        BY <2>2, TasksAssumption, FS_Subset DEF TasksAssumption
    <2>4. PICK c : callers = {c}
        BY <2>1, <2>3, FS_Singleton
    <2>5. c = d
        BY <2>2, <2>4
    <2>6. SoleGate(d)
        BY <2>1, <2>4, <2>5 DEF OrderInv
    <2>7. QED
        BY <2>1, <2>6 DEF SoleGate
<1>2. QED
    BY <1>1, OrderInvariance, PTL

=============================================================================
