------------------------------- MODULE WriteGate -------------------------------
(***************************************************************************)
(* How the coroutines of one process get to write: begin_write, end_write, *)
(* the gate that clear_history() closes, its wait for in-flight writers    *)
(* and the first-come-first-served write_lock (store.py, clear.py).        *)
(*                                                                         *)
(* The event loop is part of the model: a task runs, without interruption, *)
(* from one suspension to the next, and the tasks that can run do so in    *)
(* the order in which they became able to (ready).  A task that waits for  *)
(* the gate is made ready by its opening and does not look at the gate     *)
(* again; a task that waits for the writers to drain does look again.      *)
(***************************************************************************)
EXTENDS Integers, SequencesExt

CONSTANTS
    Writers,        \* tasks that run ingest(), import_history() or index()
    Clearers,       \* tasks that run clear_history()
    Nobody          \* write_lock is free

ASSUME TasksAssumption ==
    /\ IsFiniteSet(Writers \cup Clearers)
    /\ Writers \cap Clearers = {}
    /\ Nobody \notin Writers \cup Clearers

Tasks == Writers \cup Clearers

VARIABLES
    gate,       \* _write_gate is set
    gateQueue,  \* the writers that wait for it, in order
    inflight,   \* _inflight_writers
    lock,       \* the holder of write_lock
    queue,      \* the tasks that wait for write_lock, in order
    ready,      \* the tasks the event loop will run, in order
    cancelled,  \* the tasks that will be told to stop when they run next
    pc,         \* where each task is
    callers     \* the clears that the host makes at all: it never changes

vars == <<gate, gateQueue, inflight, lock, queue, ready, cancelled, pc, callers>>

GateInit ==
    /\ gate = TRUE
    /\ gateQueue = <<>>
    /\ inflight = 0
    /\ lock = Nobody
    /\ queue = <<>>
    /\ ready = <<>>
    /\ cancelled = {}
    /\ pc = [t \in Tasks |-> "idle"]
    /\ callers \in SUBSET Clearers

InReady(t) == \E i \in 1..Len(ready) : ready[i] = t

(* The event loop takes the first ready task; what t does makes the tasks  *)
(* of the sequence woken ready, behind those that are.                     *)
Runs(t, woken) ==
    /\ ready # <<>> /\ Head(ready) = t
    /\ ready' = Tail(ready) \o woken

(* A call of the host arrives, or the I/O that t waits for completes.      *)
BecomeReady(t) ==
    /\ pc[t] \in {"idle", "working", "writing", "deleting", "wiping"}
    /\ t \in Writers \cup callers
    /\ ~InReady(t)
    /\ ready' = Append(ready, t)
    /\ UNCHANGED <<gate, gateQueue, inflight, lock, queue, cancelled, pc>>

(* The host cancels a task that waits for the gate or for write_lock.      *)
Cancel(t) ==
    /\ pc[t] \in {"waiting", "queued"}
    /\ cancelled' = cancelled \cup {t}
    /\ ready' = IF InReady(t) THEN ready ELSE Append(ready, t)
    /\ UNCHANGED <<gate, gateQueue, inflight, lock, queue, pc>>

(* The drain deadline is a cancellation too, and may come together with    *)
(* the notification that the last writer has ended.                        *)
Deadline(c) ==
    /\ pc[c] = "draining"
    /\ cancelled' = cancelled \cup {c}
    /\ ready' = IF InReady(c) THEN ready ELSE Append(ready, c)
    /\ UNCHANGED <<gate, gateQueue, inflight, lock, queue, pc>>

-----------------------------------------------------------------------------
(* write_lock, an asyncio.Lock *)

(* Acquire: at once when the lock is free, else at the end of the queue.   *)
Acquire(t, held, waits) ==
    IF lock = Nobody
    THEN /\ lock' = t
         /\ pc' = [pc EXCEPT ![t] = held]
         /\ UNCHANGED queue
    ELSE /\ queue' = Append(queue, t)
         /\ pc' = [pc EXCEPT ![t] = waits]
         /\ UNCHANGED lock

(* Release hands the lock to the first in the queue, who becomes ready.    *)
Release ==
    IF queue = <<>> THEN lock' = Nobody /\ UNCHANGED queue
                    ELSE lock' = Head(queue) /\ queue' = Tail(queue)

Heir == IF queue = <<>> THEN <<>> ELSE <<Head(queue)>>

(* The clears that end_write's notify_all wakes, in some order.            *)
Drainers == {c \in Clearers : pc[c] = "draining" /\ ~InReady(c)}

InOrder(S) == {s \in [1..Cardinality(S) -> S] : \A x \in S : \E i \in DOMAIN s : s[i] = x}

-----------------------------------------------------------------------------
(* Writers *)

(* begin_write with the gate open does not suspend.  index() goes on to    *)
(* its model calls, ingest() and import_history() straight to write_lock.  *)
Call(w) ==
    /\ pc[w] = "idle"
    /\ gate
    /\ Runs(w, <<>>)
    /\ inflight' = inflight + 1
    /\ \/ pc' = [pc EXCEPT ![w] = "working"] /\ UNCHANGED <<lock, queue>>
       \/ Acquire(w, "writing", "queued")
    /\ UNCHANGED <<gate, gateQueue, cancelled>>

CallAtClosedGate(w) ==
    /\ pc[w] = "idle"
    /\ ~gate
    /\ Runs(w, <<>>)
    /\ gateQueue' = Append(gateQueue, w)
    /\ pc' = [pc EXCEPT ![w] = "waiting"]
    /\ UNCHANGED <<gate, inflight, lock, queue, cancelled>>

(* Event.wait() returns: the writer counts itself, at a gate that may have *)
(* been closed again.                                                      *)
PassGate(w) ==
    /\ pc[w] = "waiting"
    /\ w \notin cancelled
    /\ Runs(w, <<>>)
    /\ inflight' = inflight + 1
    /\ \/ pc' = [pc EXCEPT ![w] = "working"] /\ UNCHANGED <<lock, queue>>
       \/ Acquire(w, "writing", "queued")
    /\ UNCHANGED <<gate, gateQueue, cancelled>>

(* Cancelled at the gate: it was never counted.                            *)
LeaveGate(w) ==
    /\ pc[w] = "waiting"
    /\ w \in cancelled
    /\ Runs(w, <<>>)
    /\ gateQueue' = RemoveFirst(gateQueue, w)
    /\ cancelled' = cancelled \ {w}
    /\ pc' = [pc EXCEPT ![w] = "idle"]
    /\ UNCHANGED <<gate, inflight, lock, queue>>

LockToWrite(w) ==
    /\ pc[w] = "working"
    /\ Runs(w, <<>>)
    /\ Acquire(w, "writing", "queued")
    /\ UNCHANGED <<gate, gateQueue, inflight, cancelled>>

(* write_lock is w's by inheritance. *)
StartWriting(w) ==
    /\ pc[w] = "queued"
    /\ w \notin cancelled
    /\ Runs(w, <<>>)
    /\ pc' = [pc EXCEPT ![w] = "writing"]
    /\ UNCHANGED <<gate, gateQueue, inflight, lock, queue, cancelled>>

(* end_write, which ends every writer: notify_all and no suspension.       *)
EndWrite(w, first) ==
    /\ inflight' = inflight - 1
    /\ pc' = [pc EXCEPT ![w] = "idle"]
    /\ \E woken \in InOrder(Drainers) : Runs(w, first \o woken)
    /\ UNCHANGED <<gate, gateQueue>>

(* The transaction has ended, one way or the other. *)
Written(w) ==
    /\ pc[w] = "writing"
    /\ Release
    /\ EndWrite(w, Heir)
    /\ UNCHANGED cancelled

(* Variant: this return of index() is outside the finally clause. *)
GiveUpCounted(w) ==
    /\ pc[w] = "working"
    /\ Runs(w, <<>>)
    /\ pc' = [pc EXCEPT ![w] = "idle"]
    /\ UNCHANGED <<gate, gateQueue, inflight, lock, queue, cancelled>>

(* index() ends without a write: a model error, or nothing to publish. *)
GiveUp(w) ==
    /\ pc[w] = "working"
    /\ EndWrite(w, <<>>)
    /\ UNCHANGED <<lock, queue, cancelled>>

(* Cancelled in the queue for write_lock, or just as it inherited it.      *)
LeaveQueue(w) ==
    /\ pc[w] = "queued"
    /\ w \in cancelled
    /\ cancelled' = cancelled \ {w}
    /\ IF lock = w
       THEN Release /\ EndWrite(w, Heir)
       ELSE /\ queue' = RemoveFirst(queue, w)
            /\ EndWrite(w, <<>>)
            /\ UNCHANGED lock

-----------------------------------------------------------------------------
(* clear_history() *)

(* Variant: the gate is left open. *)
CloseOpen(c) ==
    /\ pc[c] = "idle"
    /\ Runs(c, <<>>)
    /\ IF inflight = 0
       THEN Acquire(c, "deleting", "delete queued")
       ELSE /\ pc' = [pc EXCEPT ![c] = "draining"]
            /\ UNCHANGED <<lock, queue>>
    /\ UNCHANGED <<gate, gateQueue, inflight, cancelled>>

(* close_write_gate; with no writer in flight the wait does not suspend.   *)
Close(c) ==
    /\ pc[c] = "idle"
    /\ Runs(c, <<>>)
    /\ gate' = FALSE
    /\ IF inflight = 0
       THEN Acquire(c, "deleting", "delete queued")
       ELSE /\ pc' = [pc EXCEPT ![c] = "draining"]
            /\ UNCHANGED <<lock, queue>>
    /\ UNCHANGED <<gateQueue, inflight, cancelled>>

(* Condition.wait_for: notified, it looks at the counter again.            *)
Drained(c) ==
    /\ pc[c] = "draining"
    /\ c \notin cancelled
    /\ Runs(c, <<>>)
    /\ IF inflight = 0
       THEN Acquire(c, "deleting", "delete queued")
       ELSE UNCHANGED <<lock, queue, pc>>
    /\ UNCHANGED <<gate, gateQueue, inflight, cancelled>>

(* Variant: the waiting writers are not woken. *)
OpenGateSilent(c, first) ==
    /\ gate' = TRUE
    /\ UNCHANGED gateQueue
    /\ Runs(c, first)

(* The writers that wait for the gate and were not told to stop meanwhile, *)
(* and a sequence of them that is in the order in which they came.         *)
AtGate == {w \in Writers : ~InReady(w) /\ \E k \in DOMAIN gateQueue : gateQueue[k] = w}

InTurn(s) ==
    \A i, j \in DOMAIN s : i < j =>
        \E k, l \in DOMAIN gateQueue : k < l /\ gateQueue[k] = s[i] /\ gateQueue[l] = s[j]

(* open_write_gate: Event.set() makes every waiting writer ready.          *)
OpenGate(c, first) ==
    /\ gate' = TRUE
    /\ gateQueue' = <<>>
    /\ \E awake \in InOrder(AtGate) : InTurn(awake) /\ Runs(c, first \o awake)

(* Variant: only a completed clear opens the gate. *)
TimedOutShut(c) ==
    /\ pc[c] = "draining"
    /\ c \in cancelled
    /\ cancelled' = cancelled \ {c}
    /\ Runs(c, <<>>)
    /\ pc' = [pc EXCEPT ![c] = "idle"]
    /\ UNCHANGED <<gate, gateQueue, inflight, lock, queue>>

(* Variant: a clear that timed out waits again for the notification. *)
TimedOutWaitsAgain(c) ==
    /\ pc[c] = "draining"
    /\ c \in cancelled
    /\ cancelled' = cancelled \ {c}
    /\ Runs(c, <<>>)
    /\ UNCHANGED <<gate, gateQueue, inflight, lock, queue, pc>>

(* BudgetExceeded: the writers go on, and the gate opens.                  *)
TimedOut(c) ==
    /\ pc[c] = "draining"
    /\ c \in cancelled
    /\ cancelled' = cancelled \ {c}
    /\ OpenGate(c, <<>>)
    /\ pc' = [pc EXCEPT ![c] = "idle"]
    /\ UNCHANGED <<inflight, lock, queue>>

StartDeleting(c) ==
    /\ pc[c] = "delete queued"
    /\ Runs(c, <<>>)
    /\ pc' = [pc EXCEPT ![c] = "deleting"]
    /\ UNCHANGED <<gate, gateQueue, inflight, lock, queue, cancelled>>

(* COMMIT or ROLLBACK, release and open_write_gate: no suspension between. *)
(* The cache is wiped after it, in a thread.                               *)
Deleted(c) ==
    /\ pc[c] = "deleting"
    /\ Release
    /\ OpenGate(c, Heir)
    /\ pc' = [pc EXCEPT ![c] = "wiping"]
    /\ UNCHANGED <<inflight, cancelled>>

Wiped(c) ==
    /\ pc[c] = "wiping"
    /\ Runs(c, <<>>)
    /\ pc' = [pc EXCEPT ![c] = "idle"]
    /\ UNCHANGED <<gate, gateQueue, inflight, lock, queue, cancelled>>

-----------------------------------------------------------------------------

WriterRuns(w) ==
    \/ Call(w)
    \/ CallAtClosedGate(w)
    \/ PassGate(w)
    \/ LeaveGate(w)
    \/ LockToWrite(w)
    \/ StartWriting(w)
    \/ Written(w)
    \/ GiveUp(w)
    \/ LeaveQueue(w)

ClearerRuns(c) ==
    \/ Close(c)
    \/ Drained(c)
    \/ TimedOut(c)
    \/ StartDeleting(c)
    \/ Deleted(c)
    \/ Wiped(c)

(* The loop runs the head of ready. *)
LoopStep ==
    \/ \E w \in Writers : WriterRuns(w)
    \/ \E c \in Clearers : ClearerRuns(c)

GateNext ==
    /\ \/ LoopStep
       \/ \E t \in Tasks : BecomeReady(t)
       \/ \E w \in Writers : Cancel(w)
       \/ \E c \in Clearers : Deadline(c)
    /\ UNCHANGED callers

GateSpec == GateInit /\ [][GateNext]_vars

(* The loop does not stop, storage and provider calls return or time out,  *)
(* and the timer of the drain fires.  Nothing obliges the host to call.    *)
FairGateSpec ==
    /\ GateSpec
    /\ WF_vars(LoopStep /\ UNCHANGED callers)
    /\ \A t \in Tasks : WF_vars(pc[t] # "idle" /\ BecomeReady(t) /\ UNCHANGED callers)
    /\ \A c \in Clearers : WF_vars(Deadline(c) /\ UNCHANGED callers)

-----------------------------------------------------------------------------
(* Properties *)

Counted == {w \in Writers : pc[w] \in {"working", "queued", "writing"}}

Clearing == {c \in Clearers : pc[c] \in {"draining", "delete queued", "deleting"}}

(* The counter counts: a writer that has ended, however it ended, is not   *)
(* counted any more, so it never makes a later clear time out.             *)
InflightExact == inflight = Cardinality(Counted)

(* The gate is not left closed: without a clear_history() under way it is  *)
(* open, whichever of several clears ended first and however.              *)
GateNotLeftClosed == gate \/ Clearing # {}

(* What clear.py says of its sequence: new local work is gated and the     *)
(* in-flight operations have ended while the rows are deleted.  It holds   *)
(* of a host that never has two clears at once: the clear that ends first  *)
(* opens the gate for both.                                                *)
DeleteFindsNoWriter ==
    Cardinality(callers) = 1 =>
        ((\E c \in Clearers : pc[c] = "deleting") => inflight = 0)

(* A writer that waits at the gate gets through and ends, however many     *)
(* clears follow each other, unless it is cancelled, which ends it too.    *)
WriterEnds == \A w \in Writers : pc[w] = "waiting" ~> pc[w] = "idle"

(* clear_history() ends: it is never left waiting for a writer or a lock.  *)
ClearEnds == \A c \in Clearers : pc[c] = "draining" ~> pc[c] = "idle"
=============================================================================
