----------------------------- MODULE HistoryStore -----------------------------
(***************************************************************************)
(* One SQLite store and the coroutines of the process that owns it.        *)
(*                                                                         *)
(* disk is the committed database.  conn is what the one AsyncConnection   *)
(* of the process sees: the same, except while a transaction is open on    *)
(* it.  Every transaction runs under write_lock; ingest(), import_history()*)
(* and the publishing part of index() also pass the write gate that        *)
(* clear_history() closes and count as in-flight writers until they end.   *)
(* index() reads its input, lets go of the lock while the model answers,   *)
(* and publishes later against whatever the store then holds.              *)
(*                                                                         *)
(* A write is two steps: its statements change conn, and COMMIT makes conn *)
(* the disk.  Between them the process may crash or the task may fail.     *)
(***************************************************************************)
EXTENDS IngestBatch, FiniteSetsExt

CONSTANTS
    Tasks,          \* coroutines of the owning process
    Requests,       \* the batches callers submit
    NoReq,          \* no request
    NoTask,         \* write_lock is free
    IndexLimit,     \* provider_attempt_limit_index
    ImportBatch,    \* _IMPORT_BATCH_SIZE
    Foreign,        \* files that other stores exported, each the rows it holds
    MaxRevision     \* bound on history_revision and index_revision

ASSUME BoundsAssumption ==
    /\ IndexLimit \in Nat \ {0}
    /\ ImportBatch \in Nat \ {0}
    /\ MaxRevision \in Nat

ASSUME RequestsAssumption ==
    /\ NoReq \notin Requests
    /\ NoTask \notin Tasks
    /\ \A r \in Requests : Len(r.msgs) \in Nat \ {0} /\ r.key # NoKey

(* A file is a prefix of some conversation: finitely many rows, each with  *)
(* its own sequence number.                                                *)
ASSUME ForeignAssumption ==
    \A file \in Foreign :
        /\ IsFiniteSet(file)
        /\ \A w \in file : w.seq \in Nat \ {0}
        /\ \A v, w \in file : v.seq = w.seq => v = w

VARIABLES
    disk,       \* the committed database
    conn,       \* the database as the connection of the process sees it
    lock,       \* the task that holds write_lock, or NoTask
    gate,       \* _write_gate is set
    woken,      \* the tasks that waited for the gate when it last opened
    inflight,   \* the tasks _inflight_writers counts
    pc,         \* where each task is
    req,        \* the request an ingest() was called with
    snap,       \* what an index() read before it called the model
    todo,       \* the records an import_history() has still to insert
    expected,   \* the revision its next batch must find
    files,      \* the exported files, each the rows it holds
    told,       \* the requests whose receipt a caller got since the last clear
    issued      \* every row that was ever committed

storeVars == <<disk, conn>>
syncVars  == <<lock, gate, woken, inflight>>
taskVars  == <<req, snap, todo, expected>>
vars == <<disk, conn, lock, gate, woken, inflight, pc, req, snap, todo, expected,
          files, told, issued>>

-----------------------------------------------------------------------------
(* The database and what each operation does to it. *)

EmptyStore ==
    [historyRevision |-> 0, searchRevision |-> 0, indexRevision |-> 0,
     cacheGeneration |-> 0, committedSeq |-> 0, highWater |-> 0,
     messages |-> {}, receipts |-> {}, leaves |-> {}]

(* assert_search_metadata: the derived search rows cover this revision. *)
Intact(s) == s.searchRevision = s.historyRevision

SeqsOf(rows) == {m.seq : m \in rows}

AfterIngest(s, r) ==
    [s EXCEPT !.historyRevision = @ + 1,
              !.searchRevision  = @ + 1,
              !.messages = @ \cup NewRows(s.messages, s.highWater, r),
              !.receipts = @ \cup {Receipt(s.messages, s.highWater, r)},
              !.highWater = LastSeq(s.messages, s.highWater, r)]

(* Variants of a clear: a table or a column of store_meta is forgotten. *)
AfterClearKeepsReceipts(s) ==
    [s EXCEPT !.historyRevision = @ + 1,
              !.searchRevision  = @ + 1,
              !.indexRevision   = @ + 1,
              !.cacheGeneration = @ + 1,
              !.committedSeq    = 0,
              !.messages = {}, !.leaves = {}]

AfterClearKeepsSearch(s) ==
    [s EXCEPT !.historyRevision = @ + 1,
              !.indexRevision   = @ + 1,
              !.cacheGeneration = @ + 1,
              !.committedSeq    = 0,
              !.messages = {}, !.receipts = {}, !.leaves = {}]

AfterClear(s) ==
    [s EXCEPT !.historyRevision = @ + 1,
              !.searchRevision  = @ + 1,
              !.indexRevision   = @ + 1,
              !.cacheGeneration = @ + 1,
              !.committedSeq    = 0,
              !.messages = {}, !.receipts = {}, !.leaves = {}]

(* Variant: the high-water mark becomes that of the file, also when the    *)
(* store's own was higher.                                                 *)
AfterImportBatchOwnMark(s, batch) ==
    [s EXCEPT !.historyRevision = @ + 1,
              !.searchRevision  = @ + 1,
              !.messages  = @ \cup batch,
              !.highWater = Max(SeqsOf(batch))]

AfterImportBatch(s, batch) ==
    [s EXCEPT !.historyRevision = @ + 1,
              !.searchRevision  = @ + 1,
              !.messages  = @ \cup batch,
              !.highWater = Max({@} \cup SeqsOf(batch))]

(* _chunk_messages cuts the rows into consecutive chunks by the length of  *)
(* their texts.  Texts are not modelled, so the cuts may be anywhere: ends *)
(* are the last sequence numbers of the chunks.                            *)
ChunkRows(rows, ends, e) ==
    {m \in rows : m.seq <= e /\ \A x \in ends : x < e => x < m.seq}

NewLeaf(rows) ==
    [lo |-> Min(SeqsOf(rows)), hi |-> Max(SeqsOf(rows)), rows |-> rows]

(* The publish transaction of a proposal p that summarised the chunks with *)
(* ends p.ends.  p.leaves is {} for a rebuild, whose old tree is deleted.  *)
AfterPublish(s, p) ==
    [s EXCEPT !.indexRevision = @ + 1,
              !.committedSeq  = Max(p.ends),
              !.leaves = p.leaves \cup
                  {NewLeaf(ChunkRows(p.rows, p.ends, e)) : e \in p.ends}]

Init ==
    /\ disk = EmptyStore
    /\ conn = EmptyStore
    /\ lock = NoTask
    /\ gate = TRUE
    /\ woken = {}
    /\ inflight = {}
    /\ pc = [t \in Tasks |-> "idle"]
    /\ req = [t \in Tasks |-> NoReq]
    /\ snap = [t \in Tasks |-> NoReq]
    /\ todo = [t \in Tasks |-> {}]
    /\ expected = [t \in Tasks |-> 0]
    /\ files = Foreign
    /\ told = {}
    /\ issued = {}

-----------------------------------------------------------------------------
(* begin_write, write_lock and the ways an operation ends. *)

GoTo(t, where) == pc' = [pc EXCEPT ![t] = where]

(* begin_write: pass the open gate and be counted, or wait for it.         *)
BeginWrite(t, waits, through) ==
    /\ inflight' = IF gate THEN inflight \cup {t} ELSE inflight
    /\ GoTo(t, IF gate THEN through ELSE waits)
    /\ UNCHANGED <<lock, gate, woken>>

AtGate == {t \in Tasks : pc[t] \in {"ingest.gate", "index.gate", "import.gate"}}

TakeLock(t) ==
    /\ lock = NoTask
    /\ lock' = t
    /\ UNCHANGED <<gate, woken, inflight>>

(* clear_history() opens the gate when it ends, whichever way it ends. *)
IsClear(t) == pc[t] \in {"clear.drain", "clear.lock", "clear.commit"}

Holds(t) == lock = t

(* The places where a task has a transaction open on the connection. *)
Committing == {"ingest.commit", "index.commit", "clear.commit", "import.commit"}

(* Task t returns or raises: what it held or closed is given back, what    *)
(* its open transaction changed is rolled back.                            *)
Finish(t) ==
    /\ GoTo(t, "idle")
    /\ lock' = IF Holds(t) THEN NoTask ELSE lock
    /\ gate' = (gate \/ IsClear(t))
    /\ woken' = IF IsClear(t) THEN AtGate ELSE woken \ {t}
    /\ inflight' = inflight \ {t}
    /\ req' = [req EXCEPT ![t] = NoReq]
    /\ snap' = [snap EXCEPT ![t] = NoReq]
    /\ todo' = [todo EXCEPT ![t] = {}]
    /\ expected' = [expected EXCEPT ![t] = 0]

(* Event.wait() returns: t is counted, at a gate that another clear may    *)
(* have closed again since it opened (WriteGate shows how).                *)
PassGate(t) ==
    /\ t \in woken
    /\ woken' = woken \ {t}
    /\ inflight' = inflight \cup {t}
    /\ GoTo(t, CASE pc[t] = "ingest.gate" -> "ingest.lock"
                 [] pc[t] = "index.gate"  -> "index.propose"
                 [] pc[t] = "import.gate" -> "import.lock")
    /\ UNCHANGED <<disk, conn, lock, gate, taskVars, files, told, issued>>

-----------------------------------------------------------------------------
(* ingest() *)

IngestCall(t, r) ==
    /\ pc[t] = "idle"
    /\ req' = [req EXCEPT ![t] = r]
    /\ BeginWrite(t, "ingest.gate", "ingest.lock")
    /\ UNCHANGED <<disk, conn, snap, todo, expected, files, told, issued>>

Outcome(t) == IngestOutcome(conn.messages, conn.receipts, req[t])

(* The statements of a batch that is stored: rows, receipt and revisions. *)
IngestBody(t) ==
    /\ pc[t] = "ingest.lock"
    /\ Intact(conn)
    /\ Outcome(t) = "inserted"
    /\ conn.historyRevision < MaxRevision
    /\ TakeLock(t)
    /\ conn' = AfterIngest(conn, req[t])
    /\ GoTo(t, "ingest.commit")
    /\ UNCHANGED <<disk, req, snap, todo, expected, files, told, issued>>

(* The same request again: the stored receipt is the answer. *)
IngestReplay(t) ==
    /\ pc[t] = "ingest.lock"
    /\ lock = NoTask
    /\ Intact(conn)
    /\ Outcome(t) = "replayed"
    /\ told' = told \cup {req[t]}
    /\ Finish(t)
    /\ UNCHANGED <<disk, conn, files, issued>>

(* A conflict, or a unique index, refuses the batch. *)
IngestRefuse(t) ==
    /\ pc[t] = "ingest.lock"
    /\ lock = NoTask
    /\ Outcome(t) \notin {"inserted", "replayed"}
    /\ Finish(t)
    /\ UNCHANGED <<disk, conn, files, told, issued>>

(* COMMIT and then the answer to the caller. *)
IngestCommit(t) ==
    /\ pc[t] = "ingest.commit"
    /\ disk' = conn
    /\ issued' = issued \cup conn.messages
    /\ Finish(t)
    /\ told' = told \cup {req[t]}
    /\ UNCHANGED <<conn, files>>

-----------------------------------------------------------------------------
(* index() *)

(* The locked read of everything the proposal is made from.  With nothing  *)
(* pending the call returns, and changes nothing.                          *)
IndexCapture(t, rebuild) ==
    LET start == IF rebuild THEN 1 ELSE conn.committedSeq + 1
    IN  /\ pc[t] = "idle"
        /\ lock = NoTask
        /\ Intact(conn)
        /\ start <= conn.highWater
        /\ snap' = [snap EXCEPT ![t] =
               [historyRevision |-> conn.historyRevision,
                indexRevision   |-> conn.indexRevision,
                cacheGeneration |-> conn.cacheGeneration,
                rows   |-> {m \in conn.messages : m.seq >= start
                                                 /\ m.seq <= conn.highWater},
                leaves |-> IF rebuild THEN {} ELSE conn.leaves,
                ends   |-> {}]]
        /\ BeginWrite(t, "index.gate", "index.propose")
        /\ UNCHANGED <<disk, conn, req, todo, expected, files, told, issued>>

(* The planner keeps as many chunks as the call budget pays for (TreePlan  *)
(* says how many) and the model summarises them; no lock is held.          *)
IndexPropose(t, ends) ==
    /\ pc[t] = "index.propose"
    /\ ends # {} /\ Cardinality(ends) <= IndexLimit
    /\ snap' = [snap EXCEPT ![t].ends = ends]
    /\ GoTo(t, "index.publish")
    /\ UNCHANGED <<disk, conn, syncVars, req, todo, expected, files, told, issued>>

(* No chunk fits the budget, or there is none: "partial", nothing done. *)
IndexNothing(t) ==
    /\ pc[t] = "index.propose"
    /\ Finish(t)
    /\ UNCHANGED <<disk, conn, files, told, issued>>

(* Variant: the proposal is published without a second look. *)
CurrentAnyway(s, p) == TRUE

(* The store still is what the proposal was made from. *)
Current(s, p) ==
    /\ s.historyRevision = p.historyRevision
    /\ s.indexRevision   = p.indexRevision
    /\ s.cacheGeneration = p.cacheGeneration

IndexPublish(t) ==
    /\ pc[t] = "index.publish"
    /\ Intact(conn)
    /\ Current(conn, snap[t])
    /\ conn.indexRevision < MaxRevision
    /\ TakeLock(t)
    /\ conn' = AfterPublish(conn, snap[t])
    /\ GoTo(t, "index.commit")
    /\ UNCHANGED <<disk, taskVars, files, told, issued>>

(* VersionConflict. *)
IndexStale(t) ==
    /\ pc[t] = "index.publish"
    /\ lock = NoTask
    /\ ~Current(conn, snap[t])
    /\ Finish(t)
    /\ UNCHANGED <<disk, conn, files, told, issued>>

IndexCommit(t) ==
    /\ pc[t] = "index.commit"
    /\ disk' = conn
    /\ Finish(t)
    /\ UNCHANGED <<conn, files, told, issued>>

-----------------------------------------------------------------------------
(* clear_history(): close the gate, wait for the in-flight writers, delete. *)

ClearClose(t) ==
    /\ pc[t] = "idle"
    /\ gate' = FALSE
    /\ GoTo(t, "clear.drain")
    /\ UNCHANGED <<disk, conn, lock, woken, inflight, taskVars, files, told, issued>>

ClearDrained(t) ==
    /\ pc[t] = "clear.drain"
    /\ inflight = {}
    /\ GoTo(t, "clear.lock")
    /\ UNCHANGED <<disk, conn, syncVars, taskVars, files, told, issued>>

(* The quiescence deadline passes first: BudgetExceeded. *)
ClearTimeout(t) ==
    /\ pc[t] = "clear.drain"
    /\ inflight # {}
    /\ Finish(t)
    /\ UNCHANGED <<disk, conn, files, told, issued>>

ClearBody(t) ==
    /\ pc[t] = "clear.lock"
    /\ Intact(conn)
    /\ conn.historyRevision < MaxRevision
    /\ conn.indexRevision < MaxRevision
    /\ TakeLock(t)
    /\ conn' = AfterClear(conn)
    /\ GoTo(t, "clear.commit")
    /\ UNCHANGED <<disk, taskVars, files, told, issued>>

ClearCommit(t) ==
    /\ pc[t] = "clear.commit"
    /\ disk' = conn
    /\ told' = {}
    /\ Finish(t)
    /\ UNCHANGED <<conn, files, issued>>

-----------------------------------------------------------------------------
(* export() and import_history() *)

(* The rows are read in one locked transaction and written after it.  The  *)
(* file of an empty history is left out: importing it inserts nothing.     *)
Export(t) ==
    /\ pc[t] = "idle"
    /\ lock = NoTask
    /\ conn.messages # {}
    /\ files' = files \cup {conn.messages}
    /\ UNCHANGED <<disk, conn, syncVars, pc, taskVars, told, issued>>

(* The first emptiness check reads the connection without the lock. *)
ImportCall(t, file) ==
    /\ pc[t] = "idle"
    /\ conn.messages = {}
    /\ file # {}
    /\ todo' = [todo EXCEPT ![t] = file]
    /\ BeginWrite(t, "import.gate", "import.lock")
    /\ UNCHANGED <<disk, conn, req, snap, expected, files, told, issued>>

(* write_lock is held until the last batch has committed. *)
ImportLock(t) ==
    /\ pc[t] = "import.lock"
    /\ TakeLock(t)
    /\ GoTo(t, "import.first")
    /\ UNCHANGED <<disk, conn, taskVars, files, told, issued>>

(* Variant: the emptiness check before the gate is trusted. *)
ImportMayGoOnTrusting(t) ==
    /\ Intact(conn)
    /\ pc[t] = "import.next" => conn.historyRevision = expected[t]

(* What a batch must find: an empty store, and later the revision that the *)
(* batch before it left.                                                   *)
ImportMayGoOn(t) ==
    /\ Intact(conn)
    /\ CASE pc[t] = "import.first" -> conn.messages = {}
         [] pc[t] = "import.next"  -> conn.historyRevision = expected[t]

NextBatch(rows) == {m \in rows :
    Cardinality({w \in rows : w.seq <= m.seq}) <= ImportBatch}

ImportBody(t) ==
    /\ pc[t] \in {"import.first", "import.next"}
    /\ ImportMayGoOn(t)
    /\ conn.historyRevision < MaxRevision
    /\ conn' = AfterImportBatch(conn, NextBatch(todo[t]))
    /\ expected' = [expected EXCEPT ![t] = conn.historyRevision + 1]
    /\ todo' = [todo EXCEPT ![t] = @ \ NextBatch(@)]
    /\ GoTo(t, "import.commit")
    /\ UNCHANGED <<disk, syncVars, req, snap, files, told, issued>>

(* StoreNotEmpty or VersionConflict; committed batches stay. *)
ImportRefuse(t) ==
    /\ pc[t] \in {"import.first", "import.next"}
    /\ ~ImportMayGoOn(t)
    /\ Finish(t)
    /\ UNCHANGED <<disk, conn, files, told, issued>>

(* Variant: write_lock is let go between batches. *)
ImportCommitUnlocked(t) ==
    /\ pc[t] = "import.commit"
    /\ disk' = conn
    /\ issued' = issued \cup conn.messages
    /\ IF todo[t] = {}
       THEN Finish(t)
       ELSE /\ GoTo(t, "import.next")
            /\ lock' = NoTask
            /\ UNCHANGED <<gate, woken, inflight, taskVars>>
    /\ UNCHANGED <<conn, files, told>>

ImportCommit(t) ==
    /\ pc[t] = "import.commit"
    /\ disk' = conn
    /\ issued' = issued \cup conn.messages
    /\ IF todo[t] = {}
       THEN Finish(t)
       ELSE GoTo(t, "import.next") /\ UNCHANGED <<syncVars, taskVars>>
    /\ UNCHANGED <<conn, files, told>>

-----------------------------------------------------------------------------
(* Failures *)

(* Variant: the failed transaction is left open. *)
FailNoRollback(t) ==
    /\ pc[t] # "idle"
    /\ Finish(t)
    /\ UNCHANGED <<disk, conn, files, told, issued>>

(* A storage error, a provider error or a cancelled coroutine: an open     *)
(* transaction of t is rolled back, and its finally clauses run.           *)
Fail(t) ==
    /\ pc[t] # "idle"
    /\ conn' = IF Holds(t) THEN disk ELSE conn
    /\ Finish(t)
    /\ UNCHANGED <<disk, files, told, issued>>

(* COMMIT took effect, and the coroutine was cancelled or failed before it *)
(* could answer: nothing is left to roll back, and the caller was told     *)
(* nothing.                                                                *)
Unanswered(t) ==
    /\ pc[t] \in Committing
    /\ disk' = conn
    /\ issued' = issued \cup conn.messages
    /\ told' = IF pc[t] = "clear.commit" THEN {} ELSE told
    /\ Finish(t)
    /\ UNCHANGED <<conn, files>>

(* The process dies and the store is opened again, by a new process with   *)
(* nothing in flight.  open() refuses a store whose search rows are stale. *)
Crash ==
    /\ Intact(disk)
    /\ conn' = disk
    /\ lock' = NoTask
    /\ gate' = TRUE
    /\ woken' = {}
    /\ inflight' = {}
    /\ pc' = [t \in Tasks |-> "idle"]
    /\ req' = [t \in Tasks |-> NoReq]
    /\ snap' = [t \in Tasks |-> NoReq]
    /\ todo' = [t \in Tasks |-> {}]
    /\ expected' = [t \in Tasks |-> 0]
    /\ UNCHANGED <<disk, files, told, issued>>

Ingest(t) ==
    \/ \E r \in Requests : IngestCall(t, r)
    \/ IngestBody(t)
    \/ IngestReplay(t)
    \/ IngestRefuse(t)
    \/ IngestCommit(t)

Index(t) ==
    \/ \E rebuild \in BOOLEAN : IndexCapture(t, rebuild)
    \/ /\ pc[t] = "index.propose"
       /\ \E ends \in SUBSET SeqsOf(snap[t].rows) : IndexPropose(t, ends)
    \/ IndexNothing(t)
    \/ IndexPublish(t)
    \/ IndexStale(t)
    \/ IndexCommit(t)

ClearHistory(t) ==
    \/ ClearClose(t)
    \/ ClearDrained(t)
    \/ ClearTimeout(t)
    \/ ClearBody(t)
    \/ ClearCommit(t)

ImportHistory(t) ==
    \/ \E file \in files : ImportCall(t, file)
    \/ ImportLock(t)
    \/ ImportBody(t)
    \/ ImportRefuse(t)
    \/ ImportCommit(t)

TaskStep(t) ==
    \/ PassGate(t)
    \/ Ingest(t)
    \/ Index(t)
    \/ ClearHistory(t)
    \/ Export(t)
    \/ ImportHistory(t)
    \/ Fail(t)
    \/ Unanswered(t)

Next == (\E t \in Tasks : TaskStep(t)) \/ Crash

Spec == Init /\ [][Next]_vars

-----------------------------------------------------------------------------
(* Properties *)

Places == {"idle", "ingest.gate", "ingest.lock", "ingest.commit",
           "index.gate", "index.propose", "index.publish", "index.commit",
           "clear.drain", "clear.lock", "clear.commit",
           "import.gate", "import.lock", "import.first", "import.commit",
           "import.next"}

StoreType(s) ==
    /\ s.historyRevision \in 0..MaxRevision
    /\ s.searchRevision \in Nat
    /\ s.indexRevision \in 0..MaxRevision
    /\ s.cacheGeneration \in Nat
    /\ s.committedSeq \in Nat
    /\ s.highWater \in Nat
    /\ IsFiniteSet(s.messages)
    /\ \A m \in s.messages : m.seq \in Nat \ {0}
    /\ \A c \in s.receipts : c.first \in Nat /\ c.last \in Nat
    /\ \A l \in s.leaves : l.lo \in Nat /\ l.hi \in Nat

(* Types of the variables. *)
TypeOK ==
    /\ StoreType(disk)
    /\ StoreType(conn)
    /\ lock \in Tasks \cup {NoTask}
    /\ gate \in BOOLEAN
    /\ woken \subseteq Tasks
    /\ inflight \subseteq Tasks
    /\ pc \in [Tasks -> Places]
    /\ req \in [Tasks -> Requests \cup {NoReq}]
    /\ \A m \in issued : m.seq \in Nat \ {0}

(* No operation leaves the derived search rows at another revision than    *)
(* the history: assert_search_metadata would refuse the store for good.    *)
RevisionLockstep == Intact(disk)

(* The connection differs from the committed database only inside a        *)
(* transaction of the task that holds write_lock, so a task that finds the *)
(* lock free reads committed rows.                                         *)
DirtyOnlyUnderLock ==
    conn # disk => lock # NoTask /\ pc[lock] \in Committing

(* Sequence numbers order the conversation: no two stored messages share   *)
(* one, whether ingested or imported beside other writers.                 *)
SeqsUnique ==
    \A v, w \in disk.messages : v.seq = w.seq => v = w

(* Every number ever given out, in this generation or one that was         *)
(* cleared, stays at or below the high-water mark from which the next      *)
(* ingest numbers its batch.                                               *)
IssuedBelowHighWater == \A m \in issued : m.seq <= disk.highWater

(* A receipt that replays is true: the rows of its range are in the store, *)
(* without a gap.                                                          *)
ReceiptsHold ==
    \A c \in disk.receipts :
        c.last > 0 => c.first..c.last \subseteq SeqsOf(disk.messages)

(* The published tree describes the history: every message up to           *)
(* index_committed_seq is under exactly one leaf, and what a leaf          *)
(* summarised is what the store holds in its range.  index() may have been *)
(* overtaken by any number of writers and clears since it read its input.  *)
TreeDescribesHistory ==
    /\ \A m \in disk.messages :
          m.seq <= disk.committedSeq =>
              \E l \in disk.leaves : m \in l.rows
    /\ \A l \in disk.leaves :
          /\ l.rows = {m \in disk.messages : m.seq >= l.lo /\ m.seq <= l.hi}
          /\ l.hi <= disk.committedSeq
    /\ \A k, l \in disk.leaves : k.rows \cap l.rows # {} => k = l

(* Position j is where the batch first names the external id of i. *)
FirstOfId(q, i, j) ==
    /\ q.msgs[j].ext = q.msgs[i].ext
    /\ \A k \in 1..(j - 1) : q.msgs[k].ext # q.msgs[i].ext

(* These rows keep batch q.  A message without an external id has a row of *)
(* its own, with what it said and the session it was said in.  A message   *)
(* with one has the row of that id, which says what the batch said where   *)
(* it first named the id; its session is that of the first batch to do so. *)
Keeps(rows, q) ==
    \A i \in Positions(q) :
        \E w \in rows :
            IF q.msgs[i].ext = NoExt
            THEN /\ w.key = q.key /\ w.pos = i
                 /\ w.session = q.session
                 /\ <<w.text, w.tools>> = Payload(q.msgs[i])
            ELSE /\ w.ext = q.msgs[i].ext
                 /\ \E j \in Positions(q) :
                       /\ FirstOfId(q, i, j)
                       /\ <<w.text, w.tools>> = Payload(q.msgs[j])

(* Requests that differ in their tool calls, if at all. *)
Alike(q, r) ==
    /\ q.key = r.key /\ q.session = r.session
    /\ Positions(q) = Positions(r)
    /\ \A i \in Positions(r) :
          q.msgs[i].ext = r.msgs[i].ext /\ q.msgs[i].text = r.msgs[i].text

Answered(rows, r) == \E q \in Requests : Alike(q, r) /\ Keeps(rows, q)

(* A caller that holds a receipt of this generation finds its batch in the *)
(* store, whatever crashed since: every message, with the text and session *)
(* it sent, and the tool calls of the request the receipt was written for. *)
(* What is not kept is exactly what the code lets go: the later messages   *)
(* of a batch that repeats an external id, the tool calls of a request     *)
(* that hashes like an earlier one, and the session of a message whose     *)
(* external id was stored before.                                          *)
AcknowledgedKept ==
    \A r \in told : Answered(disk.messages, r)

(* The store implements the log that callers rely on, through every        *)
(* interleaving, failure and crash.                                        *)
Log == INSTANCE ConversationLog WITH
    log      <- disk.messages,
    accepted <- {c.key : c \in disk.receipts},
    top      <- disk.highWater,
    saved    <- files

ImplementsLog == Log!LogSpec

(* While an import runs nothing else writes, so it either inserts the      *)
(* whole file or stops between two batches, and never meets a store that   *)
(* another task has filled.                                                *)
ImportAlone ==
    \A t \in Tasks : pc[t] = "import.next" => ImportMayGoOn(t)
=============================================================================
