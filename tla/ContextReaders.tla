---------------------------- MODULE ContextReaders ----------------------------
(***************************************************************************)
(* prepare_context() and the retrieve() inside it, running beside the      *)
(* writers of HistoryStore.                                                *)
(*                                                                         *)
(* A reader takes a snapshot and searches under write_lock, lets go of the *)
(* lock while the model navigates the tree, looks at the store again, reads*)
(* the recent messages without the lock, and checks the generation a last  *)
(* time.  A lexical search here matches every message or none: a property  *)
(* that bounds what is returned is hardest to keep when everything is.     *)
(***************************************************************************)
EXTENDS HistoryStore

CONSTANTS
    Readers,            \* coroutines that prepare a context
    RecentMessages      \* recent_messages

ASSUME RecentAssumption == RecentMessages \in Nat \ {0}

VARIABLES
    rpc,        \* where each reader is
    view,       \* its Snapshot, with the rows that were stored then
    hits,       \* lexical candidates
    chosen,     \* tree candidates
    recent      \* recent messages

readerVars == <<rpc, view, hits, chosen, recent>>

NoView == [indexRevision |-> 0, cacheGeneration |-> 0, maxSeq |-> 0, rows |-> {}]

ReaderInit ==
    /\ rpc = [r \in Readers |-> "idle"]
    /\ view = [r \in Readers |-> NoView]
    /\ hits = [r \in Readers |-> {}]
    /\ chosen = [r \in Readers |-> {}]
    /\ recent = [r \in Readers |-> {}]

RGoTo(r, where) == rpc' = [rpc EXCEPT ![r] = where]

(* The reader returns or raises; it forgets what it had found. *)
Leave(r) ==
    /\ RGoTo(r, "idle")
    /\ view' = [view EXCEPT ![r] = NoView]
    /\ hits' = [hits EXCEPT ![r] = {}]
    /\ chosen' = [chosen EXCEPT ![r] = {}]
    /\ recent' = [recent EXCEPT ![r] = {}]

(* The snapshot and the lexical search share one locked transaction. *)
Capture(r) ==
    /\ rpc[r] = "idle"
    /\ lock = NoTask
    /\ Intact(conn)
    /\ view' = [view EXCEPT ![r] =
           [indexRevision   |-> conn.indexRevision,
            cacheGeneration |-> conn.cacheGeneration,
            maxSeq          |-> conn.highWater,
            rows            |-> conn.messages]]
    /\ \E found \in {{}, conn.messages} : hits' = [hits EXCEPT ![r] = found]
    /\ RGoTo(r, IF conn.leaves = {} THEN "recheck" ELSE "navigate")
    /\ UNCHANGED <<chosen, recent>>

SameTree(r) ==
    /\ conn.indexRevision = view[r].indexRevision
    /\ conn.cacheGeneration = view[r].cacheGeneration

(* Variant: all messages of the chunk that are stored by now are read. *)
NavigateAllRows(r) ==
    /\ rpc[r] = "navigate"
    /\ lock = NoTask
    /\ conn.cacheGeneration = view[r].cacheGeneration
    /\ \E l \in conn.leaves :
           chosen' = [chosen EXCEPT ![r] = @ \cup
               {m \in conn.messages : m.seq >= l.lo /\ m.seq <= l.hi}]
    /\ UNCHANGED <<rpc, view, hits, recent>>

(* The model names a chunk: its messages are read, up to the snapshot. *)
Navigate(r) ==
    /\ rpc[r] = "navigate"
    /\ lock = NoTask
    /\ SameTree(r)
    /\ \E l \in conn.leaves :
           chosen' = [chosen EXCEPT ![r] = @ \cup
               {m \in conn.messages : /\ m.seq >= l.lo
                                      /\ m.seq <= l.hi
                                      /\ m.seq <= view[r].maxSeq}]
    /\ UNCHANGED <<rpc, view, hits, recent>>

(* The queue is empty, or a limit or the deadline is reached. *)
EndNavigation(r) ==
    /\ rpc[r] = "navigate"
    /\ RGoTo(r, "recheck")
    /\ UNCHANGED <<view, hits, chosen, recent>>

(* fallback(): the tree changed or the model failed; nothing of it is used. *)
FallBack(r) ==
    /\ rpc[r] = "navigate"
    /\ chosen' = [chosen EXCEPT ![r] = {}]
    /\ RGoTo(r, "recheck")
    /\ UNCHANGED <<view, hits, recent>>

(* Variant: only the tree is looked at again. *)
RecheckTreeOnly(r) ==
    /\ rpc[r] = "recheck"
    /\ lock = NoTask
    /\ chosen' = [chosen EXCEPT ![r] =
           IF conn.indexRevision = view[r].indexRevision THEN @ ELSE {}]
    /\ RGoTo(r, "recent")
    /\ UNCHANGED <<view, hits, recent>>

(* The second look: a clear invalidates the result, a new tree only the    *)
(* candidates that came from the old one.                                  *)
Recheck(r) ==
    /\ rpc[r] = "recheck"
    /\ lock = NoTask
    /\ conn.cacheGeneration = view[r].cacheGeneration
    /\ chosen' = [chosen EXCEPT ![r] =
           IF conn.indexRevision = view[r].indexRevision THEN @ ELSE {}]
    /\ RGoTo(r, "recent")
    /\ UNCHANGED <<view, hits, recent>>

(* get_messages() reads the shared connection, whoever holds the lock. *)
ReadRecent(r) ==
    /\ rpc[r] = "recent"
    /\ recent' = [recent EXCEPT ![r] =
           {m \in conn.messages : /\ m.seq + RecentMessages > view[r].maxSeq
                                  /\ m.seq <= view[r].maxSeq}]
    /\ RGoTo(r, "final")
    /\ UNCHANGED <<view, hits, chosen>>

(* Variant: the context is returned without the last look. *)
ReturnContextUnchecked(r) ==
    /\ rpc[r] = "final"
    /\ Leave(r)

(* The generation that stats() reads is still the snapshot's. *)
ReturnContext(r) ==
    /\ rpc[r] = "final"
    /\ lock = NoTask
    /\ conn.cacheGeneration = view[r].cacheGeneration
    /\ Leave(r)

(* VersionConflict at either look. *)
Conflict(r) ==
    /\ rpc[r] \in {"recheck", "final"}
    /\ lock = NoTask
    /\ conn.cacheGeneration # view[r].cacheGeneration
    /\ Leave(r)

Read(r) ==
    \/ Capture(r)
    \/ Navigate(r)
    \/ EndNavigation(r)
    \/ FallBack(r)
    \/ Recheck(r)
    \/ ReadRecent(r)
    \/ ReturnContext(r)
    \/ Conflict(r)

(* A crash ends the readers of the process too. *)
CrashAll ==
    /\ Crash
    /\ rpc' = [r \in Readers |-> "idle"]
    /\ view' = [r \in Readers |-> NoView]
    /\ hits' = [r \in Readers |-> {}]
    /\ chosen' = [r \in Readers |-> {}]
    /\ recent' = [r \in Readers |-> {}]

ReadersNext ==
    \/ (\E t \in Tasks : TaskStep(t)) /\ UNCHANGED readerVars
    \/ (\E r \in Readers : Read(r)) /\ UNCHANGED vars
    \/ CrashAll

allVars == <<vars, readerVars>>

ReadersSpec == Init /\ ReaderInit /\ [][ReadersNext]_allVars

-----------------------------------------------------------------------------
(* Properties *)

Evidence(r) == hits[r] \cup chosen[r]

(* Evidence that retrieve() returns is stored and committed at the moment  *)
(* it is returned: no clear, publish or rolled back write that ran since   *)
(* the snapshot leaves a trace in it.                                      *)
RetrieveReturnsStored ==
    [][\A r \in Readers :
           rpc[r] = "recheck" /\ rpc'[r] = "recent" =>
               hits'[r] \cup chosen'[r] \subseteq disk.messages]_allVars

(* Evidence belongs to the snapshot: nothing that was appended after the   *)
(* capture is in it, also when tree navigation read it later.              *)
EvidenceInSnapshot ==
    \A r \in Readers : Evidence(r) \subseteq view[r].rows

(* A context is never returned from a generation that a clear retired      *)
(* while it was assembled: what retrieve() found is stored when the        *)
(* context is handed to the caller.                                        *)
ContextSurvivesNoClear ==
    [][\A r \in Readers :
           ReturnContext(r) => Evidence(r) \subseteq disk.messages]_allVars

(* Every message a context is made from, the recent ones too, is a         *)
(* committed message of the history when the context is returned.          *)
ContextReturnsStored ==
    [][\A r \in Readers :
           ReturnContext(r) =>
               Evidence(r) \cup recent[r] \subseteq disk.messages]_allVars
=============================================================================
