--------------------------- MODULE ConversationLog ---------------------------
(***************************************************************************)
(* What callers of a history may rely on, with no transactions, locks,     *)
(* tasks, crashes or indexes: a log of messages with sequence numbers.  A  *)
(* batch is appended once and whole, with the next numbers; a clear empties *)
(* the log and gives no number back; an import refills an emptied log from *)
(* an exported one, in order, and may stop between two of its batches.     *)
(***************************************************************************)
EXTENDS Naturals, FiniteSets, Sequences

CONSTANTS
    Requests,   \* the batches that may be appended
    NoExt,      \* the external id of a message that has none
    Foreign     \* files of other logs

VARIABLES
    log,        \* the stored rows
    accepted,   \* idempotency keys that have been accepted since the clear
    top,        \* the highest sequence number given out
    saved       \* the exported files, each the rows it holds

logVars == <<log, accepted, top, saved>>

Seqs(rows) == {m.seq : m \in rows}

LogInit == log = {} /\ accepted = {} /\ top = 0 /\ saved = Foreign


(* Appends exactly the messages of r that the log does not hold, under     *)
(* consecutive new numbers and in the order of the batch.                  *)
Accept(r) ==
    /\ r.key \notin accepted
    /\ accepted' = accepted \cup {r.key}
    /\ log \subseteq log'
    /\ LET new == log' \ log
       IN  /\ top' = top + Cardinality(new)
           /\ Seqs(new) = (top + 1)..top'
           /\ \A i \in 1..Len(r.msgs) :
                 IF r.msgs[i].ext = NoExt
                 THEN \E w \in new : w.key = r.key /\ w.pos = i
                 ELSE \E w \in log' : w.ext = r.msgs[i].ext
           /\ \A w \in new :
                 /\ \E i \in 1..Len(r.msgs) :
                       /\ w.ext = r.msgs[i].ext
                       /\ w.text = r.msgs[i].text
                       /\ w.tools = r.msgs[i].tools
                 /\ w.session = r.session
                 /\ w.ext # NoExt => w.ext \notin {v.ext : v \in log}
           /\ \A v, w \in new :
                 v.key = r.key /\ w.key = r.key /\ v.pos < w.pos => v.seq < w.seq
    /\ UNCHANGED saved

Wipe == log' = {} /\ accepted' = {} /\ UNCHANGED <<top, saved>>

Save == saved' = saved \cup {log} /\ UNCHANGED <<log, accepted, top>>

(* One batch of an import: the next rows of the file, under their old      *)
(* numbers.                                                                *)
Load(file) ==
    /\ accepted = {}
    /\ log \subseteq log'
    /\ log' \subseteq file
    /\ \A v \in log, w \in log' \ log : v.seq < w.seq
    /\ \A v \in file \ log', w \in log' : w.seq < v.seq
    /\ top' \in {top} \cup Seqs(log')
    /\ \A q \in {top} \cup Seqs(log') : q <= top'
    /\ UNCHANGED <<accepted, saved>>

LogNext ==
    \/ \E r \in Requests : Accept(r)
    \/ Wipe
    \/ Save
    \/ \E file \in saved : Load(file)

LogSpec == LogInit /\ [][LogNext]_logVars
=============================================================================
