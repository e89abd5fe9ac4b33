----------------------------- MODULE IngestBatch -----------------------------
(***************************************************************************)
(* The pure part of ingest(): what one validated batch does to the rows of *)
(* the messages and ingest_receipts tables (ingest.py, _ingest_locked).    *)
(*                                                                         *)
(* A request is a record [key, session, msgs]: its idempotency key, the    *)
(* session metadata of the whole batch and the ordered messages the caller *)
(* submitted.  A message is [ext, text, tools]: its external id (NoExt     *)
(* when the caller gave none), what its role, content and own metadata     *)
(* say, and its tool calls.  Keys and external ids stand for the pairs     *)
(* <<source_id, .>> the tables index.                                      *)
(*                                                                         *)
(* The insert loop is given in closed form, not as a recursion: whether a  *)
(* message is inserted depends on the rows already stored and on the       *)
(* earlier messages of the batch only, so theorems can be proved of it.    *)
(***************************************************************************)
EXTENDS Naturals, Sequences, FiniteSets

CONSTANTS
    NoExt,      \* external_id IS NULL
    NoKey       \* idempotency_key IS NULL, of rows that have an external id

Positions(r) == 1..Len(r.msgs)

(* The columns of a stored message.  Its random message_id adds nothing:   *)
(* sequence numbers identify the rows of one store.                        *)
Row(seq, r, i) ==
    LET m == r.msgs[i]
    IN  [seq  |-> seq,
         ext  |-> m.ext,
         key  |-> IF m.ext = NoExt THEN r.key ELSE NoKey,
         pos  |-> IF m.ext = NoExt THEN i ELSE 0,
         text |-> m.text, tools |-> m.tools,
         session |-> r.session]

(* message_payload: what the message says itself, without its external id; *)
(* the session metadata of the batch has a column of its own.              *)
Payload(m) == <<m.text, m.tools>>

(* Variant: the session metadata is left out.                              *)
RequestHashOfMessages(r) ==
    <<[i \in Positions(r) |-> <<r.msgs[i].ext, r.msgs[i].text>>]>>

(* compute_request_hash covers the session metadata, texts and external    *)
(* ids, and not the tool calls.                                            *)
RequestHash(r) ==
    <<r.session, [i \in Positions(r) |-> <<r.msgs[i].ext, r.msgs[i].text>>]>>

(* The row that already holds an external id. *)
Stored(rows, ext) == \E w \in rows : w.ext = ext

(* The MessageConflict check, made against the stored rows before any      *)
(* insert.  A message that comes again under other session metadata does   *)
(* not conflict: it is skipped, and the first session stays.               *)
Conflicts(rows, r) ==
    \E i \in Positions(r), w \in rows :
        /\ r.msgs[i].ext # NoExt
        /\ w.ext = r.msgs[i].ext
        /\ <<w.text, w.tools>> # Payload(r.msgs[i])

(* Variant: an external_id of NULL is looked up like any other.            *)
SkipAtNullToo(rows, r, i) ==
    \/ Stored(rows, r.msgs[i].ext)
    \/ \E j \in 1..(i - 1) : r.msgs[j].ext = r.msgs[i].ext

(* The insert loop skips a message whose external id is stored, by an      *)
(* earlier batch or by an earlier message of this one.                     *)
SkipAt(rows, r, i) ==
    /\ r.msgs[i].ext # NoExt
    /\ \/ Stored(rows, r.msgs[i].ext)
       \/ \E j \in 1..(i - 1) : r.msgs[j].ext = r.msgs[i].ext

Inserted(rows, r) == {i \in Positions(r) : ~SkipAt(rows, r, i)}

(* Variant: next_seq starts at the high-water mark, not behind it.         *)
SeqAtFromTop(rows, top, r, i) ==
    top + Cardinality({j \in Inserted(rows, r) : j < i})

(* next_seq when the loop inserts position i, from high-water mark top. *)
SeqAt(rows, top, r, i) ==
    top + Cardinality({j \in Inserted(rows, r) : j <= i})

NewRows(rows, top, r) ==
    {Row(SeqAt(rows, top, r, i), r, i) : i \in Inserted(rows, r)}

(* Variant: skipped messages use up numbers too. *)
LastSeqOfAll(rows, top, r) == top + Len(r.msgs)

LastSeq(rows, top, r) == top + Cardinality(Inserted(rows, r))

(* The ingest_receipts row: a range of 0 to 0 stands for the NULLs of a    *)
(* batch that inserted nothing.                                            *)
Receipt(rows, top, r) ==
    LET none == Inserted(rows, r) = {}
    IN  [key     |-> r.key,
         hash    |-> RequestHash(r),
         first   |-> IF none THEN 0 ELSE top + 1,
         last    |-> IF none THEN 0 ELSE LastSeq(rows, top, r),
         skipped |-> Len(r.msgs) - Cardinality(Inserted(rows, r))]

(* The partial unique index on (idempotency_key, position_in_batch): a row *)
(* already holds this batch identity, with no receipt to say so.           *)
IdentityTaken(rows, r) ==
    \E i \in Inserted(rows, r), w \in rows :
        r.msgs[i].ext = NoExt /\ w.key = r.key /\ w.pos = i

(* What ingest() answers, in the order the code checks. *)
IngestOutcome(rows, receipts, r) ==
    IF \E c \in receipts : c.key = r.key
    THEN IF \E c \in receipts : c.key = r.key /\ c.hash = RequestHash(r)
         THEN "replayed"
         ELSE "IdempotencyConflict"
    ELSE IF Conflicts(rows, r) THEN "MessageConflict"
    ELSE IF IdentityTaken(rows, r) THEN "StoreError"
    ELSE "inserted"

=============================================================================
