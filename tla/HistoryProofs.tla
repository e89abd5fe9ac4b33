---------------------------- MODULE HistoryProofs ----------------------------
(***************************************************************************)
(* Proofs about the history store and its readers, for any number of       *)
(* tasks, any requests and files, failures and crashes.                    *)
(*                                                                         *)
(* 1. HistoryStore: its types, write_lock's protection of the one          *)
(*    connection, the lockstep of the revisions, the numbering of          *)
(*    messages, the truth of receipts and the seclusion of an import.      *)
(* 2. What callers rely on: acknowledged messages are kept, the tree       *)
(*    describes the history, and the store implements ConversationLog.     *)
(* 3. ContextReaders, for any number of readers and writers: what          *)
(*    retrieve() returns is of its snapshot, and is stored when it is      *)
(*    returned, also inside of a prepared context.                         *)
(***************************************************************************)
EXTENDS ContextReaders, SetsAndQueues

-----------------------------------------------------------------------------
(* 1. The store                                                            *)

(* The numbers of a batch *)

(* A batch inserts finitely many of its messages. *)
LEMMA InsertedFinite ==
    ASSUME NEW rows, NEW r, Len(r.msgs) \in Nat
    PROVE  /\ Inserted(rows, r) \subseteq 1..Len(r.msgs)
           /\ IsFiniteSet(Inserted(rows, r))
           /\ Cardinality(Inserted(rows, r)) \in Nat
<1>1. Inserted(rows, r) \subseteq 1..Len(r.msgs)
    BY DEF Inserted, Positions
<1>2. IsFiniteSet(1..Len(r.msgs))
    BY FS_Interval
<1>3. QED
    BY <1>1, <1>2, FS_Subset, FS_CardinalityType

(* The numbers of a batch lie behind the high-water mark, up to the new    *)
(* one, and grow with the position in the batch.                           *)
LEMMA SeqAtGrows ==
    ASSUME NEW rows, NEW r, Len(r.msgs) \in Nat, NEW top \in Nat
    PROVE  /\ LastSeq(rows, top, r) \in Nat
           /\ top <= LastSeq(rows, top, r)
           /\ \A i \in Inserted(rows, r) :
                 SeqAt(rows, top, r, i) \in (top + 1)..LastSeq(rows, top, r)
           /\ \A i, j \in Inserted(rows, r) :
                 i < j => SeqAt(rows, top, r, i) < SeqAt(rows, top, r, j)
<1> DEFINE I == Inserted(rows, r)
           upto(i) == {j \in I : j <= i}
<1>1. I \subseteq 1..Len(r.msgs) /\ IsFiniteSet(I) /\ Cardinality(I) \in Nat
    BY InsertedFinite
<1>2. \A i \in I : /\ IsFiniteSet(upto(i))
                   /\ Cardinality(upto(i)) \in Nat
                   /\ Cardinality(upto(i)) <= Cardinality(I)
    BY <1>1, FS_Subset, FS_CardinalityType
<1>3. ASSUME NEW i \in I
      PROVE  Cardinality(upto(i)) # 0
    <2>1. i \in upto(i)
        BY <1>1
    <2>2. QED
        BY <2>1, <1>2, FS_EmptySet
<1>4. ASSUME NEW i \in I, NEW j \in I, i < j
      PROVE  Cardinality(upto(i)) < Cardinality(upto(j))
    <2>1. upto(i) \subseteq upto(j) /\ j \in upto(j) /\ j \notin upto(i)
        BY <1>1, <1>4
    <2>2. Cardinality(upto(i)) <= Cardinality(upto(j))
        BY <2>1, <1>2, FS_Subset
    <2>3. Cardinality(upto(i)) # Cardinality(upto(j))
        BY <2>1, <1>2, FS_Subset
    <2>4. Cardinality(upto(i)) \in Nat /\ Cardinality(upto(j)) \in Nat
        BY <1>2
    <2> HIDE DEF upto
    <2>5. QED
        BY <2>2, <2>3, <2>4
<1>5. LastSeq(rows, top, r) = top + Cardinality(I)
    BY DEF LastSeq
<1>6. \A i \in I : SeqAt(rows, top, r, i) = top + Cardinality(upto(i))
    BY DEF SeqAt
<1> HIDE DEF I, upto
<1>7. \A i \in I : SeqAt(rows, top, r, i) \in (top + 1)..LastSeq(rows, top, r)
    BY <1>1, <1>2, <1>3, <1>5, <1>6
<1>8. \A i, j \in I : i < j => SeqAt(rows, top, r, i) < SeqAt(rows, top, r, j)
    BY <1>2, <1>4, <1>6
<1>9. QED
    BY <1>1, <1>5, <1>7, <1>8 DEF I

(* They leave no gap: as many different numbers as the range has.          *)
LEMMA SeqAtOnto ==
    ASSUME NEW rows, NEW r, Len(r.msgs) \in Nat, NEW top \in Nat
    PROVE  {SeqAt(rows, top, r, i) : i \in Inserted(rows, r)}
             = (top + 1)..LastSeq(rows, top, r)
<1> DEFINE I == Inserted(rows, r)
           R == (top + 1)..LastSeq(rows, top, r)
           f == [i \in I |-> SeqAt(rows, top, r, i)]
<1>1. I \subseteq 1..Len(r.msgs) /\ IsFiniteSet(I) /\ Cardinality(I) \in Nat
    BY InsertedFinite
<1>2. LastSeq(rows, top, r) = top + Cardinality(I)
    BY DEF LastSeq
<1>3. IsFiniteSet(R) /\ Cardinality(R) = Cardinality(I)
    BY <1>1, <1>2, FS_Interval
<1>4. f \in [I -> R]
    BY SeqAtGrows
<1>5. \A i, j \in I : i # j => f[i] # f[j]
    <2>1. ASSUME NEW i \in I, NEW j \in I, i < j
          PROVE  f[i] # f[j]
        <3>1. f[i] \in Int /\ f[j] \in Int
            BY <1>4, <1>2, <1>1
        <3>2. SeqAt(rows, top, r, i) < SeqAt(rows, top, r, j)
            BY <2>1, SeqAtGrows
        <3>3. QED
            BY <3>1, <3>2
    <2>2. \A i, j \in I : i # j => i < j \/ j < i
        BY <1>1
    <2>3. QED
        BY <2>1, <2>2
<1>6. f \in Injection(I, R)
    BY <1>4, <1>5 DEF Injection, IsInjective
<1>7. f \in Surjection(I, R)
    BY <1>6, <1>3, FS_Injection
<1>8. QED
    BY <1>4, <1>7 DEF Surjection

(* What ingest() inserts: finitely many rows, whose numbers are those from *)
(* the old high-water mark to the new one, each held by one row.           *)
THEOREM NewRowsNumbered ==
    ASSUME NEW rows, NEW r, Len(r.msgs) \in Nat, NEW top \in Nat
    PROVE  /\ IsFiniteSet(NewRows(rows, top, r))
           /\ {w.seq : w \in NewRows(rows, top, r)} = (top + 1)..LastSeq(rows, top, r)
           /\ \A v, w \in NewRows(rows, top, r) : v.seq = w.seq => v = w
<1> DEFINE I == Inserted(rows, r)
           row(i) == Row(SeqAt(rows, top, r, i), r, i)
           f == [i \in I |-> row(i)]
<1>1. I \subseteq 1..Len(r.msgs) /\ IsFiniteSet(I)
    BY InsertedFinite
<1>2. NewRows(rows, top, r) = {row(i) : i \in I}
    BY DEF NewRows
<1>3. \A i \in I : row(i).seq = SeqAt(rows, top, r, i)
    BY DEF Row
<1>4. /\ \A i \in I : SeqAt(rows, top, r, i) \in (top + 1)..LastSeq(rows, top, r)
      /\ \A i, j \in I : i < j => SeqAt(rows, top, r, i) < SeqAt(rows, top, r, j)
      /\ LastSeq(rows, top, r) \in Nat
    BY SeqAtGrows
<1>5. (top + 1)..LastSeq(rows, top, r) = {SeqAt(rows, top, r, i) : i \in I}
    BY SeqAtOnto
<1> HIDE DEF row, I
<1>6. f \in Surjection(I, NewRows(rows, top, r))
    BY <1>2 DEF Surjection
<1>7. IsFiniteSet(NewRows(rows, top, r))
    BY <1>1, <1>6, FS_Surjection
<1>8. {w.seq : w \in NewRows(rows, top, r)} = (top + 1)..LastSeq(rows, top, r)
    <2>1. \A w \in NewRows(rows, top, r) : w.seq \in (top + 1)..LastSeq(rows, top, r)
        BY <1>2, <1>3, <1>4
    <2>2. \A i \in I : row(i) \in NewRows(rows, top, r)
        BY <1>2
    <2>3. QED
        BY <2>1, <2>2, <1>3, <1>5
<1>9. ASSUME NEW v \in NewRows(rows, top, r), NEW w \in NewRows(rows, top, r),
             v.seq = w.seq
      PROVE  v = w
    <2>1. PICK i \in I, j \in I : v = row(i) /\ w = row(j)
        BY <1>2
    <2>2. SeqAt(rows, top, r, i) = SeqAt(rows, top, r, j)
        BY <2>1, <1>3, <1>9
    <2>3. SeqAt(rows, top, r, i) \in Int /\ SeqAt(rows, top, r, j) \in Int
        BY <1>4
    <2>4. ~(i < j) /\ ~(j < i)
        BY <2>2, <2>3, <1>4
    <2>5. i = j
        BY <2>4, <1>1
    <2>6. QED
        BY <2>1, <2>5
<1>10. QED
    BY <1>7, <1>8, <1>9

-----------------------------------------------------------------------------
(* The inductive invariant *)

Columns == {"historyRevision", "searchRevision", "indexRevision",
            "cacheGeneration", "committedSeq", "highWater",
            "messages", "receipts", "leaves"}

(* Finitely many rows, numbered from 1, no two with one number. *)
Numbered(rows) ==
    /\ IsFiniteSet(rows)
    /\ \A m \in rows : m.seq \in Nat \ {0}
    /\ \A v, w \in rows : v.seq = w.seq => v = w

(* What every state of the database satisfies, between transactions and    *)
(* inside of one.                                                          *)
StoreInv(s) ==
    /\ DOMAIN s = Columns
    /\ StoreType(s)
    /\ Intact(s)
    /\ Numbered(s.messages)
    /\ \A m \in s.messages : m.seq <= s.highWater
    /\ \A c \in s.receipts :
          c.last > 0 => c.first..c.last \subseteq SeqsOf(s.messages)

(* The places where a task holds write_lock between two of its steps. *)
Locking == Committing \cup {"import.first", "import.next"}

LockInv ==
    /\ \A t \in Tasks : pc[t] \in Locking <=> lock = t
    /\ woken \subseteq AtGate

MarkInv ==
    /\ IssuedBelowHighWater
    /\ disk.highWater <= conn.highWater

RequestInv ==
    \A t \in Tasks :
        pc[t] \in {"ingest.gate", "ingest.lock", "ingest.commit"} => req[t] \in Requests

FileInv ==
    /\ \A file \in files : Numbered(file)
    /\ DOMAIN todo = Tasks
    /\ \A t \in Tasks : Numbered(todo[t])

(* The rows an import has inserted and those it has still to insert are    *)
(* those of one file, and nothing has written since its last batch.        *)
ImportInv ==
    /\ DOMAIN expected = Tasks
    /\ \A t \in Tasks :
          pc[t] \in {"import.commit", "import.next"} =>
              /\ expected[t] = conn.historyRevision
              /\ Numbered(conn.messages \cup todo[t])

Snapshot(p) ==
    /\ DOMAIN p = {"historyRevision", "indexRevision", "cacheGeneration",
                   "rows", "leaves", "ends"}
    /\ Numbered(p.rows)
    /\ \A l \in p.leaves : l.lo \in Nat /\ l.hi \in Nat

SnapInv ==
    /\ DOMAIN snap = Tasks
    /\ \A t \in Tasks :
          /\ pc[t] \in {"index.gate", "index.propose", "index.publish"} =>
                 Snapshot(snap[t])
          /\ pc[t] = "index.publish" =>
                 snap[t].ends # {} /\ snap[t].ends \subseteq SeqsOf(snap[t].rows)

IInv ==
    /\ TypeOK
    /\ StoreInv(disk) /\ StoreInv(conn)
    /\ LockInv
    /\ DirtyOnlyUnderLock
    /\ MarkInv
    /\ RequestInv
    /\ FileInv
    /\ ImportInv
    /\ SnapInv

-----------------------------------------------------------------------------
(* Rows and their numbers *)

(* Some of a set of numbered rows are numbered rows. *)
LEMMA NumberedSubset ==
    ASSUME NEW T, Numbered(T), NEW S \in SUBSET T
    PROVE  Numbered(S)
    BY FS_Subset DEF Numbered

(* The numbers of numbered rows are a finite set of numbers. *)
LEMMA SeqsFinite ==
    ASSUME NEW rows, Numbered(rows)
    PROVE  /\ SeqsOf(rows) \in SUBSET Nat
           /\ IsFiniteSet(SeqsOf(rows))
           /\ rows # {} => SeqsOf(rows) # {}
<1> DEFINE f == [m \in rows |-> m.seq]
<1>1. f \in Surjection(rows, SeqsOf(rows))
    BY DEF Surjection, SeqsOf
<1>2. IsFiniteSet(SeqsOf(rows))
    BY <1>1, FS_Surjection DEF Numbered
<1>3. QED
    BY <1>2 DEF Numbered, SeqsOf

-----------------------------------------------------------------------------
(* Each operation keeps StoreInv. *)

(* A store that open() has just created. *)
LEMMA EmptyStoreInv == StoreInv(EmptyStore)
    BY FS_EmptySet, BoundsAssumption
    DEF StoreInv, EmptyStore, Columns, StoreType, Intact, Numbered

(* The statements of an ingest() keep it and never lower the mark. *)
LEMMA AfterIngestInv ==
    ASSUME NEW s, StoreInv(s), NEW r \in Requests, s.historyRevision < MaxRevision
    PROVE  /\ StoreInv(AfterIngest(s, r))
           /\ s.highWater <= AfterIngest(s, r).highWater
<1> DEFINE new == NewRows(s.messages, s.highWater, r)
           last == LastSeq(s.messages, s.highWater, r)
           receipt == Receipt(s.messages, s.highWater, r)
           a == AfterIngest(s, r)
<1>1. Len(r.msgs) \in Nat /\ s.highWater \in Nat
    BY RequestsAssumption DEF StoreInv, StoreType
<1>2. /\ IsFiniteSet(new)
      /\ SeqsOf(new) = (s.highWater + 1)..last
      /\ \A v, w \in new : v.seq = w.seq => v = w
    BY <1>1, NewRowsNumbered DEF SeqsOf
<1>3. last \in Nat /\ s.highWater <= last
    BY <1>1, SeqAtGrows
<1>4. /\ DOMAIN a = Columns
      /\ a.historyRevision = s.historyRevision + 1
      /\ a.searchRevision = s.searchRevision + 1
      /\ a.indexRevision = s.indexRevision
      /\ a.cacheGeneration = s.cacheGeneration
      /\ a.committedSeq = s.committedSeq
      /\ a.highWater = last
      /\ a.messages = s.messages \cup new
      /\ a.receipts = s.receipts \cup {receipt}
      /\ a.leaves = s.leaves
    BY DEF StoreInv, Columns, AfterIngest
<1>5. /\ receipt.first \in Nat /\ receipt.last \in Nat
      /\ receipt.last > 0 => receipt.first..receipt.last = SeqsOf(new)
    BY <1>1, <1>2, <1>3 DEF Receipt
<1> HIDE DEF new, last, receipt, a
<1>6. \A w \in new : w.seq \in (s.highWater + 1)..last
    BY <1>2 DEF SeqsOf
<1>7. Numbered(a.messages)
    <2>1. IsFiniteSet(a.messages)
        <3>1. IsFiniteSet(s.messages)
            BY DEF StoreInv, Numbered
        <3>2. IsFiniteSet(s.messages \cup new)
            BY <3>1, <1>2, FS_Union
        <3>3. QED
            BY <3>2, <1>4
    <2>2. \A m \in a.messages : m.seq \in Nat \ {0}
        BY <1>1, <1>3, <1>4, <1>6 DEF StoreInv, Numbered
    <2>3. \A v \in s.messages, w \in new : v.seq # w.seq
        BY <1>1, <1>3, <1>6 DEF StoreInv, Numbered
    <2>4. \A v, w \in a.messages : v.seq = w.seq => v = w
        BY <1>2, <1>4, <2>3 DEF StoreInv, Numbered
    <2>5. QED
        BY <2>1, <2>2, <2>4 DEF Numbered
<1>8. \A m \in a.messages : m.seq <= a.highWater
    BY <1>1, <1>3, <1>4, <1>6 DEF StoreInv, Numbered
<1>9. \A c \in a.receipts :
          c.last > 0 => c.first..c.last \subseteq SeqsOf(a.messages)
    <2>1. SeqsOf(s.messages) \subseteq SeqsOf(a.messages)
        BY <1>4 DEF SeqsOf
    <2>2. SeqsOf(new) \subseteq SeqsOf(a.messages)
        BY <1>4 DEF SeqsOf
    <2>3. QED
        BY <1>4, <1>5, <2>1, <2>2 DEF StoreInv
<1>10. StoreType(a)
    BY <1>3, <1>4, <1>5, <1>7, BoundsAssumption DEF StoreType, StoreInv, Numbered
<1>11. Intact(a)
    BY <1>4 DEF StoreInv, StoreType, Intact
<1>12. StoreInv(a)
    BY <1>4, <1>7, <1>8, <1>9, <1>10, <1>11 DEF StoreInv
<1>13. QED
    BY <1>3, <1>4, <1>12 DEF a

(* The statements of a clear keep it, and the high-water mark. *)
LEMMA AfterClearInv ==
    ASSUME NEW s, StoreInv(s),
           s.historyRevision < MaxRevision, s.indexRevision < MaxRevision
    PROVE  /\ StoreInv(AfterClear(s))
           /\ AfterClear(s).highWater = s.highWater
<1> DEFINE a == AfterClear(s)
<1>1. /\ DOMAIN a = Columns
      /\ a.historyRevision = s.historyRevision + 1
      /\ a.searchRevision = s.searchRevision + 1
      /\ a.indexRevision = s.indexRevision + 1
      /\ a.cacheGeneration = s.cacheGeneration + 1
      /\ a.committedSeq = 0
      /\ a.highWater = s.highWater
      /\ a.messages = {} /\ a.receipts = {} /\ a.leaves = {}
    BY DEF StoreInv, Columns, AfterClear
<1> HIDE DEF a
<1>2. Numbered(a.messages)
    BY <1>1, FS_EmptySet DEF Numbered
<1>3. StoreType(a)
    BY <1>1, <1>2, BoundsAssumption DEF StoreInv, StoreType, Numbered
<1>4. Intact(a)
    BY <1>1 DEF StoreInv, StoreType, Intact
<1>5. StoreInv(a)
    BY <1>1, <1>2, <1>3, <1>4 DEF StoreInv
<1>6. QED
    BY <1>1, <1>5 DEF a

(* So does a batch of an import that repeats no stored number. *)
LEMMA AfterImportBatchInv ==
    ASSUME NEW s, StoreInv(s), NEW batch, Numbered(s.messages \cup batch),
           s.historyRevision < MaxRevision
    PROVE  LET a == AfterImportBatch(s, batch)
           IN  /\ StoreInv(a)
               /\ s.highWater <= a.highWater
               /\ a.historyRevision = s.historyRevision + 1
               /\ a.messages = s.messages \cup batch
<1> DEFINE a == AfterImportBatch(s, batch)
           marks == {s.highWater} \cup SeqsOf(batch)
<1>1. /\ DOMAIN a = Columns
      /\ a.historyRevision = s.historyRevision + 1
      /\ a.searchRevision = s.searchRevision + 1
      /\ a.indexRevision = s.indexRevision
      /\ a.cacheGeneration = s.cacheGeneration
      /\ a.committedSeq = s.committedSeq
      /\ a.highWater = Max(marks)
      /\ a.messages = s.messages \cup batch
      /\ a.receipts = s.receipts
      /\ a.leaves = s.leaves
    BY DEF StoreInv, Columns, AfterImportBatch
<1>2. Numbered(batch)
    BY NumberedSubset
<1>3. s.highWater \in Nat
    BY DEF StoreInv, StoreType
<1>4. marks \in SUBSET Nat /\ IsFiniteSet(marks) /\ marks # {}
    BY <1>2, <1>3, SeqsFinite, FS_Singleton, FS_Union
<1>5. Max(marks) \in marks /\ \A x \in marks : x <= Max(marks)
    BY <1>4, MaxOfFinite
<1>6. /\ Max(marks) \in Nat /\ s.highWater <= Max(marks)
      /\ \A m \in batch : m.seq <= Max(marks)
    BY <1>4, <1>5 DEF SeqsOf
<1> HIDE DEF a, marks
<1>7. \A m \in a.messages : m.seq <= a.highWater
    <2>1. \A m \in s.messages : m.seq <= s.highWater /\ m.seq \in Nat
        BY DEF StoreInv, Numbered
    <2>2. QED
        BY <1>1, <1>3, <1>6, <2>1
<1>8. \A c \in a.receipts :
          c.last > 0 => c.first..c.last \subseteq SeqsOf(a.messages)
    <2>1. SeqsOf(s.messages) \subseteq SeqsOf(a.messages)
        BY <1>1 DEF SeqsOf
    <2>2. QED
        BY <1>1, <2>1 DEF StoreInv
<1>9. StoreType(a)
    BY <1>1, <1>6, BoundsAssumption DEF StoreInv, StoreType, Numbered
<1>10. Intact(a)
    BY <1>1 DEF StoreInv, StoreType, Intact
<1>11. StoreInv(a)
    BY <1>1, <1>7, <1>8, <1>9, <1>10 DEF StoreInv
<1>12. QED
    BY <1>1, <1>6, <1>11 DEF a

(* A chunk is not empty: the message at its end is in it. *)
LEMMA NewLeafBounds ==
    ASSUME NEW rows, Numbered(rows), NEW ends \in SUBSET SeqsOf(rows), NEW e \in ends
    PROVE  LET l == NewLeaf(ChunkRows(rows, ends, e))
           IN  l.lo \in Nat /\ l.hi \in Nat
<1> DEFINE c == ChunkRows(rows, ends, e)
<1>1. \E m \in rows : m.seq = e
    BY DEF SeqsOf
<1>2. c # {}
    BY <1>1 DEF ChunkRows, Numbered
<1>3. Numbered(c)
    BY NumberedSubset DEF ChunkRows
<1>4. SeqsOf(c) \in SUBSET Nat /\ IsFiniteSet(SeqsOf(c)) /\ SeqsOf(c) # {}
    BY <1>2, <1>3, SeqsFinite
<1>5. Min(SeqsOf(c)) \in Nat /\ Max(SeqsOf(c)) \in Nat
    BY <1>4, MinOfNats, MaxOfFinite
<1>6. QED
    BY <1>5 DEF NewLeaf

(* So does the publication of a proposal made from numbered rows. *)
LEMMA AfterPublishInv ==
    ASSUME NEW s, StoreInv(s), s.indexRevision < MaxRevision,
           NEW p, Snapshot(p), p.ends # {}, p.ends \subseteq SeqsOf(p.rows)
    PROVE  /\ StoreInv(AfterPublish(s, p))
           /\ AfterPublish(s, p).highWater = s.highWater
<1> DEFINE a == AfterPublish(s, p)
           new == {NewLeaf(ChunkRows(p.rows, p.ends, e)) : e \in p.ends}
<1>1. /\ DOMAIN a = Columns
      /\ a.historyRevision = s.historyRevision
      /\ a.searchRevision = s.searchRevision
      /\ a.indexRevision = s.indexRevision + 1
      /\ a.cacheGeneration = s.cacheGeneration
      /\ a.committedSeq = Max(p.ends)
      /\ a.highWater = s.highWater
      /\ a.messages = s.messages
      /\ a.receipts = s.receipts
      /\ a.leaves = p.leaves \cup new
    BY DEF StoreInv, Columns, AfterPublish
<1>2. Max(p.ends) \in Nat
    <2>1. Numbered(p.rows)
        BY DEF Snapshot
    <2>2. p.ends \in SUBSET Nat /\ IsFiniteSet(p.ends)
        BY <2>1, SeqsFinite, FS_Subset
    <2>3. QED
        BY <2>2, MaxOfFinite
<1>3. \A l \in new : l.lo \in Nat /\ l.hi \in Nat
    BY NewLeafBounds DEF Snapshot
<1> HIDE DEF a, new
<1>4. StoreType(a)
    BY <1>1, <1>2, <1>3, BoundsAssumption DEF StoreInv, StoreType, Snapshot
<1>5. Intact(a)
    BY <1>1 DEF StoreInv, Intact
<1>6. StoreInv(a)
    BY <1>1, <1>4, <1>5 DEF StoreInv
<1>7. QED
    BY <1>1, <1>6 DEF a

-----------------------------------------------------------------------------
(* The invariant holds initially, and every step preserves it. *)

(* A new store, with no task under way, satisfies it. *)
LEMMA InitInv == Init => IInv
<1> SUFFICES ASSUME Init PROVE IInv
    OBVIOUS
<1> USE DEF Init
<1>1. StoreInv(disk) /\ StoreInv(conn)
    BY EmptyStoreInv
<1>2. TypeOK
    <2>1. StoreType(disk) /\ StoreType(conn)
        BY <1>1 DEF StoreInv
    <2>2. QED
        BY <2>1 DEF TypeOK, Places
<1>3. LockInv
    BY RequestsAssumption DEF LockInv, Locking, Committing
<1>4. DirtyOnlyUnderLock
    BY DEF DirtyOnlyUnderLock
<1>5. MarkInv
    BY DEF MarkInv, IssuedBelowHighWater, EmptyStore
<1>6. RequestInv /\ ImportInv /\ SnapInv
    BY DEF RequestInv, ImportInv, SnapInv
<1>7. FileInv
    BY ForeignAssumption, FS_EmptySet DEF FileInv, Numbered
<1>8. QED
    BY <1>1, <1>2, <1>3, <1>4, <1>5, <1>6, <1>7 DEF IInv

(* A task that ends in the state that its transaction leaves: nothing was  *)
(* open, or disk and connection are the same again.                        *)
LEMMA FinishInv ==
    ASSUME IInv, NEW t \in Tasks, Finish(t),
           StoreInv(disk'), StoreInv(conn'),
           \/ lock # t /\ conn' = conn /\ disk' = disk
           \/ conn' = disk',
           lock = NoTask \/ lock = t \/ (conn' = conn /\ disk' = disk),
           files' = files,
           \A m \in issued' : m.seq \in Nat \ {0} /\ m.seq <= disk'.highWater
    PROVE  IInv'
<1> USE DEF IInv, Finish, GoTo, Holds
<1>1. pc' = [pc EXCEPT ![t] = "idle"] /\ pc \in [Tasks -> Places]
    BY DEF TypeOK
<1>2. TypeOK'
    <2>1. StoreType(disk)' /\ StoreType(conn)'
        BY DEF StoreInv
    <2>2. pc' \in [Tasks -> Places]
        BY <1>1 DEF Places
    <2>3. req' \in [Tasks -> Requests \cup {NoReq}]
        BY DEF TypeOK
    <2>4. /\ lock' \in Tasks \cup {NoTask}
          /\ gate' \in BOOLEAN
          /\ woken' \subseteq Tasks
          /\ inflight' \subseteq Tasks
        BY DEF TypeOK, AtGate
    <2>5. QED
        BY <2>1, <2>2, <2>3, <2>4 DEF TypeOK
<1>3. LockInv'
    <2>1. ASSUME NEW u \in Tasks
          PROVE  pc'[u] \in Locking <=> lock' = u
        BY <1>1, RequestsAssumption DEF LockInv, Locking, Committing
    <2>2. woken' \subseteq AtGate'
        BY <1>1 DEF LockInv, AtGate, IsClear
    <2>3. QED
        BY <2>1, <2>2 DEF LockInv
<1>4. DirtyOnlyUnderLock'
    BY <1>1, RequestsAssumption DEF DirtyOnlyUnderLock, LockInv, Locking, TypeOK
<1>5. MarkInv'
    BY DEF MarkInv, IssuedBelowHighWater, StoreInv, StoreType
<1>6. RequestInv'
    BY <1>1 DEF RequestInv, TypeOK
<1>7. FileInv'
    BY FS_EmptySet DEF FileInv, Numbered
<1>8. ImportInv'
    <2>1. SUFFICES ASSUME NEW u \in Tasks, pc'[u] \in {"import.commit", "import.next"}
                   PROVE  /\ expected'[u] = conn'.historyRevision
                          /\ Numbered(conn'.messages \cup todo'[u])
        BY DEF ImportInv
    <2>2. u # t /\ pc'[u] = pc[u]
        BY <1>1, <2>1
    <2>3. lock = u /\ lock # NoTask
        BY <2>1, <2>2, RequestsAssumption DEF LockInv, Locking, Committing
    <2>4. conn' = conn /\ todo'[u] = todo[u] /\ expected'[u] = expected[u]
        BY <2>2, <2>3 DEF FileInv, ImportInv
    <2>5. QED
        BY <2>1, <2>2, <2>4 DEF ImportInv
<1>9. SnapInv'
    BY <1>1 DEF SnapInv
<1>10. QED
    BY <1>2, <1>3, <1>4, <1>5, <1>6, <1>7, <1>8, <1>9

(* A task that moves on and leaves the database, write_lock and the files  *)
(* as they are.                                                            *)
LEMMA MoveInv ==
    ASSUME IInv, NEW t \in Tasks, NEW where \in Places,
           pc' = [pc EXCEPT ![t] = where],
           pc[t] \notin Locking, where \notin Locking,
           UNCHANGED <<disk, conn, lock, files, issued>>,
           gate' \in BOOLEAN, inflight' \subseteq Tasks, woken' \subseteq AtGate',
           req' \in [Tasks -> Requests \cup {NoReq}], RequestInv',
           FileInv', ImportInv', SnapInv'
    PROVE  IInv'
<1> USE DEF IInv
<1>1. TypeOK'
    <2>1. StoreType(disk)' /\ StoreType(conn)'
        BY DEF StoreInv
    <2>2. pc' \in [Tasks -> Places]
        BY DEF TypeOK
    <2>3. QED
        BY <2>1, <2>2 DEF TypeOK, AtGate
<1>2. StoreInv(disk)' /\ StoreInv(conn)'
    OBVIOUS
<1>3. LockInv'
    BY DEF LockInv, TypeOK
<1>4. DirtyOnlyUnderLock'
    BY DEF DirtyOnlyUnderLock, LockInv, Locking, TypeOK
<1>5. MarkInv'
    BY DEF MarkInv, IssuedBelowHighWater
<1>6. QED
    BY <1>1, <1>2, <1>3, <1>4, <1>5

(* A woken task is counted and goes on. *)
LEMMA PassGateInv ==
    ASSUME IInv, NEW t \in Tasks, PassGate(t)
    PROVE  IInv'
<1> USE DEF IInv
<1>1. pc[t] \in {"ingest.gate", "index.gate", "import.gate"}
    BY DEF PassGate, LockInv, AtGate
<1>2. PICK where \in {"ingest.lock", "index.propose", "import.lock"} :
          /\ pc' = [pc EXCEPT ![t] = where]
          /\ pc[t] = "ingest.gate" <=> where = "ingest.lock"
          /\ pc[t] = "index.gate" <=> where = "index.propose"
    BY <1>1 DEF PassGate, GoTo
<1>3. /\ gate' \in BOOLEAN
      /\ inflight' \subseteq Tasks
      /\ woken' \subseteq AtGate'
      /\ req' \in [Tasks -> Requests \cup {NoReq}]
    BY <1>2 DEF PassGate, TypeOK, LockInv, AtGate, taskVars
<1>4. RequestInv'
    BY <1>1, <1>2 DEF PassGate, RequestInv, TypeOK, taskVars
<1>5. FileInv' /\ ImportInv' /\ SnapInv'
    BY <1>1, <1>2 DEF PassGate, TypeOK, taskVars, FileInv, ImportInv, SnapInv
<1>6. QED
    BY <1>1, <1>2, <1>3, <1>4, <1>5, MoveInv
    DEF PassGate, Places, Locking, Committing

(* The calls of ingest(), index() and import_history(). *)
LEMMA CallInv ==
    ASSUME IInv, NEW t \in Tasks,
           \/ \E r \in Requests : IngestCall(t, r)
           \/ \E rebuild \in BOOLEAN : IndexCapture(t, rebuild)
           \/ \E file \in files : ImportCall(t, file)
    PROVE  IInv'
<1> USE DEF IInv, BeginWrite, GoTo
<1>1. pc[t] = "idle" /\ pc[t] \notin Locking
    BY DEF IngestCall, IndexCapture, ImportCall, Locking, Committing
<1>2. ASSUME NEW r \in Requests, IngestCall(t, r)
      PROVE  IInv'
    <2>1. PICK where \in {"ingest.gate", "ingest.lock"} :
              /\ pc' = [pc EXCEPT ![t] = where]
              /\ gate <=> where = "ingest.lock"
        BY <1>2 DEF IngestCall
    <2>2. /\ gate' \in BOOLEAN
          /\ inflight' \subseteq Tasks
          /\ woken' \subseteq AtGate'
          /\ req' \in [Tasks -> Requests \cup {NoReq}]
        BY <1>1, <1>2, <2>1 DEF IngestCall, TypeOK, LockInv, AtGate
    <2>3. RequestInv'
        BY <1>2, <2>1 DEF IngestCall, RequestInv, TypeOK
    <2>4. FileInv' /\ ImportInv' /\ SnapInv'
        BY <1>2, <2>1 DEF IngestCall, TypeOK, FileInv, ImportInv, SnapInv
    <2>5. QED
        BY <1>1, <1>2, <2>1, <2>2, <2>3, <2>4, MoveInv
        DEF IngestCall, Places, Locking, Committing
<1>3. ASSUME NEW rebuild \in BOOLEAN, IndexCapture(t, rebuild)
      PROVE  IInv'
    <2>1. PICK where \in {"index.gate", "index.propose"} :
              pc' = [pc EXCEPT ![t] = where]
        BY <1>3 DEF IndexCapture
    <2>2. /\ gate' \in BOOLEAN
          /\ inflight' \subseteq Tasks
          /\ woken' \subseteq AtGate'
          /\ req' \in [Tasks -> Requests \cup {NoReq}]
        BY <1>1, <1>3, <2>1 DEF IndexCapture, TypeOK, LockInv, AtGate
    <2>3. RequestInv'
        BY <1>3, <2>1 DEF IndexCapture, RequestInv, TypeOK
    <2>4. FileInv' /\ ImportInv'
        BY <1>3, <2>1 DEF IndexCapture, TypeOK, FileInv, ImportInv
    <2>5. SnapInv'
        <3>1. Snapshot(snap'[t])
            <4>1. PICK start :
                      snap'[t] = [historyRevision |-> conn.historyRevision,
                                  indexRevision   |-> conn.indexRevision,
                                  cacheGeneration |-> conn.cacheGeneration,
                                  rows   |-> {m \in conn.messages :
                                                  m.seq >= start /\ m.seq <= conn.highWater},
                                  leaves |-> IF rebuild THEN {} ELSE conn.leaves,
                                  ends   |-> {}]
                BY <1>3 DEF IndexCapture, SnapInv
            <4>2. Numbered(snap'[t].rows)
                BY <4>1, NumberedSubset DEF StoreInv
            <4>3. QED
                BY <4>1, <4>2 DEF Snapshot, StoreInv, StoreType
        <3>2. DOMAIN snap' = Tasks /\ \A u \in Tasks \ {t} : snap'[u] = snap[u]
            BY <1>3 DEF IndexCapture, SnapInv
        <3>3. QED
            BY <2>1, <3>1, <3>2 DEF SnapInv, TypeOK
    <2>6. QED
        BY <1>1, <1>3, <2>1, <2>2, <2>3, <2>4, <2>5, MoveInv
        DEF IndexCapture, Places, Locking, Committing
<1>4. ASSUME NEW file \in files, ImportCall(t, file)
      PROVE  IInv'
    <2>1. PICK where \in {"import.gate", "import.lock"} :
              pc' = [pc EXCEPT ![t] = where]
        BY <1>4 DEF ImportCall
    <2>2. /\ gate' \in BOOLEAN
          /\ inflight' \subseteq Tasks
          /\ woken' \subseteq AtGate'
          /\ req' \in [Tasks -> Requests \cup {NoReq}]
        BY <1>1, <1>4, <2>1 DEF ImportCall, TypeOK, LockInv, AtGate
    <2>3. RequestInv' /\ SnapInv'
        BY <1>4, <2>1 DEF ImportCall, RequestInv, SnapInv, TypeOK
    <2>4. FileInv' /\ ImportInv'
        BY <1>4, <2>1 DEF ImportCall, TypeOK, FileInv, ImportInv
    <2>5. QED
        BY <1>1, <1>4, <2>1, <2>2, <2>3, <2>4, MoveInv
        DEF ImportCall, Places, Locking, Committing
<1>5. QED
    BY <1>2, <1>3, <1>4

(* The proposal of an index() is made from the rows it has read. *)
LEMMA IndexProposeInv ==
    ASSUME IInv, NEW t \in Tasks, NEW ends \in SUBSET SeqsOf(snap[t].rows),
           IndexPropose(t, ends)
    PROVE  IInv'
<1> USE DEF IInv, IndexPropose, GoTo, syncVars
<1>1. Snapshot(snap[t]) /\ snap'[t] = [snap[t] EXCEPT !.ends = ends]
    BY DEF SnapInv
<1>2. Snapshot(snap'[t]) /\ snap'[t].ends = ends /\ snap'[t].rows = snap[t].rows
    BY <1>1 DEF Snapshot
<1>3. DOMAIN snap' = Tasks /\ \A u \in Tasks \ {t} : snap'[u] = snap[u]
    BY DEF SnapInv
<1>4. SnapInv'
    BY <1>2, <1>3 DEF SnapInv, TypeOK
<1>5. RequestInv' /\ FileInv' /\ ImportInv'
    BY DEF RequestInv, FileInv, ImportInv, TypeOK
<1>6. /\ gate' \in BOOLEAN
      /\ inflight' \subseteq Tasks
      /\ woken' \subseteq AtGate'
      /\ req' \in [Tasks -> Requests \cup {NoReq}]
    BY DEF TypeOK, LockInv, AtGate
<1>7. QED
    BY <1>4, <1>5, <1>6, MoveInv DEF Places, Locking, Committing

(* The steps of clear_history() before it has write_lock. *)
LEMMA ClearMoveInv ==
    ASSUME IInv, NEW t \in Tasks, ClearClose(t) \/ ClearDrained(t)
    PROVE  IInv'
<1> USE DEF IInv, ClearClose, ClearDrained, GoTo, syncVars, taskVars
<1>1. PICK where \in {"clear.drain", "clear.lock"} : pc' = [pc EXCEPT ![t] = where]
    OBVIOUS
<1>2. pc[t] \in {"idle", "clear.drain"}
    OBVIOUS
<1>3. RequestInv' /\ FileInv' /\ ImportInv' /\ SnapInv'
    BY <1>1 DEF RequestInv, FileInv, ImportInv, SnapInv, TypeOK
<1>4. /\ gate' \in BOOLEAN
      /\ inflight' \subseteq Tasks
      /\ woken' \subseteq AtGate'
      /\ req' \in [Tasks -> Requests \cup {NoReq}]
    BY <1>1, <1>2 DEF TypeOK, LockInv, AtGate
<1>5. QED
    BY <1>1, <1>2, <1>3, <1>4, MoveInv DEF Places, Locking, Committing

(* An export writes committed rows. *)
LEMMA ExportInv ==
    ASSUME IInv, NEW t \in Tasks, Export(t)
    PROVE  IInv'
<1> USE DEF IInv, Export, syncVars, taskVars
<1>1. TypeOK'
    BY DEF TypeOK
<1>2. LockInv' /\ DirtyOnlyUnderLock' /\ MarkInv'
    BY DEF LockInv, AtGate, DirtyOnlyUnderLock, MarkInv, IssuedBelowHighWater
<1>3. FileInv'
    BY DEF FileInv, StoreInv
<1>4. RequestInv' /\ ImportInv' /\ SnapInv'
    BY DEF RequestInv, ImportInv, SnapInv
<1>5. QED
    BY <1>1, <1>2, <1>3, <1>4

(* A task that finds write_lock free, takes it and changes the connection. *)
LEMMA BodyInv ==
    ASSUME IInv, NEW t \in Tasks, TakeLock(t),
           NEW where \in Locking, pc' = [pc EXCEPT ![t] = where],
           pc[t] \notin {"ingest.gate", "index.gate", "import.gate"},
           where = "ingest.commit" => req[t] \in Requests,
           where \notin {"import.commit", "import.next"},
           where \notin Committing => conn' = conn,
           StoreInv(conn'), conn.highWater <= conn'.highWater,
           UNCHANGED <<disk, taskVars, files, issued>>
    PROVE  IInv'
<1> USE DEF IInv, TakeLock, taskVars
<1>1. lock = NoTask /\ \A u \in Tasks : pc[u] \notin Locking
    BY RequestsAssumption DEF LockInv
<1>2. conn = disk
    BY <1>1 DEF DirtyOnlyUnderLock
<1>3. TypeOK'
    <2>1. StoreType(disk)' /\ StoreType(conn)'
        BY DEF StoreInv
    <2>2. pc' \in [Tasks -> Places]
        BY DEF TypeOK, Places, Locking, Committing
    <2>3. QED
        BY <2>1, <2>2 DEF TypeOK
<1>4. LockInv'
    <2>1. ASSUME NEW u \in Tasks
          PROVE  pc'[u] \in Locking <=> lock' = u
        BY <1>1 DEF TypeOK
    <2>2. woken' \subseteq AtGate'
        BY DEF LockInv, AtGate, TypeOK
    <2>3. QED
        BY <2>1, <2>2 DEF LockInv
<1>5. DirtyOnlyUnderLock'
    BY <1>2, RequestsAssumption DEF DirtyOnlyUnderLock, TypeOK
<1>6. MarkInv'
    BY <1>2 DEF MarkInv, IssuedBelowHighWater
<1>7. RequestInv'
    BY DEF RequestInv, TypeOK, Locking, Committing
<1>8. FileInv'
    BY DEF FileInv
<1>9. ImportInv'
    BY <1>1 DEF ImportInv, TypeOK, Locking, Committing
<1>10. SnapInv'
    BY DEF SnapInv, TypeOK, Locking, Committing
<1>11. QED
    BY <1>3, <1>4, <1>5, <1>6, <1>7, <1>8, <1>9, <1>10

(* The transactions that start with write_lock free. *)
LEMMA BodiesInv ==
    ASSUME IInv, NEW t \in Tasks,
           \/ IngestBody(t) \/ IndexPublish(t) \/ ClearBody(t) \/ ImportLock(t)
    PROVE  IInv'
<1> USE DEF GoTo
<1>1. StoreInv(conn) /\ RequestInv /\ SnapInv /\ conn.highWater \in Nat
    BY DEF IInv, StoreInv, StoreType
<1>2. CASE IngestBody(t)
    <2>1. req[t] \in Requests
        BY <1>1, <1>2 DEF IngestBody, RequestInv
    <2>2. StoreInv(conn') /\ conn.highWater <= conn'.highWater
        BY <1>1, <1>2, <2>1, AfterIngestInv DEF IngestBody
    <2>3. /\ pc[t] = "ingest.lock" /\ pc' = [pc EXCEPT ![t] = "ingest.commit"]
          /\ TakeLock(t)
          /\ UNCHANGED <<disk, taskVars, files, issued>>
        BY <1>2 DEF IngestBody, taskVars
    <2>4. QED
        BY <2>1, <2>2, <2>3, BodyInv DEF Locking, Committing
<1>3. CASE IndexPublish(t)
    <2>1. Snapshot(snap[t]) /\ snap[t].ends # {} /\ snap[t].ends \subseteq SeqsOf(snap[t].rows)
        BY <1>1, <1>3 DEF IndexPublish, SnapInv
    <2>2. StoreInv(conn') /\ conn.highWater <= conn'.highWater
        BY <1>1, <1>3, <2>1, AfterPublishInv DEF IndexPublish
    <2>3. /\ pc[t] = "index.publish" /\ pc' = [pc EXCEPT ![t] = "index.commit"]
          /\ TakeLock(t)
          /\ UNCHANGED <<disk, taskVars, files, issued>>
        BY <1>3 DEF IndexPublish
    <2>4. QED
        BY <2>2, <2>3, BodyInv DEF Locking, Committing
<1>4. CASE ClearBody(t)
    <2>1. StoreInv(conn') /\ conn.highWater <= conn'.highWater
        BY <1>1, <1>4, AfterClearInv DEF ClearBody
    <2>2. /\ pc[t] = "clear.lock" /\ pc' = [pc EXCEPT ![t] = "clear.commit"]
          /\ TakeLock(t)
          /\ UNCHANGED <<disk, taskVars, files, issued>>
        BY <1>4 DEF ClearBody
    <2>3. QED
        BY <2>1, <2>2, BodyInv DEF Locking, Committing
<1>5. CASE ImportLock(t)
    <2>1. StoreInv(conn') /\ conn.highWater <= conn'.highWater /\ conn' = conn
        BY <1>1, <1>5 DEF ImportLock
    <2>2. /\ pc[t] = "import.lock" /\ pc' = [pc EXCEPT ![t] = "import.first"]
          /\ TakeLock(t)
          /\ UNCHANGED <<disk, taskVars, files, issued>>
        BY <1>5 DEF ImportLock
    <2>3. QED
        BY <2>1, <2>2, BodyInv DEF Locking, Committing
<1>6. QED
    BY <1>2, <1>3, <1>4, <1>5

(* One batch of an import, whose task has held write_lock since before the *)
(* first one.                                                              *)
LEMMA ImportBodyInv ==
    ASSUME IInv, NEW t \in Tasks, ImportBody(t)
    PROVE  IInv'
<1> USE DEF IInv, ImportBody, GoTo, syncVars
<1> DEFINE batch == NextBatch(todo[t])
<1>1. lock = t /\ \A u \in Tasks \ {t} : pc[u] \notin Locking
    BY DEF LockInv, Locking
<1>2. batch \subseteq todo[t]
    BY DEF NextBatch
<1>3. conn = disk
    BY <1>1, RequestsAssumption DEF DirtyOnlyUnderLock, Committing
<1>4. Numbered(conn.messages \cup todo[t])
    <2>1. CASE pc[t] = "import.first"
        <3>1. conn.messages = {}
            BY <2>1 DEF ImportMayGoOn
        <3>2. conn.messages \cup todo[t] = todo[t]
            BY <3>1
        <3>3. QED
            BY <3>2 DEF FileInv
    <2>2. CASE pc[t] = "import.next"
        BY <2>2 DEF ImportInv
    <2>3. QED
        BY <2>1, <2>2
<1>5. Numbered(conn.messages \cup batch)
    BY <1>2, <1>4, NumberedSubset
<1>6. /\ StoreInv(conn')
      /\ conn.highWater <= conn'.highWater
      /\ conn'.historyRevision = conn.historyRevision + 1
      /\ conn'.messages = conn.messages \cup batch
    BY <1>5, AfterImportBatchInv
<1> HIDE DEF batch
<1>7. todo' = [todo EXCEPT ![t] = todo[t] \ batch]
    BY DEF batch
<1>8. pc' = [pc EXCEPT ![t] = "import.commit"]
    OBVIOUS
<1>9. TypeOK'
    <2>1. StoreType(disk)' /\ StoreType(conn)'
        BY <1>6 DEF StoreInv
    <2>2. pc' \in [Tasks -> Places]
        BY <1>8 DEF TypeOK, Places
    <2>3. QED
        BY <2>1, <2>2 DEF TypeOK
<1>10. LockInv' /\ DirtyOnlyUnderLock'
    <2>1. \A u \in Tasks : pc'[u] \in Locking <=> lock' = u
        BY <1>1, <1>8 DEF TypeOK, Locking, Committing
    <2>2. woken' \subseteq AtGate'
        BY <1>8 DEF LockInv, AtGate, TypeOK
    <2>3. DirtyOnlyUnderLock'
        BY <1>1, <1>8, RequestsAssumption DEF DirtyOnlyUnderLock, Committing, TypeOK
    <2>4. QED
        BY <2>1, <2>2, <2>3 DEF LockInv
<1>11. MarkInv'
    BY <1>3, <1>6 DEF MarkInv, IssuedBelowHighWater
<1>12. RequestInv' /\ SnapInv'
    BY <1>8 DEF RequestInv, SnapInv, TypeOK
<1>13. FileInv'
    <2>1. Numbered(todo[t] \ batch)
        BY NumberedSubset DEF FileInv
    <2>2. QED
        BY <1>7, <2>1 DEF FileInv
<1>14. ImportInv'
    <2>1. conn'.messages \cup todo'[t] = conn.messages \cup todo[t]
        BY <1>2, <1>6, <1>7 DEF FileInv, batch
    <2>2. expected'[t] = conn'.historyRevision /\ DOMAIN expected' = Tasks
        BY <1>6 DEF ImportInv
    <2>3. \A u \in Tasks \ {t} : pc'[u] \notin {"import.commit", "import.next"}
        BY <1>1, <1>8 DEF Locking, Committing, TypeOK
    <2>4. QED
        BY <1>4, <2>1, <2>2, <2>3 DEF ImportInv
<1>15. QED
    BY <1>6, <1>9, <1>10, <1>11, <1>12, <1>13, <1>14

(* What holds of the rows ever committed when a task commits: those of the *)
(* connection join them.                                                   *)
LEMMA CommitMarks ==
    ASSUME IInv, disk' = conn,
           issued' = issued \/ issued' = issued \cup conn.messages
    PROVE  \A m \in issued' : m.seq \in Nat \ {0} /\ m.seq <= disk'.highWater
<1>1. disk.highWater \in Nat /\ conn.highWater \in Nat /\ disk.highWater <= conn.highWater
    BY DEF IInv, StoreInv, StoreType, MarkInv
<1>2. \A m \in issued : m.seq \in Nat \ {0} /\ m.seq <= disk.highWater
    BY DEF IInv, TypeOK, MarkInv, IssuedBelowHighWater
<1>3. \A m \in conn.messages : m.seq \in Nat \ {0} /\ m.seq <= conn.highWater
    BY DEF IInv, StoreInv, StoreType
<1>4. QED
    BY <1>1, <1>2, <1>3

(* A task commits what its transaction changed, and ends. *)
LEMMA CommitInv ==
    ASSUME IInv, NEW t \in Tasks, pc[t] \in Committing, Finish(t),
           disk' = conn, conn' = conn, files' = files,
           issued' = issued \/ issued' = issued \cup conn.messages
    PROVE  IInv'
<1>1. lock = t
    BY DEF IInv, LockInv, Locking
<1>2. \A m \in issued' : m.seq \in Nat \ {0} /\ m.seq <= disk'.highWater
    BY CommitMarks
<1>3. StoreInv(disk') /\ StoreInv(conn') /\ conn' = disk'
    BY DEF IInv
<1>4. QED
    BY <1>1, <1>2, <1>3, FinishInv

(* A task that ends without a commit: its open transaction is rolled back. *)
LEMMA AbandonInv ==
    ASSUME IInv, NEW t \in Tasks, Finish(t),
           conn' = IF Holds(t) THEN disk ELSE conn,
           UNCHANGED <<disk, files, issued>>
    PROVE  IInv'
<1>1. \A m \in issued' : m.seq \in Nat \ {0} /\ m.seq <= disk'.highWater
    BY DEF IInv, TypeOK, MarkInv, IssuedBelowHighWater
<1>2. StoreInv(disk') /\ StoreInv(conn')
    BY DEF IInv
<1>3. \/ lock = t /\ conn' = disk'
      \/ lock # t /\ conn' = conn /\ disk' = disk
    BY DEF Holds
<1>4. files' = files
    OBVIOUS
<1>5. QED
    BY <1>1, <1>2, <1>3, <1>4, FinishInv

(* The steps that end a task and neither commit nor roll back. *)
LEMMA ReturnInv ==
    ASSUME IInv, NEW t \in Tasks,
           \/ IngestReplay(t) \/ IngestRefuse(t) \/ IndexNothing(t) \/ IndexStale(t)
           \/ ClearTimeout(t) \/ ImportRefuse(t)
    PROVE  IInv'
<1>1. Finish(t) /\ UNCHANGED <<disk, conn, files, issued>> /\ pc[t] \notin Committing
    BY DEF IngestReplay, IngestRefuse, IndexNothing, IndexStale, ClearTimeout,
           ImportRefuse, Committing
<1>2. lock = t => conn = disk
    BY <1>1, RequestsAssumption DEF IInv, DirtyOnlyUnderLock
<1>3. conn' = IF Holds(t) THEN disk ELSE conn
    BY <1>1, <1>2 DEF Holds
<1>4. QED
    BY <1>1, <1>3, AbandonInv

(* A batch of an import that is not the last one has been committed. *)
LEMMA ImportGoesOnInv ==
    ASSUME IInv, NEW t \in Tasks, ImportCommit(t), todo[t] # {}
    PROVE  IInv'
<1> USE DEF IInv, ImportCommit, GoTo, syncVars, taskVars
<1>1. lock = t /\ \A u \in Tasks \ {t} : pc[u] \notin Locking
    BY DEF LockInv, Locking, Committing
<1>2. pc' = [pc EXCEPT ![t] = "import.next"] /\ UNCHANGED <<lock, conn, files>>
    OBVIOUS
<1>3. TypeOK'
    <2>1. StoreType(disk)' /\ StoreType(conn)'
        BY DEF StoreInv
    <2>2. pc' \in [Tasks -> Places]
        BY <1>2 DEF TypeOK, Places
    <2>3. \A m \in issued' : m.seq \in Nat \ {0}
        BY CommitMarks
    <2>4. QED
        BY <2>1, <2>2, <2>3 DEF TypeOK
<1>4. LockInv'
    <2>1. \A u \in Tasks : pc'[u] \in Locking <=> lock' = u
        BY <1>1, <1>2 DEF TypeOK, Locking, Committing
    <2>2. woken' \subseteq AtGate'
        BY <1>2 DEF LockInv, AtGate, TypeOK
    <2>3. QED
        BY <2>1, <2>2 DEF LockInv
<1>5. DirtyOnlyUnderLock'
    BY DEF DirtyOnlyUnderLock
<1>6. MarkInv'
    <2>1. \A m \in issued' : m.seq <= disk'.highWater
        BY CommitMarks
    <2>2. conn.highWater <= conn.highWater
        BY DEF StoreInv, StoreType
    <2>3. QED
        BY <2>1, <2>2 DEF MarkInv, IssuedBelowHighWater
<1>7. RequestInv' /\ FileInv' /\ SnapInv'
    BY <1>2 DEF RequestInv, FileInv, SnapInv, TypeOK
<1>8. ImportInv'
    BY <1>1, <1>2 DEF ImportInv, TypeOK, Locking, Committing
<1>9. QED
    BY <1>3, <1>4, <1>5, <1>6, <1>7, <1>8

(* The process dies and the store is opened again. *)
LEMMA CrashInv ==
    ASSUME IInv, Crash
    PROVE  IInv'
<1> USE DEF IInv, Crash
<1>1. StoreInv(disk)' /\ StoreInv(conn)'
    OBVIOUS
<1>2. TypeOK'
    <2>1. StoreType(disk)' /\ StoreType(conn)'
        BY <1>1 DEF StoreInv
    <2>2. QED
        BY <2>1 DEF TypeOK, Places
<1>3. LockInv' /\ DirtyOnlyUnderLock'
    BY RequestsAssumption DEF LockInv, Locking, Committing, DirtyOnlyUnderLock
<1>4. MarkInv'
    BY DEF MarkInv, IssuedBelowHighWater, StoreInv, StoreType
<1>5. RequestInv' /\ ImportInv' /\ SnapInv'
    BY DEF RequestInv, ImportInv, SnapInv
<1>6. FileInv'
    BY FS_EmptySet DEF FileInv, Numbered
<1>7. QED
    BY <1>1, <1>2, <1>3, <1>4, <1>5, <1>6

(* Every step of a task. *)
LEMMA TaskStepInv ==
    ASSUME IInv, NEW t \in Tasks, TaskStep(t)
    PROVE  IInv'
<1>1. CASE PassGate(t)
    BY <1>1, PassGateInv
<1>2. CASE Ingest(t)
    <2>1. CASE IngestCommit(t)
        BY <2>1, CommitInv DEF IngestCommit, Committing
    <2>2. QED
        BY <1>2, <2>1, CallInv, BodiesInv, ReturnInv DEF Ingest
<1>3. CASE Index(t)
    <2>1. CASE IndexCommit(t)
        BY <2>1, CommitInv DEF IndexCommit, Committing
    <2>2. QED
        BY <1>3, <2>1, CallInv, IndexProposeInv, BodiesInv, ReturnInv DEF Index
<1>4. CASE ClearHistory(t)
    <2>1. CASE ClearCommit(t)
        BY <2>1, CommitInv DEF ClearCommit, Committing
    <2>2. QED
        BY <1>4, <2>1, ClearMoveInv, BodiesInv, ReturnInv DEF ClearHistory
<1>5. CASE Export(t)
    BY <1>5, ExportInv
<1>6. CASE ImportHistory(t)
    <2>1. CASE ImportCommit(t) /\ todo[t] = {}
        BY <2>1, CommitInv DEF ImportCommit, Committing
    <2>2. CASE ImportCommit(t) /\ todo[t] # {}
        BY <2>2, ImportGoesOnInv
    <2>3. QED
        BY <1>6, <2>1, <2>2, CallInv, BodiesInv, ImportBodyInv, ReturnInv DEF ImportHistory
<1>7. CASE Fail(t)
    BY <1>7, AbandonInv DEF Fail
<1>8. CASE Unanswered(t)
    BY <1>8, CommitInv DEF Unanswered
<1>9. QED
    BY <1>1, <1>2, <1>3, <1>4, <1>5, <1>6, <1>7, <1>8 DEF TaskStep

(* Every step. *)
LEMMA StepInv == IInv /\ [Next]_vars => IInv'
<1> SUFFICES ASSUME IInv, [Next]_vars PROVE IInv'
    OBVIOUS
<1>1. CASE UNCHANGED vars
    BY <1>1 DEF vars, IInv, TypeOK, StoreInv, LockInv, AtGate, DirtyOnlyUnderLock,
                MarkInv, IssuedBelowHighWater, RequestInv, FileInv, ImportInv, SnapInv
<1>2. CASE Next
    BY <1>2, TaskStepInv, CrashInv DEF Next
<1>3. QED
    BY <1>1, <1>2

-----------------------------------------------------------------------------
(* Theorems *)

(* IInv holds in every reachable state. *)
THEOREM Invariance == Spec => []IInv
<1>1. Init => IInv
    BY InitInv
<1>2. IInv /\ [Next]_vars => IInv'
    BY StepInv
<1>3. QED
    BY <1>1, <1>2, PTL DEF Spec

(* Types. *)
THEOREM TypeCorrect == Spec => []TypeOK
<1>1. IInv => TypeOK
    BY DEF IInv
<1>2. QED
    BY <1>1, Invariance, PTL

(* No operation, failure or crash separates search_metadata_revision from  *)
(* history_revision, so assert_search_metadata never refuses a store that  *)
(* only this program has written.                                          *)
THEOREM LockstepHolds == Spec => []RevisionLockstep
<1>1. IInv => RevisionLockstep
    BY DEF IInv, StoreInv, RevisionLockstep
<1>2. QED
    BY <1>1, Invariance, PTL

(* A task that finds write_lock free reads committed rows. *)
THEOREM NoDirtyReadUnderLock == Spec => []DirtyOnlyUnderLock
<1>1. IInv => DirtyOnlyUnderLock
    BY DEF IInv
<1>2. QED
    BY <1>1, Invariance, PTL

(* No two stored messages have one sequence number.                        *)
THEOREM NumbersUnique == Spec => []SeqsUnique
<1>1. IInv => SeqsUnique
    BY DEF IInv, StoreInv, Numbered, SeqsUnique
<1>2. QED
    BY <1>1, Invariance, PTL

(* No number that was ever given out is above the high-water mark from     *)
(* which the next batch is numbered, also after any number of clears.      *)
THEOREM HighWaterHolds == Spec => []IssuedBelowHighWater
<1>1. IInv => IssuedBelowHighWater
    BY DEF IInv, MarkInv
<1>2. QED
    BY <1>1, Invariance, PTL

(* The range of every stored receipt is in the store, without a gap. *)
THEOREM ReceiptsTrue == Spec => []ReceiptsHold
<1>1. IInv => ReceiptsHold
    BY DEF IInv, StoreInv, ReceiptsHold
<1>2. QED
    BY <1>1, Invariance, PTL

(* Between two batches of an import nothing else has written. *)
THEOREM ImportSecluded == Spec => []ImportAlone
<1>1. IInv => ImportAlone
    <2>1. SUFFICES ASSUME IInv, NEW t \in Tasks, pc[t] = "import.next"
                   PROVE  ImportMayGoOn(t)
        BY DEF ImportAlone
    <2>2. Intact(conn) /\ conn.historyRevision = expected[t]
        BY <2>1 DEF IInv, StoreInv, ImportInv
    <2>3. QED
        BY <2>1, <2>2 DEF ImportMayGoOn
<1>2. QED
    BY <1>1, Invariance, PTL

-----------------------------------------------------------------------------
(* 2. What callers rely on                                                 *)

(* What an open transaction has done to the committed database *)

Precede(earlier, later) == \A v \in earlier, w \in later : v.seq < w.seq

(* An import has inserted the rows old, and then batch; the rest is left.  *)
Refill(old, batch, rest) ==
    /\ old \cup batch \cup rest \in files
    /\ Precede(old, batch)
    /\ Precede(old \cup batch, rest)

(* The store is as a clear leaves it, apart from its messages. *)
Bare(s) == s.receipts = {} /\ s.leaves = {} /\ s.committedSeq = 0

(* The proposal p was made from what s holds. *)
MadeFrom(s, p) ==
    \E start \in Nat \ {0} :
        /\ p.rows = {m \in s.messages : m.seq >= start /\ m.seq <= s.highWater}
        /\ \/ start = 1 /\ p.leaves = {}
           \/ start = s.committedSeq + 1 /\ p.leaves = s.leaves

InTransaction(t) ==
    CASE pc[t] = "ingest.commit" ->
            /\ IngestOutcome(disk.messages, disk.receipts, req[t]) = "inserted"
            /\ conn = AfterIngest(disk, req[t])
      [] pc[t] = "index.commit" ->
            /\ Snapshot(snap[t])
            /\ snap[t].ends # {} /\ snap[t].ends \subseteq SeqsOf(snap[t].rows)
            /\ MadeFrom(disk, snap[t])
            /\ conn = AfterPublish(disk, snap[t])
      [] pc[t] = "clear.commit" -> conn = AfterClear(disk)
      [] pc[t] \in {"import.gate", "import.lock", "import.first"} -> todo[t] \in files
      [] pc[t] = "import.commit" ->
            /\ Bare(disk)
            /\ \E batch : /\ conn = AfterImportBatch(disk, batch)
                          /\ Refill(disk.messages, batch, todo[t])
      [] pc[t] = "import.next" -> Bare(disk) /\ Refill(disk.messages, {}, todo[t])
      [] OTHER -> TRUE

TransactionInv == \A t \in Tasks : InTransaction(t)

ReceiptsAnswered(s) ==
    \A c \in s.receipts, r \in Requests :
        c.key = r.key /\ c.hash = RequestHash(r) => Answered(s.messages, r)

Described(s) ==
    /\ \A m \in s.messages :
          m.seq <= s.committedSeq => \E l \in s.leaves : m \in l.rows
    /\ \A l \in s.leaves :
          /\ l.rows = {m \in s.messages : m.seq >= l.lo /\ m.seq <= l.hi}
          /\ l.hi <= s.committedSeq
    /\ \A k, l \in s.leaves : k.rows \cap l.rows # {} => k = l

StoreLaw(s) ==
    /\ Described(s)
    /\ ReceiptsAnswered(s)
    /\ s.committedSeq <= s.highWater
    /\ s.messages = {} => Bare(s)

(* A proposal that is still current was made from what the store holds.   *)
Proposed(s, p) ==
    /\ p.historyRevision \in Nat /\ p.historyRevision <= s.historyRevision
    /\ p.indexRevision \in Nat /\ p.indexRevision <= s.indexRevision
    /\ Current(s, p) => MadeFrom(s, p)

ProposalInv ==
    \A t \in Tasks :
        pc[t] \in {"index.gate", "index.propose", "index.publish"} => Proposed(disk, snap[t])

LogInv ==
    /\ TransactionInv
    /\ ProposalInv
    /\ StoreLaw(disk)
    /\ AcknowledgedKept

-----------------------------------------------------------------------------
(* What each operation does to the columns *)

LEMMA IngestColumns ==
    ASSUME NEW s, StoreInv(s), NEW r
    PROVE  LET a == AfterIngest(s, r)
           IN  /\ a.historyRevision = s.historyRevision + 1
               /\ a.indexRevision = s.indexRevision
               /\ a.cacheGeneration = s.cacheGeneration
               /\ a.committedSeq = s.committedSeq
               /\ a.highWater = LastSeq(s.messages, s.highWater, r)
               /\ a.messages = s.messages \cup NewRows(s.messages, s.highWater, r)
               /\ a.receipts = s.receipts \cup {Receipt(s.messages, s.highWater, r)}
               /\ a.leaves = s.leaves
    BY DEF StoreInv, Columns, AfterIngest

LEMMA ClearColumns ==
    ASSUME NEW s, StoreInv(s)
    PROVE  LET a == AfterClear(s)
           IN  /\ a.historyRevision = s.historyRevision + 1
               /\ a.indexRevision = s.indexRevision + 1
               /\ a.cacheGeneration = s.cacheGeneration + 1
               /\ a.committedSeq = 0
               /\ a.highWater = s.highWater
               /\ a.messages = {} /\ a.receipts = {} /\ a.leaves = {}
    BY DEF StoreInv, Columns, AfterClear

LEMMA ImportColumns ==
    ASSUME NEW s, StoreInv(s), NEW batch
    PROVE  LET a == AfterImportBatch(s, batch)
           IN  /\ a.historyRevision = s.historyRevision + 1
               /\ a.indexRevision = s.indexRevision
               /\ a.cacheGeneration = s.cacheGeneration
               /\ a.committedSeq = s.committedSeq
               /\ a.highWater = Max({s.highWater} \cup SeqsOf(batch))
               /\ a.messages = s.messages \cup batch
               /\ a.receipts = s.receipts
               /\ a.leaves = s.leaves
    BY DEF StoreInv, Columns, AfterImportBatch

LEMMA PublishColumns ==
    ASSUME NEW s, StoreInv(s), NEW p
    PROVE  LET a == AfterPublish(s, p)
           IN  /\ a.historyRevision = s.historyRevision
               /\ a.indexRevision = s.indexRevision + 1
               /\ a.cacheGeneration = s.cacheGeneration
               /\ a.committedSeq = Max(p.ends)
               /\ a.highWater = s.highWater
               /\ a.messages = s.messages
               /\ a.receipts = s.receipts
               /\ a.leaves = p.leaves \cup
                      {NewLeaf(ChunkRows(p.rows, p.ends, e)) : e \in p.ends}
    BY DEF StoreInv, Columns, AfterPublish

-----------------------------------------------------------------------------
(* What an ingest keeps *)

(* The first message of a batch with an external id is inserted, unless    *)
(* the store has that id.                                                  *)
LEMMA FirstIsInserted ==
    ASSUME NEW rows, NEW r, Len(r.msgs) \in Nat, NEW i \in Positions(r),
           r.msgs[i].ext # NoExt, ~Stored(rows, r.msgs[i].ext)
    PROVE  \E j \in Inserted(rows, r) : FirstOfId(r, i, j)
<1> DEFINE J == {j \in Positions(r) : r.msgs[j].ext = r.msgs[i].ext}
<1>1. J \in SUBSET Nat /\ i \in J
    BY DEF Positions
<1>2. PICK j \in J : \A k \in J : j <= k
    BY <1>1, NatHasLeast
<1>3. \A k \in 1..(j - 1) : k \in Positions(r) /\ ~(j <= k)
    BY DEF Positions
<1>4. \A k \in 1..(j - 1) : r.msgs[k].ext # r.msgs[j].ext
    BY <1>2, <1>3
<1>5. ~SkipAt(rows, r, j)
    BY <1>4 DEF SkipAt
<1>6. FirstOfId(r, i, j)
    BY <1>4 DEF FirstOfId
<1>7. QED
    BY <1>5, <1>6 DEF Inserted

(* What is inserted for a position says what the message said. *)
LEMMA RowOfPosition ==
    ASSUME NEW rows, NEW top, NEW r, NEW i \in Inserted(rows, r)
    PROVE  \E w \in NewRows(rows, top, r) :
               /\ w.seq = SeqAt(rows, top, r, i)
               /\ w.ext = r.msgs[i].ext
               /\ w.key = IF r.msgs[i].ext = NoExt THEN r.key ELSE NoKey
               /\ w.pos = IF r.msgs[i].ext = NoExt THEN i ELSE 0
               /\ w.text = r.msgs[i].text /\ w.tools = r.msgs[i].tools
               /\ w.session = r.session
<1> DEFINE w == Row(SeqAt(rows, top, r, i), r, i)
<1>1. w \in NewRows(rows, top, r)
    BY DEF NewRows
<1>2. QED
    BY <1>1 DEF Row

(* Every external id of a batch is named somewhere for the first time. *)
LEMMA FirstIsSomewhere ==
    ASSUME NEW r, Len(r.msgs) \in Nat, NEW i \in Positions(r)
    PROVE  \E j \in Positions(r) : FirstOfId(r, i, j)
<1> DEFINE J == {j \in Positions(r) : r.msgs[j].ext = r.msgs[i].ext}
<1>1. J \in SUBSET Nat /\ i \in J
    BY DEF Positions
<1>2. PICK j \in J : \A k \in J : j <= k
    BY <1>1, NatHasLeast
<1>3. \A k \in 1..(j - 1) : k \in Positions(r) /\ ~(j <= k)
    BY DEF Positions
<1>4. QED
    BY <1>2, <1>3 DEF FirstOfId

(* A batch that is accepted is kept: a message that is skipped is in the   *)
(* store already, or its id comes earlier in the batch.                    *)
LEMMA BatchKept ==
    ASSUME NEW rows, NEW top, NEW r \in Requests, ~Conflicts(rows, r)
    PROVE  Keeps(rows \cup NewRows(rows, top, r), r)
<1> DEFINE all == rows \cup NewRows(rows, top, r)
<1>1. Len(r.msgs) \in Nat
    BY RequestsAssumption
<1>2. SUFFICES ASSUME NEW i \in Positions(r)
      PROVE  \E w \in all :
                IF r.msgs[i].ext = NoExt
                THEN /\ w.key = r.key /\ w.pos = i
                     /\ w.session = r.session
                     /\ <<w.text, w.tools>> = Payload(r.msgs[i])
                ELSE /\ w.ext = r.msgs[i].ext
                     /\ \E j \in Positions(r) :
                           /\ FirstOfId(r, i, j)
                           /\ <<w.text, w.tools>> = Payload(r.msgs[j])
    BY DEF Keeps
<1>3. CASE r.msgs[i].ext = NoExt
    <2>1. i \in Inserted(rows, r)
        BY <1>3 DEF Inserted, SkipAt
    <2>2. PICK w \in NewRows(rows, top, r) :
              /\ w.key = r.key /\ w.pos = i /\ w.session = r.session
              /\ w.text = r.msgs[i].text /\ w.tools = r.msgs[i].tools
        BY <1>3, <2>1, RowOfPosition
    <2>3. <<w.text, w.tools>> = Payload(r.msgs[i])
        BY <2>2 DEF Payload
    <2>4. QED
        BY <1>3, <2>2, <2>3
<1>4. CASE r.msgs[i].ext # NoExt /\ Stored(rows, r.msgs[i].ext)
    <2>1. PICK w \in rows : w.ext = r.msgs[i].ext
        BY <1>4 DEF Stored
    <2>2. PICK j \in Positions(r) : FirstOfId(r, i, j)
        BY <1>1, FirstIsSomewhere
    <2>3. <<w.text, w.tools>> = Payload(r.msgs[j])
        BY <1>4, <2>1, <2>2 DEF Conflicts, FirstOfId
    <2>4. QED
        BY <1>4, <2>1, <2>2, <2>3
<1>5. CASE r.msgs[i].ext # NoExt /\ ~Stored(rows, r.msgs[i].ext)
    <2>1. PICK j \in Inserted(rows, r) : FirstOfId(r, i, j)
        BY <1>1, <1>5, FirstIsInserted
    <2>2. j \in Positions(r) /\ r.msgs[j].ext = r.msgs[i].ext
        BY <2>1 DEF Inserted, FirstOfId
    <2>3. PICK w \in NewRows(rows, top, r) :
              /\ w.ext = r.msgs[j].ext
              /\ w.text = r.msgs[j].text /\ w.tools = r.msgs[j].tools
        BY RowOfPosition
    <2>4. QED
        BY <1>5, <2>1, <2>2, <2>3 DEF Payload
<1>6. QED
    BY <1>3, <1>4, <1>5

(* More rows answer as much. *)
LEMMA AnsweredByMore ==
    ASSUME NEW rows, NEW more, rows \subseteq more, NEW r, Answered(rows, r)
    PROVE  Answered(more, r)
<1>1. PICK q \in Requests : Alike(q, r) /\ Keeps(rows, q)
    BY DEF Answered
<1>2. Keeps(more, q)
    BY <1>1 DEF Keeps
<1>3. QED
    BY <1>1, <1>2 DEF Answered

(* Requests with one key and one hash differ in their tool calls, if at    *)
(* all.                                                                    *)
LEMMA SameHashIsAlike ==
    ASSUME NEW q, NEW r, q.key = r.key, RequestHash(q) = RequestHash(r)
    PROVE  Alike(q, r)
<1> DEFINE said(x) == [i \in Positions(x) |-> <<x.msgs[i].ext, x.msgs[i].text>>]
<1>1. q.session = r.session /\ said(q) = said(r)
    BY DEF RequestHash
<1>2. DOMAIN said(q) = Positions(q) /\ DOMAIN said(r) = Positions(r)
    OBVIOUS
<1>3. Positions(q) = Positions(r)
    BY <1>1, <1>2
<1>4. ASSUME NEW i \in Positions(r)
      PROVE  q.msgs[i].ext = r.msgs[i].ext /\ q.msgs[i].text = r.msgs[i].text
    <2>1. said(q)[i] = <<q.msgs[i].ext, q.msgs[i].text>>
        BY <1>3
    <2>2. said(r)[i] = <<r.msgs[i].ext, r.msgs[i].text>>
        OBVIOUS
    <2>3. QED
        BY <1>1, <2>1, <2>2
<1>5. QED
    BY <1>1, <1>3, <1>4 DEF Alike

(* Outcome "inserted": no receipt has the key, and nothing conflicts.      *)
LEMMA InsertedMeans ==
    ASSUME NEW rows, NEW receipts, NEW r, IngestOutcome(rows, receipts, r) = "inserted"
    PROVE  (\A c \in receipts : c.key # r.key) /\ ~Conflicts(rows, r)
    BY DEF IngestOutcome

-----------------------------------------------------------------------------
(* Each operation keeps StoreLaw. *)

(* The statements of an ingest() that is not refused. *)
LEMMA IngestLaw ==
    ASSUME NEW s, StoreInv(s), StoreLaw(s), NEW r \in Requests,
           IngestOutcome(s.messages, s.receipts, r) = "inserted"
    PROVE  StoreLaw(AfterIngest(s, r))
<1> DEFINE new == NewRows(s.messages, s.highWater, r)
           last == LastSeq(s.messages, s.highWater, r)
           a == AfterIngest(s, r)
<1>1. Len(r.msgs) \in Nat \ {0} /\ s.highWater \in Nat /\ s.committedSeq \in Nat
    BY RequestsAssumption DEF StoreInv, StoreType
<1>2. /\ a.committedSeq = s.committedSeq /\ a.leaves = s.leaves
      /\ a.highWater = last
      /\ a.messages = s.messages \cup new
      /\ a.receipts = s.receipts \cup {Receipt(s.messages, s.highWater, r)}
    BY IngestColumns
<1>3. last \in Nat /\ s.highWater <= last
    BY <1>1, SeqAtGrows
<1>4. \A w \in new : w.seq \in Nat /\ w.seq > s.highWater
    <2>1. {w.seq : w \in new} = (s.highWater + 1)..last
        BY <1>1, NewRowsNumbered
    <2>2. \A w \in new : w.seq \in (s.highWater + 1)..last
        BY <2>1
    <2>3. QED
        BY <1>1, <1>3, <2>2
<1>5. \A m \in s.messages : m.seq \in Nat
    BY DEF StoreInv, Numbered
<1>6. \A l \in s.leaves : l.lo \in Nat /\ l.hi \in Nat
    BY DEF StoreInv, StoreType
<1>7. ReceiptsAnswered(a)
    <2>1. SUFFICES ASSUME NEW c \in a.receipts, NEW q \in Requests,
                          c.key = q.key, c.hash = RequestHash(q)
                   PROVE  Answered(a.messages, q)
        BY DEF ReceiptsAnswered
    <2>2. CASE c \in s.receipts
        <3>1. Answered(s.messages, q)
            BY <2>1, <2>2 DEF StoreLaw, ReceiptsAnswered
        <3>2. QED
            BY <1>2, <3>1, AnsweredByMore
    <2>3. CASE c = Receipt(s.messages, s.highWater, r)
        <3>1. c.key = r.key /\ c.hash = RequestHash(r)
            BY <2>3 DEF Receipt
        <3>2. Alike(r, q)
            BY <2>1, <3>1, SameHashIsAlike
        <3>3. ~Conflicts(s.messages, r)
            BY InsertedMeans
        <3>4. QED
            BY <1>2, <3>2, <3>3, BatchKept DEF Answered
    <2>4. QED
        BY <1>2, <2>1, <2>2, <2>3
<1>8. a.messages # {}
    <2>1. CASE s.messages = {}
        <3>1. 1 \in Inserted(s.messages, r)
            BY <1>1, <2>1 DEF Inserted, SkipAt, Stored, Positions
        <3>2. QED
            BY <1>2, <3>1, RowOfPosition
    <2>2. QED
        BY <1>2, <2>1
<1> HIDE DEF new, last, a
<1>9. a.committedSeq <= a.highWater
    BY <1>1, <1>2, <1>3 DEF StoreLaw
<1>10. Described(a)
    <2>1. \A w \in new : ~ (w.seq <= a.committedSeq)
        BY <1>1, <1>2, <1>4 DEF StoreLaw
    <2>2. \A m \in a.messages :
              m.seq <= a.committedSeq => \E l \in a.leaves : m \in l.rows
        BY <1>2, <2>1 DEF StoreLaw, Described
    <2>3. ASSUME NEW l \in a.leaves
          PROVE  l.rows = {m \in a.messages : m.seq >= l.lo /\ m.seq <= l.hi}
        <3>1. l.hi <= s.committedSeq /\ l.hi \in Nat
            BY <1>2, <1>6 DEF StoreLaw, Described
        <3>2. \A w \in new : ~ (w.seq <= l.hi)
            BY <1>1, <1>2, <1>4, <3>1 DEF StoreLaw
        <3>3. l.rows = {m \in s.messages : m.seq >= l.lo /\ m.seq <= l.hi}
            BY <1>2 DEF StoreLaw, Described
        <3>4. QED
            BY <1>2, <3>2, <3>3
    <2>4. QED
        BY <1>2, <2>2, <2>3 DEF StoreLaw, Described
<1>11. StoreLaw(a)
    BY <1>7, <1>8, <1>9, <1>10 DEF StoreLaw
<1>12. QED
    BY <1>11 DEF a

(* Those of a clear. *)
LEMMA ClearLaw ==
    ASSUME NEW s, StoreInv(s)
    PROVE  StoreLaw(AfterClear(s))
<1>1. /\ AfterClear(s).committedSeq = 0
      /\ AfterClear(s).highWater = s.highWater
      /\ AfterClear(s).messages = {} /\ AfterClear(s).receipts = {}
      /\ AfterClear(s).leaves = {}
    BY ClearColumns
<1>2. s.highWater \in Nat
    BY DEF StoreInv, StoreType
<1>3. QED
    BY <1>1, <1>2 DEF StoreLaw, Described, ReceiptsAnswered, Bare

(* Those of a batch of an import into a bare store. *)
LEMMA ImportLaw ==
    ASSUME NEW s, StoreInv(s), Bare(s), NEW batch, Numbered(s.messages \cup batch)
    PROVE  StoreLaw(AfterImportBatch(s, batch)) /\ Bare(AfterImportBatch(s, batch))
<1> DEFINE a == AfterImportBatch(s, batch)
           marks == {s.highWater} \cup SeqsOf(batch)
<1>1. /\ a.committedSeq = 0 /\ a.leaves = {} /\ a.receipts = {}
      /\ a.highWater = Max(marks)
      /\ a.messages = s.messages \cup batch
    BY ImportColumns DEF Bare
<1>2. a.highWater \in Nat
    <2>1. s.highWater \in Nat
        BY DEF StoreInv, StoreType
    <2>2. Numbered(batch)
        BY NumberedSubset
    <2>3. marks \in SUBSET Nat /\ IsFiniteSet(marks) /\ marks # {}
        BY <2>1, <2>2, SeqsFinite, FS_Singleton, FS_Union
    <2>4. QED
        BY <1>1, <2>3, MaxOfFinite
<1>3. \A m \in a.messages : m.seq \in Nat \ {0}
    BY <1>1 DEF Numbered
<1> HIDE DEF a
<1>4. Described(a)
    <2>1. \A m \in a.messages : ~ (m.seq <= a.committedSeq)
        BY <1>1, <1>3
    <2>2. QED
        BY <1>1, <2>1 DEF Described
<1>5. StoreLaw(a) /\ Bare(a)
    BY <1>1, <1>2, <1>4 DEF StoreLaw, ReceiptsAnswered, Bare
<1>6. QED
    BY <1>5 DEF a

(* A chunk holds the rows from its first number to its end, which is the   *)
(* upper bound of its leaf; no row is in two chunks.                       *)
LEMMA ChunkMeans ==
    ASSUME NEW rows, Numbered(rows), NEW ends \in SUBSET SeqsOf(rows), NEW e \in ends
    PROVE  LET c == ChunkRows(rows, ends, e)
               l == NewLeaf(c)
           IN  /\ l.rows = c
               /\ l.hi = e
               /\ \E m \in c : m.seq = l.lo
               /\ c = {m \in rows : m.seq >= l.lo /\ m.seq <= l.hi}
               /\ \A f \in ends \ {e} : c \cap ChunkRows(rows, ends, f) = {}
<1> DEFINE c == ChunkRows(rows, ends, e)
           S == SeqsOf(c)
<1>1. SeqsOf(rows) \in SUBSET Nat
    BY SeqsFinite
<1>2. \E m \in c : m.seq = e
    BY <1>1 DEF SeqsOf, ChunkRows
<1>3. Numbered(c)
    BY NumberedSubset DEF ChunkRows
<1>4. S \in SUBSET Nat /\ IsFiniteSet(S) /\ S # {}
    BY <1>2, <1>3, SeqsFinite
<1>5. /\ Max(S) \in S /\ \A x \in S : x <= Max(S)
      /\ Min(S) \in S /\ \A x \in S : Min(S) <= x
    BY <1>4, MaxOfFinite, MinOfNats
<1>6. \A m \in c : m.seq <= e /\ m.seq \in S
    BY DEF ChunkRows, SeqsOf
<1>7. Max(S) = e
    <2>1. e \in S /\ \A x \in S : x <= e
        BY <1>2 DEF ChunkRows, SeqsOf
    <2>2. QED
        BY <1>4, <1>5, <2>1
<1>8. PICK m0 \in c : m0.seq = Min(S)
    BY <1>5 DEF SeqsOf
<1>9. \A m \in rows : m.seq \in Nat
    BY DEF Numbered
<1>10. c = {m \in rows : m.seq >= Min(S) /\ m.seq <= e}
    <2>1. ASSUME NEW m \in rows, m.seq >= Min(S), m.seq <= e
          PROVE  m \in c
        <3>1. ASSUME NEW x \in ends, x < e
              PROVE  x < m.seq
            <4>1. x < m0.seq
                BY <1>8, <3>1 DEF ChunkRows
            <4>2. QED
                BY <1>1, <1>4, <1>5, <1>8, <1>9, <2>1, <4>1
        <3>2. QED
            BY <2>1, <3>1 DEF ChunkRows
    <2>2. \A m \in c : m \in rows /\ m.seq >= Min(S) /\ m.seq <= e
        BY <1>4, <1>5, <1>6 DEF ChunkRows
    <2>3. QED
        BY <2>1, <2>2
<1>11. \A f \in ends \ {e} : c \cap ChunkRows(rows, ends, f) = {}
    <2>1. ASSUME NEW f \in ends, f # e, NEW m \in c, m \in ChunkRows(rows, ends, f)
          PROVE  FALSE
        <3>1. m \in rows /\ m.seq <= e /\ m.seq <= f /\ (f < e => f < m.seq)
              /\ (e < f => e < m.seq)
            BY <2>1 DEF ChunkRows
        <3>2. e \in Nat /\ f \in Nat /\ m.seq \in Nat
            BY <1>1, <1>9, <3>1
        <3>3. QED
            BY <2>1, <3>1, <3>2
    <2>2. QED
        BY <2>1
<1>12. NewLeaf(c).rows = c /\ NewLeaf(c).hi = Max(S) /\ NewLeaf(c).lo = Min(S)
    BY DEF NewLeaf
<1> HIDE DEF c
<1>13. QED
    BY <1>7, <1>8, <1>10, <1>11, <1>12 DEF c

(* Those of a publication whose proposal was made from what the store      *)
(* holds: the chunks of the proposal follow what the tree covered.         *)
LEMMA PublishLaw ==
    ASSUME NEW s, StoreInv(s), StoreLaw(s), NEW p, Snapshot(p), MadeFrom(s, p),
           p.ends # {}, p.ends \subseteq SeqsOf(p.rows)
    PROVE  StoreLaw(AfterPublish(s, p))
<1> DEFINE chunk(e) == ChunkRows(p.rows, p.ends, e)
           leaf(e) == NewLeaf(chunk(e))
           new == {leaf(e) : e \in p.ends}
           top == Max(p.ends)
           a == AfterPublish(s, p)
<1>1. PICK start \in Nat \ {0} :
          /\ p.rows = {m \in s.messages : m.seq >= start /\ m.seq <= s.highWater}
          /\ \/ start = 1 /\ p.leaves = {}
             \/ start = s.committedSeq + 1 /\ p.leaves = s.leaves
    BY DEF MadeFrom
<1>2. /\ a.committedSeq = top /\ a.highWater = s.highWater
      /\ a.messages = s.messages /\ a.receipts = s.receipts
      /\ a.leaves = p.leaves \cup new
    BY PublishColumns
<1>3. Numbered(p.rows)
    BY DEF Snapshot
<1>4. \A e \in p.ends :
          /\ leaf(e).rows = chunk(e)
          /\ leaf(e).hi = e
          /\ \E m \in chunk(e) : m.seq = leaf(e).lo
          /\ chunk(e) = {m \in p.rows : m.seq >= leaf(e).lo /\ m.seq <= leaf(e).hi}
          /\ \A f \in p.ends \ {e} : chunk(e) \cap chunk(f) = {}
    BY <1>3, ChunkMeans
<1>5. p.ends \in SUBSET Nat /\ IsFiniteSet(p.ends)
    BY <1>3, SeqsFinite, FS_Subset
<1>6. top \in p.ends /\ \A e \in p.ends : e <= top
    BY <1>5, MaxOfFinite
<1>7. \A m \in s.messages : m.seq \in Nat \ {0} /\ m.seq <= s.highWater
    BY DEF StoreInv, Numbered
<1>8. \A e \in p.ends : start <= e /\ e <= s.highWater
    BY <1>1 DEF SeqsOf
<1>9. s.committedSeq \in Nat
    BY DEF StoreInv, StoreType
<1>10. \A e \in p.ends : chunk(e) \subseteq p.rows
    BY DEF ChunkRows
<1>11. s.messages # {}
    BY <1>1, <1>6 DEF SeqsOf
<1>12. \A m \in s.messages :
          m.seq <= top => \E l \in p.leaves \cup new : m \in l.rows
    <2>1. SUFFICES ASSUME NEW m \in s.messages, m.seq <= top
                   PROVE  \E l \in p.leaves \cup new : m \in l.rows
        OBVIOUS
    <2>2. CASE m.seq < start
        <3>1. start # 1
            BY <1>7, <2>2
        <3>2. m.seq <= s.committedSeq /\ p.leaves = s.leaves
            BY <1>1, <1>7, <1>9, <2>2, <3>1
        <3>3. QED
            BY <3>2 DEF StoreLaw, Described
    <2>3. CASE ~ (m.seq < start)
        <3>1. m \in p.rows
            BY <1>1, <1>7, <2>3
        <3>2. {e \in p.ends : m.seq <= e} \in SUBSET Nat /\ top \in {e \in p.ends : m.seq <= e}
            BY <1>5, <1>6, <2>1
        <3>3. PICK e \in {x \in p.ends : m.seq <= x} :
                  \A x \in {x \in p.ends : m.seq <= x} : e <= x
            BY <3>2, NatHasLeast
        <3>4. \A x \in p.ends : x < e => x < m.seq
            BY <1>5, <1>7, <2>1, <3>3
        <3>5. m \in chunk(e)
            BY <3>1, <3>3, <3>4 DEF ChunkRows
        <3>6. QED
            BY <1>4, <3>3, <3>5
    <2>4. QED
        BY <2>2, <2>3
<1>13. ASSUME NEW l \in p.leaves
       PROVE  /\ l.rows = {m \in s.messages : m.seq >= l.lo /\ m.seq <= l.hi}
              /\ l.hi <= s.committedSeq /\ l.hi \in Nat
              /\ l \in s.leaves /\ start = s.committedSeq + 1
    BY <1>1, <1>13 DEF StoreLaw, Described, StoreInv, StoreType
<1>14. ASSUME NEW e \in p.ends
       PROVE  leaf(e).rows = {m \in s.messages : m.seq >= leaf(e).lo /\ m.seq <= leaf(e).hi}
    <2>1. PICK m0 \in chunk(e) : m0.seq = leaf(e).lo
        BY <1>4
    <2>2. leaf(e).lo \in Nat /\ start <= leaf(e).lo
        BY <1>1, <1>7, <1>10, <2>1
    <2> HIDE DEF leaf, chunk
    <2>3. \A m \in s.messages : m.seq >= leaf(e).lo => m \in p.rows
        BY <1>1, <1>7, <2>2
    <2>4. p.rows \subseteq s.messages
        BY <1>1
    <2>5. QED
        BY <1>4, <2>3, <2>4
<1> HIDE DEF leaf, chunk, top, a
<1>15. \A l \in p.leaves, e \in p.ends : l.rows \cap leaf(e).rows = {}
    <2>1. SUFFICES ASSUME NEW l \in p.leaves, NEW e \in p.ends,
                          NEW m \in l.rows, m \in leaf(e).rows
                   PROVE  FALSE
        OBVIOUS
    <2>2. m \in s.messages /\ m.seq <= l.hi
        BY <1>13, <2>1
    <2>3. m \in p.rows
        BY <1>4, <1>10, <2>1
    <2>4. QED
        BY <1>1, <1>7, <1>9, <1>13, <2>2, <2>3
<1>16. \A k, l \in p.leaves \cup new : k.rows \cap l.rows # {} => k = l
    <2>1. SUFFICES ASSUME NEW k \in p.leaves \cup new, NEW l \in p.leaves \cup new,
                          k.rows \cap l.rows # {}
                   PROVE  k = l
        OBVIOUS
    <2>2. CASE k \in p.leaves /\ l \in p.leaves
        BY <1>13, <2>1, <2>2 DEF StoreLaw, Described
    <2>3. CASE k \in new /\ l \in new
        <3>1. PICK e \in p.ends, f \in p.ends : k = leaf(e) /\ l = leaf(f)
            BY <2>3
        <3>2. e = f
            BY <1>4, <2>1, <3>1
        <3>3. QED
            BY <3>1, <3>2
    <2>4. CASE k \in p.leaves /\ l \in new
        BY <1>15, <2>1, <2>4
    <2>5. CASE k \in new /\ l \in p.leaves
        BY <1>15, <2>1, <2>5
    <2>6. QED
        BY <2>2, <2>3, <2>4, <2>5
<1>17. \A l \in p.leaves \cup new : l.hi <= top
    <2>1. \A l \in p.leaves : l.hi <= top
        BY <1>5, <1>6, <1>8, <1>9, <1>13
    <2>2. \A l \in new : l.hi <= top
        BY <1>4, <1>6
    <2>3. QED
        BY <2>1, <2>2
<1>18. Described(a)
    BY <1>2, <1>12, <1>13, <1>14, <1>16, <1>17 DEF Described
<1>19. ReceiptsAnswered(a)
    BY <1>2 DEF ReceiptsAnswered, StoreLaw
<1>20. StoreLaw(a)
    BY <1>2, <1>6, <1>8, <1>11, <1>18, <1>19 DEF StoreLaw
<1>21. QED
    BY <1>20 DEF a

-----------------------------------------------------------------------------
(* What a step does to the committed database *)

(* The rows that an import has still to insert follow those of its next    *)
(* batch.                                                                  *)
LEMMA NextBatchFirst ==
    ASSUME NEW rows, Numbered(rows)
    PROVE  NextBatch(rows) \subseteq rows /\ Precede(NextBatch(rows), rows \ NextBatch(rows))
<1> DEFINE upto(m) == {w \in rows : w.seq <= m.seq}
<1>1. NextBatch(rows) = {m \in rows : Cardinality(upto(m)) <= ImportBatch}
    BY DEF NextBatch
<1>2. ASSUME NEW v \in NextBatch(rows), NEW w \in rows \ NextBatch(rows)
      PROVE  v.seq < w.seq
    <2>1. SUFFICES ASSUME ~ (v.seq < w.seq) PROVE FALSE
        OBVIOUS
    <2>2. \A m \in rows : m.seq \in Nat
        BY DEF Numbered
    <2>3. upto(w) \subseteq upto(v)
        BY <1>1, <2>1, <2>2
    <2>4. IsFiniteSet(upto(v))
        BY FS_Subset DEF Numbered
    <2>5. /\ Cardinality(upto(w)) <= Cardinality(upto(v))
          /\ Cardinality(upto(w)) \in Nat /\ Cardinality(upto(v)) \in Nat
        BY <2>3, <2>4, FS_Subset, FS_CardinalityType
    <2>6. Cardinality(upto(v)) <= ImportBatch /\ ~ (Cardinality(upto(w)) <= ImportBatch)
        BY <1>1
    <2> HIDE DEF upto
    <2>7. QED
        BY <2>5, <2>6, BoundsAssumption
<1>3. QED
    BY <1>1, <1>2 DEF Precede

(* The statements of the transaction that t commits, or none. *)
Takes(t) ==
    /\ req[t] \in Requests
    /\ IngestOutcome(disk.messages, disk.receipts, req[t]) = "inserted"
    /\ disk' = AfterIngest(disk, req[t])
    /\ told' \in {told, told \cup {req[t]}}
    /\ files' = files

Publishes(t) ==
    /\ Snapshot(snap[t])
    /\ snap[t].ends # {} /\ snap[t].ends \subseteq SeqsOf(snap[t].rows)
    /\ MadeFrom(disk, snap[t])
    /\ disk' = AfterPublish(disk, snap[t])
    /\ UNCHANGED <<told, files>>

Clears == disk' = AfterClear(disk) /\ told' = {} /\ files' = files

Loads(t) ==
    /\ pc[t] = "import.commit"
    /\ Bare(disk)
    /\ \E batch : /\ disk' = AfterImportBatch(disk, batch)
                  /\ Refill(disk.messages, batch, todo[t])
    /\ UNCHANGED <<told, files>>

Reads(t) ==
    /\ disk' = disk
    /\ UNCHANGED <<told, files>> \/ IngestReplay(t) \/ Export(t)

WholeOperation(t) == Takes(t) \/ Publishes(t) \/ Clears \/ Loads(t) \/ Reads(t)

(* A COMMIT makes the connection the disk, and the connection is what one  *)
(* operation makes of the whole disk: no other task has written since its  *)
(* transaction began.                                                      *)
LEMMA CommitIsWhole ==
    ASSUME IInv, TransactionInv, NEW t \in Tasks, disk' = conn, files' = files,
           \/ IngestCommit(t) \/ IndexCommit(t) \/ ClearCommit(t) \/ ImportCommit(t)
           \/ Unanswered(t)
    PROVE  WholeOperation(t)
<1>1. InTransaction(t)
    BY DEF TransactionInv
<1>2. pc[t] \in Committing
    BY DEF IngestCommit, IndexCommit, ClearCommit, ImportCommit, Unanswered, Committing
<1>3. CASE pc[t] = "ingest.commit"
    <2>1. req[t] \in Requests
        BY <1>3 DEF IInv, RequestInv
    <2>2. told' \in {told, told \cup {req[t]}}
        BY <1>3 DEF IngestCommit, IndexCommit, ClearCommit, ImportCommit, Unanswered
    <2>3. QED
        BY <1>1, <1>3, <2>1, <2>2 DEF InTransaction, Takes, WholeOperation
<1>4. CASE pc[t] = "index.commit"
    <2>1. told' = told
        BY <1>4 DEF IngestCommit, IndexCommit, ClearCommit, ImportCommit, Unanswered
    <2>2. QED
        BY <1>1, <1>4, <2>1 DEF InTransaction, Publishes, WholeOperation
<1>5. CASE pc[t] = "clear.commit"
    <2>1. told' = {}
        BY <1>5 DEF IngestCommit, IndexCommit, ClearCommit, ImportCommit, Unanswered
    <2>2. QED
        BY <1>1, <1>5, <2>1 DEF InTransaction, Clears, WholeOperation
<1>6. CASE pc[t] = "import.commit"
    <2>1. told' = told
        BY <1>6 DEF IngestCommit, IndexCommit, ClearCommit, ImportCommit, Unanswered
    <2>2. QED
        BY <1>1, <1>6, <2>1 DEF InTransaction, Loads, WholeOperation
<1>7. QED
    BY <1>2, <1>3, <1>4, <1>5, <1>6 DEF Committing

(* Every step of a task. *)
LEMMA StepIsWhole ==
    ASSUME IInv, TransactionInv, NEW t \in Tasks, TaskStep(t)
    PROVE  WholeOperation(t)
<1>1. CASE IngestCommit(t) \/ IndexCommit(t) \/ ClearCommit(t) \/ ImportCommit(t)
           \/ Unanswered(t)
    <2>1. disk' = conn /\ files' = files
        BY <1>1 DEF IngestCommit, IndexCommit, ClearCommit, ImportCommit, Unanswered
    <2>2. QED
        BY <1>1, <2>1, CommitIsWhole
<1>2. CASE ~ (IngestCommit(t) \/ IndexCommit(t) \/ ClearCommit(t) \/ ImportCommit(t)
              \/ Unanswered(t))
    <2>1. CASE PassGate(t) \/ Fail(t) \/ Export(t)
        BY <2>1 DEF PassGate, Fail, Export, Reads, WholeOperation
    <2>2. CASE Ingest(t)
        BY <1>2, <2>2 DEF Ingest, IngestCall, IngestBody, IngestReplay, IngestRefuse,
                          Reads, WholeOperation
    <2>3. CASE Index(t)
        BY <1>2, <2>3 DEF Index, IndexCapture, IndexPropose, IndexNothing, IndexPublish,
                          IndexStale, Reads, WholeOperation
    <2>4. CASE ClearHistory(t)
        BY <1>2, <2>4 DEF ClearHistory, ClearClose, ClearDrained, ClearTimeout, ClearBody,
                          Reads, WholeOperation
    <2>5. CASE ImportHistory(t)
        BY <1>2, <2>5 DEF ImportHistory, ImportCall, ImportLock, ImportBody, ImportRefuse,
                          Reads, WholeOperation
    <2>6. QED
        BY <1>2, <2>1, <2>2, <2>3, <2>4, <2>5 DEF TaskStep
<1>3. QED
    BY <1>1, <1>2

(* What an operation leaves is again lawful, and a proposal made from an   *)
(* earlier state of the database is no longer current.                     *)
LEMMA WholeKeepsLaw ==
    ASSUME IInv, IInv', StoreLaw(disk), NEW t \in Tasks, WholeOperation(t)
    PROVE  /\ StoreLaw(disk')
           /\ disk' = disk \/ /\ disk'.historyRevision + disk'.indexRevision
                                   > disk.historyRevision + disk.indexRevision
                              /\ disk'.historyRevision >= disk.historyRevision
                              /\ disk'.indexRevision >= disk.indexRevision
<1>1. StoreInv(disk) /\ disk.historyRevision \in Nat /\ disk.indexRevision \in Nat
    BY BoundsAssumption DEF IInv, StoreInv, StoreType
<1>2. CASE Takes(t)
    BY <1>1, <1>2, IngestLaw, IngestColumns DEF Takes
<1>3. CASE Publishes(t)
    BY <1>1, <1>3, PublishLaw, PublishColumns DEF Publishes
<1>4. CASE Clears
    BY <1>1, <1>4, ClearLaw, ClearColumns DEF Clears
<1>5. CASE Loads(t)
    <2>1. PICK batch : disk' = AfterImportBatch(disk, batch)
        BY <1>5 DEF Loads
    <2>2. disk'.messages = disk.messages \cup batch
        BY <1>1, <2>1, ImportColumns
    <2>3. Numbered(disk.messages \cup batch)
        BY <2>2 DEF IInv, StoreInv
    <2>4. Bare(disk)
        BY <1>5 DEF Loads
    <2>5. StoreLaw(disk')
        BY <1>1, <2>1, <2>3, <2>4, ImportLaw
    <2>6. /\ disk'.historyRevision = disk.historyRevision + 1
          /\ disk'.indexRevision = disk.indexRevision
        BY <1>1, <2>1, ImportColumns
    <2>7. QED
        BY <1>1, <2>5, <2>6
<1>6. CASE Reads(t)
    <2>1. disk' = disk
        BY <1>6 DEF Reads
    <2>2. QED
        BY <2>1
<1>7. QED
    BY <1>2, <1>3, <1>4, <1>5, <1>6 DEF WholeOperation

-----------------------------------------------------------------------------
(* LogInv is inductive, beside IInv. *)

(* A step of one task leaves the others where they are, and the store as   *)
(* it is when one of them holds write_lock.                                *)
LEMMA OthersLeft ==
    ASSUME IInv, NEW t \in Tasks, TaskStep(t), NEW u \in Tasks \ {t}
    PROVE  /\ pc'[u] = pc[u] /\ req'[u] = req[u]
           /\ snap'[u] = snap[u] /\ todo'[u] = todo[u]
           /\ pc[u] \in Locking => UNCHANGED <<disk, conn>>
           /\ files \subseteq files'
<1>1. /\ pc \in [Tasks -> Places] /\ DOMAIN req = Tasks
      /\ DOMAIN snap = Tasks /\ DOMAIN todo = Tasks
    BY DEF IInv, TypeOK, SnapInv, FileInv
<1>2. pc[u] \in Locking => lock # t /\ lock # NoTask /\ pc[t] \notin Locking
    BY RequestsAssumption DEF IInv, LockInv
<1> USE DEF Finish, GoTo, BeginWrite, TakeLock, syncVars, taskVars
<1>3. CASE PassGate(t)
    BY <1>1, <1>3 DEF PassGate
<1>4. CASE Ingest(t)
    <2>1. CASE \E r \in Requests : IngestCall(t, r)
        BY <1>1, <2>1 DEF IngestCall
    <2>2. CASE IngestBody(t)
        BY <1>1, <1>2, <2>2 DEF IngestBody
    <2>3. CASE IngestReplay(t) \/ IngestRefuse(t)
        BY <1>1, <2>3 DEF IngestReplay, IngestRefuse
    <2>4. CASE IngestCommit(t)
        BY <1>1, <1>2, <2>4 DEF IngestCommit, Locking, Committing
    <2>5. QED
        BY <1>4, <2>1, <2>2, <2>3, <2>4 DEF Ingest
<1>5. CASE Index(t)
    <2>1. CASE \E rebuild \in BOOLEAN : IndexCapture(t, rebuild)
        BY <1>1, <2>1 DEF IndexCapture
    <2>2. CASE \E ends \in SUBSET SeqsOf(snap[t].rows) : IndexPropose(t, ends)
        BY <1>1, <2>2 DEF IndexPropose
    <2>3. CASE IndexPublish(t)
        BY <1>1, <1>2, <2>3 DEF IndexPublish
    <2>4. CASE IndexNothing(t) \/ IndexStale(t)
        BY <1>1, <2>4 DEF IndexNothing, IndexStale
    <2>5. CASE IndexCommit(t)
        BY <1>1, <1>2, <2>5 DEF IndexCommit, Locking, Committing
    <2>6. QED
        BY <1>5, <2>1, <2>2, <2>3, <2>4, <2>5 DEF Index
<1>6. CASE ClearHistory(t)
    <2>1. CASE ClearClose(t) \/ ClearDrained(t) \/ ClearTimeout(t)
        BY <1>1, <2>1 DEF ClearClose, ClearDrained, ClearTimeout
    <2>2. CASE ClearBody(t)
        BY <1>1, <1>2, <2>2 DEF ClearBody
    <2>3. CASE ClearCommit(t)
        BY <1>1, <1>2, <2>3 DEF ClearCommit, Locking, Committing
    <2>4. QED
        BY <1>6, <2>1, <2>2, <2>3 DEF ClearHistory
<1>7. CASE Export(t)
    BY <1>1, <1>7 DEF Export
<1>8. CASE ImportHistory(t)
    <2>1. CASE \E file \in files : ImportCall(t, file)
        BY <1>1, <2>1 DEF ImportCall
    <2>2. CASE ImportLock(t) \/ ImportRefuse(t)
        BY <1>1, <2>2 DEF ImportLock, ImportRefuse
    <2>3. CASE ImportBody(t)
        BY <1>1, <1>2, <2>3 DEF ImportBody, Locking
    <2>4. CASE ImportCommit(t)
        BY <1>1, <1>2, <2>4 DEF ImportCommit, Locking, Committing
    <2>5. QED
        BY <1>8, <2>1, <2>2, <2>3, <2>4 DEF ImportHistory
<1>9. CASE Fail(t)
    BY <1>1, <1>2, <1>9 DEF Fail, Holds
<1>10. CASE Unanswered(t)
    BY <1>1, <1>2, <1>10 DEF Unanswered, Locking
<1>11. QED
    BY <1>3, <1>4, <1>5, <1>6, <1>7, <1>8, <1>9, <1>10 DEF TaskStep

(* Who finds the lock free, or holds it outside of a transaction, sees the *)
(* committed database.                                                     *)
LEMMA CleanRead ==
    ASSUME IInv, NEW t \in Tasks,
           lock = NoTask \/ pc[t] \in {"import.first", "import.next"}
    PROVE  conn = disk
<1>1. lock = NoTask \/ lock = t
    BY DEF IInv, LockInv, Locking
<1>2. QED
    BY <1>1, RequestsAssumption DEF IInv, DirtyOnlyUnderLock, Committing

(* TransactionInv: the tasks that did not take the step. *)
LEMMA OthersInTransaction ==
    ASSUME IInv, TransactionInv, NEW t \in Tasks, TaskStep(t), NEW u \in Tasks \ {t}
    PROVE  InTransaction(u)'
<1>1. /\ pc'[u] = pc[u] /\ req'[u] = req[u]
      /\ snap'[u] = snap[u] /\ todo'[u] = todo[u]
      /\ pc[u] \in Locking => UNCHANGED <<disk, conn>>
      /\ files \subseteq files'
    BY OthersLeft
<1>2. InTransaction(u)
    BY DEF TransactionInv
<1>3. CASE pc[u] \in {"import.gate", "import.lock", "import.first"}
    BY <1>1, <1>2, <1>3 DEF InTransaction
<1>4. CASE pc[u] \in {"ingest.commit", "index.commit", "clear.commit"}
    BY <1>1, <1>2, <1>4 DEF InTransaction, Locking, Committing
<1>5. CASE pc[u] = "import.commit"
    <2>1. UNCHANGED <<disk, conn>> /\ Bare(disk)
        BY <1>1, <1>2, <1>5 DEF InTransaction, Locking, Committing
    <2>2. PICK batch : conn = AfterImportBatch(disk, batch)
                       /\ Refill(disk.messages, batch, todo[u])
        BY <1>2, <1>5 DEF InTransaction
    <2>3. conn' = AfterImportBatch(disk', batch)
          /\ Refill(disk.messages, batch, todo[u])'
        BY <1>1, <2>1, <2>2 DEF Refill
    <2>4. QED
        BY <1>1, <1>5, <2>1, <2>3 DEF InTransaction
<1>6. CASE pc[u] = "import.next"
    BY <1>1, <1>2, <1>6 DEF InTransaction, Locking, Refill
<1>7. CASE pc[u] \notin {"import.gate", "import.lock", "import.first", "ingest.commit",
                         "index.commit", "clear.commit", "import.commit", "import.next"}
    BY <1>1, <1>7 DEF InTransaction
<1>8. QED
    BY <1>3, <1>4, <1>5, <1>6, <1>7

(* TransactionInv: the task that took it. *)
LEMMA OwnTransaction ==
    ASSUME IInv, LogInv, NEW t \in Tasks, TaskStep(t)
    PROVE  InTransaction(t)'
<1>1. pc \in [Tasks -> Places] /\ DOMAIN todo = Tasks /\ DOMAIN snap = Tasks
    BY DEF IInv, TypeOK, FileInv, SnapInv
<1>2. InTransaction(t)
    BY DEF LogInv, TransactionInv
<1> DEFINE Quiet == pc'[t] \in {"idle", "ingest.gate", "ingest.lock", "index.gate",
                                "index.propose", "index.publish", "clear.drain",
                                "clear.lock"}
<1>3. Quiet => InTransaction(t)'
    BY DEF InTransaction
<1>4. Finish(t) => Quiet
    BY <1>1 DEF Finish, GoTo
<1>5. CASE IngestBody(t)
    <2>1. conn = disk
        BY <1>5, CleanRead DEF IngestBody, TakeLock
    <2>2. pc'[t] = "ingest.commit" /\ UNCHANGED <<disk, req>>
        BY <1>1, <1>5 DEF IngestBody, GoTo
    <2>3. /\ IngestOutcome(disk.messages, disk.receipts, req[t]) = "inserted"
          /\ conn' = AfterIngest(disk, req[t])
        BY <1>5, <2>1 DEF IngestBody, Outcome
    <2>4. QED
        BY <2>2, <2>3 DEF InTransaction
<1>6. CASE IndexPublish(t)
    <2>1. conn = disk
        BY <1>6, CleanRead DEF IndexPublish, TakeLock
    <2>2. pc'[t] = "index.commit" /\ UNCHANGED <<disk, snap>>
        BY <1>1, <1>6 DEF IndexPublish, GoTo, taskVars
    <2>3. /\ Snapshot(snap[t])
          /\ snap[t].ends # {} /\ snap[t].ends \subseteq SeqsOf(snap[t].rows)
        BY <1>6 DEF IInv, SnapInv, IndexPublish
    <2>4. MadeFrom(disk, snap[t])
        BY <1>6, <2>1 DEF LogInv, ProposalInv, Proposed, IndexPublish
    <2>5. conn' = AfterPublish(disk, snap[t])
        BY <1>6, <2>1 DEF IndexPublish
    <2>6. QED
        BY <2>2, <2>3, <2>4, <2>5 DEF InTransaction
<1>7. CASE ClearBody(t)
    <2>1. conn = disk
        BY <1>7, CleanRead DEF ClearBody, TakeLock
    <2>2. QED
        BY <1>1, <1>7, <2>1 DEF ClearBody, GoTo, InTransaction
<1>8. CASE \E file \in files : ImportCall(t, file)
    <2>1. pc'[t] \in {"import.gate", "import.lock"} /\ todo'[t] \in files'
        BY <1>1, <1>8 DEF ImportCall, BeginWrite, GoTo
    <2>2. QED
        BY <2>1 DEF InTransaction
<1>9. CASE PassGate(t)
    <2>1. pc[t] \in {"ingest.gate", "index.gate", "import.gate"}
        BY <1>9 DEF PassGate, IInv, LockInv, AtGate
    <2>2. UNCHANGED <<todo, files>>
        BY <1>9 DEF PassGate, taskVars
    <2>3. CASE pc[t] = "import.gate"
        <3>1. pc'[t] = "import.lock"
            BY <1>1, <1>9, <2>3 DEF PassGate, GoTo
        <3>2. QED
            BY <1>2, <2>2, <2>3, <3>1 DEF InTransaction
    <2>4. CASE pc[t] \in {"ingest.gate", "index.gate"}
        <3>1. Quiet
            BY <1>1, <1>9, <2>4 DEF PassGate, GoTo
        <3>2. QED
            BY <1>3, <3>1
    <2>5. QED
        BY <2>1, <2>3, <2>4
<1>10. CASE ImportLock(t)
    <2>1. pc[t] = "import.lock" /\ pc'[t] = "import.first" /\ UNCHANGED <<todo, files>>
        BY <1>1, <1>10 DEF ImportLock, GoTo, taskVars
    <2>2. QED
        BY <1>2, <2>1 DEF InTransaction
<1>11. CASE ImportBody(t)
    <2> DEFINE batch == NextBatch(todo[t])
               rest == todo[t] \ batch
    <2>1. conn = disk
        BY <1>11, CleanRead DEF ImportBody
    <2>2. batch \cup rest = todo[t] /\ Precede(batch, rest)
        BY NextBatchFirst DEF IInv, FileInv
    <2> HIDE DEF batch
    <2>3. /\ pc'[t] = "import.commit" /\ UNCHANGED <<disk, files>>
          /\ todo'[t] = rest /\ conn' = AfterImportBatch(disk, batch)
        BY <1>1, <1>11, <2>1 DEF ImportBody, GoTo, batch
    <2>4. Bare(disk) /\ Refill(disk.messages, batch, rest)
        <3>1. CASE pc[t] = "import.first"
            <4>1. disk.messages = {}
                BY <1>11, <2>1, <3>1 DEF ImportBody, ImportMayGoOn
            <4>2. todo[t] \in files
                BY <1>2, <3>1 DEF InTransaction
            <4>3. QED
                BY <2>2, <4>1, <4>2 DEF LogInv, StoreLaw, Refill, Precede
        <3>2. CASE pc[t] = "import.next"
            <4>1. Bare(disk) /\ Refill(disk.messages, {}, todo[t])
                BY <1>2, <3>2 DEF InTransaction
            <4>2. disk.messages \cup batch \cup rest \in files
                <5>1. disk.messages \cup batch \cup rest = disk.messages \cup {} \cup todo[t]
                    BY <2>2
                <5>2. QED
                    BY <4>1, <5>1 DEF Refill
            <4>3. Precede(disk.messages, batch) /\ Precede(disk.messages, rest)
                BY <2>2, <4>1 DEF Refill, Precede
            <4>4. QED
                BY <2>2, <4>1, <4>2, <4>3 DEF Refill, Precede
        <3>3. QED
            BY <1>11, <3>1, <3>2 DEF ImportBody
    <2>5. Bare(disk') /\ conn' = AfterImportBatch(disk', batch)
        BY <2>3, <2>4
    <2>6. disk'.messages = disk.messages /\ files' = files /\ todo'[t] = rest
        BY <2>3
    <2> HIDE DEF rest
    <2>7. PICK b : b = batch
        OBVIOUS
    <2>8. Refill(disk.messages, b, todo[t])'
        BY <2>4, <2>6, <2>7 DEF Refill, Precede
    <2>9. QED
        BY <2>3, <2>5, <2>7, <2>8 DEF InTransaction
<1>12. CASE ImportCommit(t) /\ todo[t] # {}
    <2>1. /\ pc'[t] = "import.next" /\ UNCHANGED <<files, todo>> /\ disk' = conn
          /\ pc[t] = "import.commit"
        BY <1>1, <1>12 DEF ImportCommit, GoTo, taskVars
    <2>2. PICK batch : /\ conn = AfterImportBatch(disk, batch)
                       /\ Refill(disk.messages, batch, todo[t])
        BY <1>2, <2>1 DEF InTransaction
    <2>3. Bare(disk) /\ StoreInv(disk)
        BY <1>2, <2>1 DEF InTransaction, IInv
    <2>4. /\ disk'.messages = disk.messages \cup batch
          /\ Bare(disk')
        BY <2>1, <2>2, <2>3, ImportColumns DEF Bare
    <2>5. /\ disk'.messages \cup {} \cup todo[t] \in files
          /\ Precede(disk'.messages, todo[t])
        BY <2>2, <2>4 DEF Refill
    <2>6. Refill(disk.messages, {}, todo[t])'
        BY <2>1, <2>5 DEF Refill, Precede
    <2>7. QED
        BY <2>1, <2>4, <2>6 DEF InTransaction
<1>13. CASE \/ \E r \in Requests : IngestCall(t, r)
            \/ \E rebuild \in BOOLEAN : IndexCapture(t, rebuild)
            \/ \E ends \in SUBSET SeqsOf(snap[t].rows) : IndexPropose(t, ends)
            \/ ClearClose(t) \/ ClearDrained(t) \/ Export(t)
    <2>1. Quiet
        BY <1>1, <1>13 DEF IngestCall, IndexCapture, IndexPropose, ClearClose, ClearDrained,
                           Export, BeginWrite, GoTo
    <2>2. QED
        BY <1>3, <2>1
<1>14. CASE Finish(t)
    BY <1>3, <1>4, <1>14
<1>15. CASE \/ IngestReplay(t) \/ IngestRefuse(t) \/ IngestCommit(t) \/ IndexNothing(t)
            \/ IndexStale(t) \/ IndexCommit(t) \/ ClearTimeout(t) \/ ClearCommit(t)
            \/ ImportRefuse(t) \/ Fail(t) \/ Unanswered(t)
            \/ ImportCommit(t) /\ todo[t] = {}
    BY <1>14, <1>15 DEF IngestReplay, IngestRefuse, IngestCommit, IndexNothing, IndexStale,
                        IndexCommit, ClearTimeout, ClearCommit, ImportRefuse, Fail,
                        Unanswered, ImportCommit
<1>16. QED
    BY <1>5, <1>6, <1>7, <1>8, <1>9, <1>10, <1>11, <1>12, <1>13, <1>15
    DEF TaskStep, Ingest, Index, ClearHistory, ImportHistory

(* A proposal that was made from what the store holds, or that is out of   *)
(* date, stays so: every write raises one of the revisions.                *)
LEMMA ProposedStays ==
    ASSUME IInv, IInv', StoreLaw(disk), NEW t \in Tasks, WholeOperation(t),
           NEW p, Proposed(disk, p)
    PROVE  Proposed(disk', p)
<1>1. CASE disk' = disk
    BY <1>1
<1>2. CASE disk' # disk
    <2>1. /\ disk'.historyRevision + disk'.indexRevision
               > disk.historyRevision + disk.indexRevision
          /\ disk'.historyRevision >= disk.historyRevision
          /\ disk'.indexRevision >= disk.indexRevision
        BY <1>2, WholeKeepsLaw
    <2>2. /\ disk.historyRevision \in Nat /\ disk.indexRevision \in Nat
          /\ disk'.historyRevision \in Nat /\ disk'.indexRevision \in Nat
        BY BoundsAssumption DEF IInv, StoreInv, StoreType
    <2>3. /\ p.historyRevision \in Nat /\ p.historyRevision <= disk.historyRevision
          /\ p.indexRevision \in Nat /\ p.indexRevision <= disk.indexRevision
        BY DEF Proposed
    <2>4. /\ p.historyRevision <= disk'.historyRevision
          /\ p.indexRevision <= disk'.indexRevision
          /\ ~ (disk'.historyRevision = p.historyRevision
                /\ disk'.indexRevision = p.indexRevision)
        BY <2>1, <2>2, <2>3
    <2>5. QED
        BY <2>3, <2>4 DEF Proposed, Current
<1>3. QED
    BY <1>1, <1>2

(* What index() reads makes a proposal, also of the model's answer to it. *)
LEMMA OwnProposal ==
    ASSUME IInv, LogInv, NEW t \in Tasks, TaskStep(t), disk' = disk,
           pc'[t] \in {"index.gate", "index.propose", "index.publish"}
    PROVE  Proposed(disk, snap'[t])
<1>1. pc \in [Tasks -> Places] /\ DOMAIN snap = Tasks
    BY DEF IInv, TypeOK, SnapInv
<1>2. CASE \E rebuild \in BOOLEAN : IndexCapture(t, rebuild)
    <2>1. PICK rebuild \in BOOLEAN : IndexCapture(t, rebuild)
        BY <1>2
    <2>2. conn = disk
        BY <2>1, CleanRead DEF IndexCapture
    <2> DEFINE start == IF rebuild THEN 1 ELSE disk.committedSeq + 1
               p == snap'[t]
    <2>3. /\ p.historyRevision = disk.historyRevision
          /\ p.indexRevision = disk.indexRevision
          /\ p.rows = {m \in disk.messages : m.seq >= start /\ m.seq <= disk.highWater}
          /\ p.leaves = IF rebuild THEN {} ELSE disk.leaves
        BY <1>1, <2>1, <2>2 DEF IndexCapture
    <2>4. /\ disk.historyRevision \in Nat /\ disk.indexRevision \in Nat
          /\ disk.committedSeq \in Nat
        BY BoundsAssumption DEF IInv, StoreInv, StoreType
    <2>5. start \in Nat \ {0}
        BY <2>4
    <2> HIDE DEF p
    <2>6. MadeFrom(disk, p)
        BY <2>3, <2>5 DEF MadeFrom
    <2>7. QED
        BY <2>3, <2>4, <2>6 DEF Proposed, p
<1>3. CASE pc[t] = "index.propose" /\
           \E ends \in SUBSET SeqsOf(snap[t].rows) : IndexPropose(t, ends)
    <2>1. Proposed(disk, snap[t]) /\ Snapshot(snap[t])
        BY <1>3 DEF LogInv, ProposalInv, IInv, SnapInv
    <2>2. PICK ends : snap' = [snap EXCEPT ![t].ends = ends]
        BY <1>3 DEF IndexPropose
    <2>3. /\ snap'[t].historyRevision = snap[t].historyRevision
          /\ snap'[t].indexRevision = snap[t].indexRevision
          /\ snap'[t].cacheGeneration = snap[t].cacheGeneration
          /\ snap'[t].rows = snap[t].rows /\ snap'[t].leaves = snap[t].leaves
        BY <1>1, <2>1, <2>2 DEF Snapshot
    <2>4. QED
        BY <2>1, <2>3 DEF Proposed, Current, MadeFrom
<1>4. CASE PassGate(t)
    <2>1. pc[t] = "index.gate"
        BY <1>1, <1>4 DEF PassGate, GoTo, IInv, LockInv, AtGate
    <2>2. snap' = snap
        BY <1>4 DEF PassGate, taskVars
    <2>3. QED
        BY <2>1, <2>2 DEF LogInv, ProposalInv
<1>5. ~ Finish(t)
    BY <1>1 DEF Finish, GoTo
<1>6. CASE Ingest(t)
    BY <1>1, <1>5, <1>6 DEF Ingest, IngestCall, IngestBody, IngestReplay, IngestRefuse,
                            IngestCommit, BeginWrite, GoTo
<1>7. CASE \/ IndexNothing(t) \/ IndexPublish(t) \/ IndexStale(t) \/ IndexCommit(t)
    BY <1>1, <1>5, <1>7 DEF IndexNothing, IndexPublish, IndexStale, IndexCommit, GoTo
<1>8. CASE ClearHistory(t)
    BY <1>1, <1>5, <1>8 DEF ClearHistory, ClearClose, ClearDrained, ClearTimeout, ClearBody,
                            ClearCommit, GoTo
<1>9. CASE Export(t) \/ Fail(t) \/ Unanswered(t)
    BY <1>1, <1>5, <1>9 DEF Export, Fail, Unanswered
<1>10. CASE ImportHistory(t)
    BY <1>1, <1>5, <1>10 DEF ImportHistory, ImportCall, ImportLock, ImportBody, ImportRefuse,
                             ImportCommit, BeginWrite, GoTo
<1>11. QED
    BY <1>2, <1>3, <1>4, <1>6, <1>7, <1>8, <1>9, <1>10 DEF TaskStep, Index

(* Going to a place of index() is no commit. *)
LEMMA ProposingWritesNothing ==
    ASSUME IInv, NEW t \in Tasks, TaskStep(t),
           pc'[t] \in {"index.gate", "index.propose", "index.publish"}
    PROVE  disk' = disk
<1>1. pc \in [Tasks -> Places]
    BY DEF IInv, TypeOK
<1>2. ~ Finish(t)
    BY <1>1 DEF Finish, GoTo
<1>3. CASE PassGate(t) \/ Export(t) \/ Fail(t) \/ Unanswered(t)
    BY <1>2, <1>3 DEF PassGate, Export, Fail, Unanswered
<1>4. CASE Ingest(t)
    BY <1>2, <1>4 DEF Ingest, IngestCall, IngestBody, IngestReplay, IngestRefuse, IngestCommit
<1>5. CASE Index(t)
    BY <1>2, <1>5 DEF Index, IndexCapture, IndexPropose, IndexNothing, IndexPublish,
                      IndexStale, IndexCommit
<1>6. CASE ClearHistory(t)
    BY <1>2, <1>6 DEF ClearHistory, ClearClose, ClearDrained, ClearTimeout, ClearBody,
                      ClearCommit
<1>7. CASE ImportHistory(t)
    BY <1>1, <1>2, <1>7 DEF ImportHistory, ImportCall, ImportLock, ImportBody, ImportRefuse,
                            ImportCommit, GoTo
<1>8. QED
    BY <1>3, <1>4, <1>5, <1>6, <1>7 DEF TaskStep

(* Who was told stays right: what is committed keeps the rows, and a       *)
(* receipt that answers again is one of the store.                         *)
LEMMA ToldStays ==
    ASSUME IInv, LogInv, NEW t \in Tasks, WholeOperation(t)
    PROVE  AcknowledgedKept'
<1>1. SUFFICES ASSUME NEW r \in told'
               PROVE  Answered(disk'.messages, r)
    BY DEF AcknowledgedKept, Answered
<1>2. r \in told => Answered(disk.messages, r)
    BY <1>1 DEF LogInv, AcknowledgedKept
<1>3. StoreInv(disk)
    BY DEF IInv
<1>4. CASE Takes(t)
    <2>1. disk'.messages
            = disk.messages \cup NewRows(disk.messages, disk.highWater, req[t])
        BY <1>3, <1>4, IngestColumns DEF Takes
    <2>2. CASE r \in told
        BY <1>2, <2>1, <2>2, AnsweredByMore
    <2>3. CASE r = req[t]
        <3>1. r \in Requests /\ ~Conflicts(disk.messages, r)
            BY <1>4, <2>3, InsertedMeans DEF Takes
        <3>2. Alike(r, r)
            BY DEF Alike
        <3>3. QED
            BY <2>1, <2>3, <3>1, <3>2, BatchKept DEF Answered
    <2>4. QED
        BY <1>1, <1>4, <2>2, <2>3 DEF Takes
<1>5. CASE Publishes(t)
    <2>1. disk'.messages = disk.messages /\ told' = told
        BY <1>3, <1>5, PublishColumns DEF Publishes
    <2>2. QED
        BY <1>1, <1>2, <2>1
<1>6. CASE Clears
    BY <1>1, <1>6 DEF Clears
<1>7. CASE Loads(t)
    <2>1. PICK batch : disk' = AfterImportBatch(disk, batch)
        BY <1>7 DEF Loads
    <2>2. disk'.messages = disk.messages \cup batch
        BY <1>3, <2>1, ImportColumns
    <2>3. told' = told
        BY <1>7 DEF Loads
    <2>4. QED
        BY <1>1, <1>2, <2>2, <2>3, AnsweredByMore
<1>8. CASE Reads(t)
    <2>1. disk' = disk
        BY <1>8 DEF Reads
    <2>2. CASE told' = told
        BY <1>1, <1>2, <2>1, <2>2
    <2>3. CASE IngestReplay(t)
        <3>1. conn = disk
            BY <2>3, CleanRead DEF IngestReplay
        <3>2. IngestOutcome(disk.messages, disk.receipts, req[t]) = "replayed"
            BY <2>3, <3>1 DEF IngestReplay, Outcome
        <3>3. \E c \in disk.receipts : c.key = req[t].key /\ c.hash = RequestHash(req[t])
            BY <3>2 DEF IngestOutcome
        <3>4. req[t] \in Requests
            BY <2>3 DEF IInv, RequestInv, IngestReplay
        <3>5. told' = told \cup {req[t]}
            BY <2>3 DEF IngestReplay
        <3>6. Answered(disk.messages, req[t])
            BY <3>3, <3>4 DEF LogInv, StoreLaw, ReceiptsAnswered
        <3>7. QED
            BY <1>1, <1>2, <2>1, <3>5, <3>6
    <2>4. QED
        BY <1>8, <2>2, <2>3 DEF Reads, Export
<1>9. QED
    BY <1>4, <1>5, <1>6, <1>7, <1>8 DEF WholeOperation

(* A step of a task preserves LogInv. *)
LEMMA TaskKeepsLog ==
    ASSUME IInv, IInv', LogInv, NEW t \in Tasks, TaskStep(t)
    PROVE  LogInv'
<1>1. WholeOperation(t) /\ StoreLaw(disk)
    BY StepIsWhole DEF LogInv
<1>2. TransactionInv'
    <2>1. \A u \in Tasks : InTransaction(u)'
        BY OwnTransaction, OthersInTransaction DEF LogInv
    <2>2. QED
        BY <2>1 DEF TransactionInv
<1>3. ProposalInv'
    <2>1. SUFFICES ASSUME NEW u \in Tasks,
                          pc'[u] \in {"index.gate", "index.propose", "index.publish"}
                   PROVE  Proposed(disk', snap'[u])
        BY DEF ProposalInv
    <2>2. CASE u = t
        BY <2>1, <2>2, ProposingWritesNothing, OwnProposal
    <2>3. CASE u # t
        <3>1. pc'[u] = pc[u] /\ snap'[u] = snap[u]
            BY <2>3, OthersLeft
        <3>2. Proposed(disk, snap[u])
            BY <2>1, <3>1 DEF LogInv, ProposalInv
        <3>3. QED
            BY <1>1, <3>1, <3>2, ProposedStays
    <2>4. QED
        BY <2>2, <2>3
<1>4. StoreLaw(disk')
    BY <1>1, WholeKeepsLaw
<1>5. AcknowledgedKept'
    BY <1>1, ToldStays
<1>6. QED
    BY <1>2, <1>3, <1>4, <1>5 DEF LogInv

(* LogInv holds of a new store. *)
LEMMA InitLog == Init => LogInv
    BY DEF Init, LogInv, TransactionInv, InTransaction, ProposalInv, StoreLaw, Described,
           ReceiptsAnswered, Bare, EmptyStore, AcknowledgedKept

(* Every step preserves it. *)
LEMMA StepLog == IInv /\ IInv' /\ LogInv /\ [Next]_vars => LogInv'
<1> SUFFICES ASSUME IInv, IInv', LogInv, [Next]_vars PROVE LogInv'
    OBVIOUS
<1>1. CASE UNCHANGED vars
    BY <1>1 DEF vars, LogInv, TransactionInv, InTransaction, ProposalInv, Refill,
                AcknowledgedKept, Answered, Keeps
<1>2. CASE Crash
    <2>1. disk' = disk /\ told' = told
        BY <1>2 DEF Crash
    <2>2. TransactionInv' /\ ProposalInv'
        BY <1>2 DEF Crash, TransactionInv, InTransaction, ProposalInv
    <2>3. AcknowledgedKept'
        BY <2>1 DEF LogInv, AcknowledgedKept, Answered, Keeps
    <2>4. QED
        BY <2>1, <2>2, <2>3 DEF LogInv
<1>3. CASE \E t \in Tasks : TaskStep(t)
    BY <1>3, TaskKeepsLog
<1>4. QED
    BY <1>1, <1>2, <1>3 DEF Next

-----------------------------------------------------------------------------
(* The steps of the store are steps of ConversationLog. *)

(* A committed batch is appended whole, in order and under the next        *)
(* numbers.                                                                *)
LEMMA TakesAccepts ==
    ASSUME IInv, NEW t \in Tasks, Takes(t)
    PROVE  \E r \in Requests : Log!Accept(r)
<1>0. PICK r \in Requests : r = req[t]
    BY DEF Takes
<1> DEFINE rows == disk.messages
           top == disk.highWater
           new == NewRows(rows, top, r)
           last == LastSeq(rows, top, r)
<1>1. /\ Len(r.msgs) \in Nat /\ r.key # NoKey
      /\ top \in Nat /\ StoreInv(disk)
    BY RequestsAssumption DEF Takes, IInv, StoreInv, StoreType
<1>2. /\ disk'.highWater = last
      /\ disk'.messages = rows \cup new
      /\ disk'.receipts = disk.receipts \cup {Receipt(rows, top, r)}
    BY <1>0, <1>1, IngestColumns DEF Takes
<1>3. /\ IsFiniteSet(new)
      /\ {w.seq : w \in new} = (top + 1)..last
      /\ \A v, w \in new : v.seq = w.seq => v = w
    BY <1>1, NewRowsNumbered
<1>4. last \in Nat /\ top <= last
    BY <1>1, SeqAtGrows
<1>5. rows \cap new = {}
    <2>1. \A w \in new : w.seq \in (top + 1)..last
        BY <1>3
    <2>2. \A m \in rows : m.seq \in Nat /\ m.seq <= top
        BY <1>1 DEF StoreInv, Numbered
    <2>3. QED
        BY <1>1, <1>4, <2>1, <2>2
<1>6. \A w \in new : \E i \in Inserted(rows, r) : w = Row(SeqAt(rows, top, r, i), r, i)
    BY DEF NewRows
<1>7. Cardinality(new) = last - top
    <2> DEFINE f == [w \in new |-> w.seq]
               N == (top + 1)..last
    <2>1. f \in Surjection(new, N)
        BY <1>3 DEF Surjection
    <2>2. f \in Injection(new, N)
        BY <1>3, <2>1 DEF Surjection, Injection, IsInjective
    <2> HIDE DEF f, N
    <2>3. Cardinality(new) = Cardinality(N)
        BY <1>3, <2>1, <2>2, FS_Surjection
    <2>4. Cardinality(N) = last - top
        BY <1>1, <1>4, FS_Interval DEF N
    <2>5. QED
        BY <2>3, <2>4
<1>8. (\A c \in disk.receipts : c.key # r.key) /\ ~Conflicts(rows, r)
    BY <1>0, InsertedMeans DEF Takes
<1>9. ASSUME NEW i \in 1..Len(r.msgs)
      PROVE  IF r.msgs[i].ext = NoExt
             THEN \E w \in new : w.key = r.key /\ w.pos = i
             ELSE \E w \in rows \cup new : w.ext = r.msgs[i].ext
    <2>1. i \in Positions(r)
        BY DEF Positions
    <2>2. CASE r.msgs[i].ext = NoExt
        <3>1. i \in Inserted(rows, r)
            BY <2>1, <2>2 DEF Inserted, SkipAt
        <3>2. QED
            BY <2>2, <3>1, RowOfPosition
    <2>3. CASE r.msgs[i].ext # NoExt /\ Stored(rows, r.msgs[i].ext)
        BY <2>3 DEF Stored
    <2>4. CASE r.msgs[i].ext # NoExt /\ ~Stored(rows, r.msgs[i].ext)
        <3>1. PICK j \in Inserted(rows, r) : r.msgs[j].ext = r.msgs[i].ext
            BY <1>1, <2>1, <2>4, FirstIsInserted DEF FirstOfId
        <3>2. \E w \in new : w.ext = r.msgs[j].ext
            BY RowOfPosition
        <3>3. QED
            BY <2>4, <3>1, <3>2
    <2>5. QED
        BY <2>2, <2>3, <2>4
<1>10. ASSUME NEW w \in new
       PROVE  /\ \E i \in 1..Len(r.msgs) :
                    /\ w.ext = r.msgs[i].ext
                    /\ w.text = r.msgs[i].text
                    /\ w.tools = r.msgs[i].tools
              /\ w.session = r.session
              /\ w.ext # NoExt => w.ext \notin {v.ext : v \in rows}
    <2>1. PICK i \in Inserted(rows, r) : w = Row(SeqAt(rows, top, r, i), r, i)
        BY <1>6
    <2>2. /\ w.ext = r.msgs[i].ext /\ w.text = r.msgs[i].text
          /\ w.tools = r.msgs[i].tools /\ w.session = r.session
        BY <2>1 DEF Row
    <2>3. i \in 1..Len(r.msgs) /\ ~SkipAt(rows, r, i)
        BY DEF Inserted, Positions
    <2>4. QED
        BY <2>2, <2>3 DEF SkipAt, Stored
<1>11. ASSUME NEW v \in new, NEW w \in new, v.key = r.key, w.key = r.key, v.pos < w.pos
       PROVE  v.seq < w.seq
    <2>1. PICK i \in Inserted(rows, r) : v = Row(SeqAt(rows, top, r, i), r, i)
        BY <1>6
    <2>2. PICK j \in Inserted(rows, r) : w = Row(SeqAt(rows, top, r, j), r, j)
        BY <1>6
    <2>3. /\ v.seq = SeqAt(rows, top, r, i) /\ v.pos = i
          /\ w.seq = SeqAt(rows, top, r, j) /\ w.pos = j
        BY <1>1, <1>11, <2>1, <2>2 DEF Row
    <2>4. \A x, y \in Inserted(rows, r) :
              x < y => SeqAt(rows, top, r, x) < SeqAt(rows, top, r, y)
        BY <1>1, SeqAtGrows
    <2> HIDE DEF rows, top
    <2>5. QED
        BY <1>11, <2>3, <2>4
<1>12. {c.key : c \in disk'.receipts} = {c.key : c \in disk.receipts} \cup {r.key}
    <2>1. Receipt(rows, top, r).key = r.key
        BY DEF Receipt
    <2>2. QED
        BY <1>2, <2>1
<1>13. disk'.messages \ rows = new
    BY <1>2, <1>5
<1>14. /\ disk'.highWater = top + Cardinality(disk'.messages \ rows)
       /\ {w.seq : w \in disk'.messages \ rows} = (top + 1)..disk'.highWater
    <2> HIDE DEF new, last, top, rows
    <2>1. top + (last - top) = last
        BY <1>1, <1>4
    <2>2. QED
        BY <1>2, <1>3, <1>7, <1>13, <2>1
<1>15. r.key \notin {c.key : c \in disk.receipts} /\ files' = files
    BY <1>8 DEF Takes
<1> HIDE DEF new, last, top, rows
<1>16. rows \subseteq disk'.messages
    BY <1>2
<1>17. /\ disk'.highWater = disk.highWater + Cardinality(disk'.messages \ disk.messages)
       /\ Log!Seqs(disk'.messages \ disk.messages) = (disk.highWater + 1)..disk'.highWater
    BY <1>14 DEF Log!Seqs, rows, top
<1>18. \A i \in 1..Len(r.msgs) :
          IF r.msgs[i].ext = NoExt
          THEN \E w \in disk'.messages \ disk.messages : w.key = r.key /\ w.pos = i
          ELSE \E w \in disk'.messages : w.ext = r.msgs[i].ext
    BY <1>2, <1>9, <1>13 DEF rows
<1>19. \A w \in disk'.messages \ disk.messages :
          /\ \E i \in 1..Len(r.msgs) :
                /\ w.ext = r.msgs[i].ext
                /\ w.text = r.msgs[i].text
                /\ w.tools = r.msgs[i].tools
          /\ w.session = r.session
          /\ w.ext # NoExt => w.ext \notin {v.ext : v \in disk.messages}
    BY <1>10, <1>13 DEF rows
<1>20. \A v, w \in disk'.messages \ disk.messages :
          v.key = r.key /\ w.key = r.key /\ v.pos < w.pos => v.seq < w.seq
    BY <1>11, <1>13 DEF rows
<1>21. Log!Cardinality(disk'.messages \ disk.messages)
          = Cardinality(disk'.messages \ disk.messages)
    BY DEF Log!Cardinality, Cardinality
<1>22. Log!Accept(r)
    BY <1>12, <1>15, <1>16, <1>17, <1>18, <1>19, <1>20, <1>21 DEF Log!Accept, rows
<1>23. QED
    BY <1>22

(* A committed clear empties the log and gives no number back. *)
LEMMA ClearsWipes ==
    ASSUME IInv, Clears
    PROVE  Log!Wipe
<1>1. /\ disk'.messages = {} /\ disk'.receipts = {}
      /\ disk'.highWater = disk.highWater /\ files' = files
    BY ClearColumns DEF Clears, IInv
<1>2. QED
    BY <1>1 DEF Log!Wipe

(* A committed batch of an import refills the log from a saved one.        *)
LEMMA LoadsLoads ==
    ASSUME IInv, NEW t \in Tasks, Loads(t)
    PROVE  \E file \in files : Log!Load(file)
<1>1. PICK batch : /\ disk' = AfterImportBatch(disk, batch)
                   /\ Refill(disk.messages, batch, todo[t])
    BY DEF Loads
<1> DEFINE old == disk.messages
           rest == todo[t]
           file == old \cup batch \cup rest
           marks == {disk.highWater} \cup SeqsOf(batch)
<1>2. StoreInv(disk) /\ disk.highWater \in Nat
    BY DEF IInv, StoreInv, StoreType
<1>3. /\ disk'.messages = old \cup batch
      /\ disk'.receipts = {} /\ disk.receipts = {}
      /\ disk'.highWater = Max(marks)
      /\ files' = files
    BY <1>1, <1>2, ImportColumns DEF Loads, Bare
<1>4. file \in files /\ Precede(old, batch) /\ Precede(old \cup batch, rest)
    BY <1>1 DEF Refill
<1>5. Numbered(batch)
    <2>1. Numbered(disk'.messages)
        <3>1. Numbered(file)
            BY <1>4 DEF IInv, FileInv
        <3>2. QED
            BY <1>3, <3>1, NumberedSubset
    <2>2. QED
        BY <1>3, <2>1, NumberedSubset
<1>6. marks \in SUBSET Nat /\ IsFiniteSet(marks) /\ marks # {}
    BY <1>2, <1>5, SeqsFinite, FS_Singleton, FS_Union
<1>7. Max(marks) \in marks /\ \A x \in marks : x <= Max(marks)
    BY <1>6, MaxOfFinite
<1>8. /\ disk'.highWater \in {disk.highWater} \cup SeqsOf(disk'.messages)
      /\ \A q \in {disk.highWater} \cup SeqsOf(disk'.messages) : q <= disk'.highWater
    <2>1. \A m \in old : m.seq \in Nat /\ m.seq <= disk.highWater
        BY <1>2 DEF StoreInv, Numbered
    <2>2. disk.highWater <= Max(marks) /\ Max(marks) \in Nat
        BY <1>6, <1>7
    <2>3. \A m \in batch : m.seq \in marks
        BY DEF SeqsOf
    <2> HIDE DEF marks
    <2>4. \A m \in old \cup batch : m.seq <= Max(marks)
        BY <1>2, <1>7, <2>1, <2>2, <2>3
    <2>5. Max(marks) \in {disk.highWater} \cup SeqsOf(old \cup batch)
        BY <1>7 DEF marks, SeqsOf
    <2>6. QED
        BY <1>3, <2>2, <2>4, <2>5 DEF SeqsOf
<1>9. \A v \in old, w \in disk'.messages \ old : v.seq < w.seq
    BY <1>3, <1>4 DEF Precede
<1>10. \A v \in file \ disk'.messages, w \in disk'.messages : w.seq < v.seq
    BY <1>3, <1>4 DEF Precede
<1>11. old \subseteq disk'.messages /\ disk'.messages \subseteq file
    BY <1>3
<1> HIDE DEF marks, file
<1>12. Log!Load(file)
    BY <1>3, <1>8, <1>9, <1>10, <1>11 DEF Log!Load, Log!Seqs, SeqsOf
<1>13. QED
    BY <1>4, <1>12

(* Every step of the process is one step of the log, or none. *)
LEMMA StepImplements ==
    ASSUME IInv, LogInv, [Next]_vars
    PROVE  [Log!LogNext]_(Log!logVars)
<1>1. CASE UNCHANGED vars
    BY <1>1 DEF vars, Log!logVars
<1>2. CASE Crash
    BY <1>2 DEF Crash, Log!logVars
<1>3. ASSUME NEW t \in Tasks, TaskStep(t)
      PROVE  [Log!LogNext]_(Log!logVars)
    <2>1. WholeOperation(t)
        BY <1>3, StepIsWhole DEF LogInv
    <2>2. CASE Takes(t)
        BY <2>2, TakesAccepts DEF Log!LogNext
    <2>3. CASE Publishes(t)
        <3>1. /\ disk'.messages = disk.messages /\ disk'.receipts = disk.receipts
              /\ disk'.highWater = disk.highWater /\ files' = files
            BY <2>3, PublishColumns DEF Publishes, IInv
        <3>2. QED
            BY <3>1 DEF Log!logVars
    <2>4. CASE Clears
        BY <2>4, ClearsWipes DEF Log!LogNext
    <2>5. CASE Loads(t)
        BY <2>5, LoadsLoads DEF Log!LogNext
    <2>6. CASE Reads(t)
        <3>1. CASE Export(t)
            <4>1. conn = disk
                BY <3>1, CleanRead DEF Export
            <4>2. disk' = disk /\ files' = files \cup {disk.messages}
                BY <3>1, <4>1 DEF Export
            <4>3. QED
                BY <4>2 DEF Log!LogNext, Log!Save
        <3>2. CASE UNCHANGED <<told, files>> \/ IngestReplay(t)
            <4>1. disk' = disk /\ files' = files
                BY <2>6, <3>2 DEF Reads, IngestReplay
            <4>2. QED
                BY <4>1 DEF Log!logVars
        <3>3. QED
            BY <2>6, <3>1, <3>2 DEF Reads
    <2>7. QED
        BY <2>6, <2>5, <2>1, <2>2, <2>3, <2>4 DEF WholeOperation
<1>4. QED
    BY <1>1, <1>2, <1>3 DEF Next

-----------------------------------------------------------------------------
(* Theorems *)

(* LogInv holds in every reachable state. *)
THEOREM LogInvariance == Spec => []LogInv
<1>1. Init => LogInv
    BY InitLog
<1>2. IInv /\ IInv' /\ LogInv /\ [Next]_vars => LogInv'
    BY StepLog
<1>3. QED
    BY <1>1, <1>2, Invariance, PTL DEF Spec

(* Whatever crashed, failed or was cancelled since, a request whose        *)
(* receipt a caller got is answered by the store: its batch, or one that   *)
(* differs in tool calls only, is kept there, message for message, but for *)
(* what a batch says again under an external id it has named before.       *)
THEOREM AcknowledgedStays == Spec => []AcknowledgedKept
<1>1. LogInv => AcknowledgedKept
    BY DEF LogInv
<1>2. QED
    BY <1>1, LogInvariance, PTL

(* The published tree describes the stored history, however many writers   *)
(* and clears overtook the index() that made it.                           *)
THEOREM TreeStaysTrue == Spec => []TreeDescribesHistory
<1>1. LogInv => TreeDescribesHistory
    BY DEF LogInv, StoreLaw, Described, TreeDescribesHistory
<1>2. QED
    BY <1>1, LogInvariance, PTL

(* The committed database changes by whole operations only: a batch of     *)
(* messages with its receipt, a tree, a clear or a batch of an import, each *)
(* computed from the database that it replaces.                            *)
THEOREM CommitsAreWhole ==
    Spec => [][disk' # disk => \E t \in Tasks : Takes(t) \/ Publishes(t) \/ Clears \/ Loads(t)]_vars
<1> DEFINE Whole == disk' # disk =>
                \E t \in Tasks : Takes(t) \/ Publishes(t) \/ Clears \/ Loads(t)
<1>1. IInv /\ LogInv /\ [Next]_vars => [Whole]_vars
    <2>1. SUFFICES ASSUME IInv, LogInv, Next, disk' # disk
                   PROVE  \E t \in Tasks : Takes(t) \/ Publishes(t) \/ Clears \/ Loads(t)
        OBVIOUS
    <2>2. PICK t \in Tasks : TaskStep(t)
        BY <2>1 DEF Next, Crash
    <2>3. WholeOperation(t)
        BY <2>1, <2>2, StepIsWhole DEF LogInv
    <2>4. QED
        BY <2>1, <2>3 DEF WholeOperation, Reads
<1>2. QED
    BY <1>1, Invariance, LogInvariance, PTL DEF Spec

(* The store implements the log that callers rely on. *)
THEOREM StoreImplementsLog == Spec => ImplementsLog
<1>1. Init => Log!LogInit
    BY DEF Init, EmptyStore, Log!LogInit
<1>2. IInv /\ LogInv /\ [Next]_vars => [Log!LogNext]_(Log!logVars)
    BY StepImplements
<1>3. QED
    BY <1>1, <1>2, Invariance, LogInvariance, PTL DEF Spec, ImplementsLog, Log!LogSpec

-----------------------------------------------------------------------------
(* 3. Readers                                                              *)

(* The inductive invariant *)

(* As long as no clear has run since the capture, the rows of the snapshot *)
(* are the stored ones up to its maxSeq: ingest() numbers behind it, and   *)
(* an import, whose numbers may be lower, needs an empty store.            *)
SameGeneration(v) ==
    /\ v.rows \subseteq disk.messages
    /\ v.maxSeq <= disk.highWater
    /\ v.rows # {} => \A m \in disk.messages : m.seq <= v.maxSeq => m \in v.rows
    /\ \A t \in Tasks : pc[t] \in {"import.commit", "import.next"} => v.rows = {}

ViewInv(v) ==
    /\ v.cacheGeneration \in Nat /\ v.maxSeq \in Nat
    /\ v.cacheGeneration <= disk.cacheGeneration
    /\ v.cacheGeneration = disk.cacheGeneration => SameGeneration(v)

ReaderInv ==
    /\ DOMAIN rpc = Readers /\ DOMAIN view = Readers
    /\ DOMAIN hits = Readers /\ DOMAIN chosen = Readers
    /\ \A r \in Readers :
          /\ ViewInv(view[r])
          /\ hits[r] \cup chosen[r] \subseteq view[r].rows
          /\ rpc[r] = "navigate" => view[r].rows # {}
          /\ rpc[r] = "idle" => chosen[r] = {}

-----------------------------------------------------------------------------
(* The steps of the tasks *)

(* A reader's system is a HistoryStore, whatever its readers do. *)
LEMMA ReadersAreStutters == ReadersSpec => Spec
<1>1. [ReadersNext]_allVars => [Next]_vars
    BY DEF ReadersNext, allVars, CrashAll, Next
<1>2. QED
    BY <1>1, PTL DEF ReadersSpec, Spec

(* Where an import is between two of its batches, and what it came from.   *)
LEMMA ImportEntry ==
    ASSUME IInv, NEW t \in Tasks, TaskStep(t), NEW u \in Tasks,
           pc'[u] \in {"import.commit", "import.next"}
    PROVE  \/ pc[u] \in {"import.commit", "import.next"}
           \/ disk' = disk /\ disk.messages = {}
<1>1. pc \in [Tasks -> Places]
    BY DEF IInv, TypeOK
<1>2. CASE u # t
    BY <1>2, OthersLeft
<1>3. CASE u = t
    <2>1. CASE ImportBody(t)
        <3>1. CASE pc[t] = "import.first"
            <4>1. conn = disk
                BY <3>1, CleanRead
            <4>2. QED
                BY <2>1, <3>1, <4>1 DEF ImportBody, ImportMayGoOn
        <3>2. QED
            BY <1>3, <2>1, <3>1 DEF ImportBody
    <2>2. CASE ImportCommit(t)
        BY <1>3, <2>2 DEF ImportCommit
    <2>3. ~ Finish(t)
        BY <1>1, <1>3 DEF Finish, GoTo
    <2>4. CASE PassGate(t) \/ Export(t) \/ Fail(t) \/ Unanswered(t)
        <3>1. CASE PassGate(t)
            BY <1>1, <1>3, <3>1 DEF PassGate, GoTo, IInv, LockInv, AtGate
        <3>2. QED
            BY <1>3, <2>3, <2>4, <3>1 DEF Export, Fail, Unanswered
    <2>5. CASE Ingest(t)
        BY <1>1, <1>3, <2>3, <2>5 DEF Ingest, IngestCall, IngestBody, IngestReplay,
           IngestRefuse, IngestCommit, BeginWrite, GoTo
    <2>6. CASE Index(t)
        BY <1>1, <1>3, <2>3, <2>6 DEF Index, IndexCapture, IndexPropose, IndexNothing,
           IndexPublish, IndexStale, IndexCommit, BeginWrite, GoTo
    <2>7. CASE ClearHistory(t)
        BY <1>1, <1>3, <2>3, <2>7 DEF ClearHistory, ClearClose, ClearDrained, ClearTimeout,
           ClearBody, ClearCommit, GoTo
    <2>8. CASE ImportHistory(t)
        BY <1>1, <1>3, <2>1, <2>2, <2>3, <2>8 DEF ImportHistory, ImportCall, ImportLock,
           ImportRefuse, BeginWrite, GoTo
    <2>9. QED
        BY <2>4, <2>5, <2>6, <2>7, <2>8 DEF TaskStep
<1>4. QED
    BY <1>2, <1>3

(* Whatever a task commits, a snapshot is of another generation or still   *)
(* the stored rows up to its maxSeq.                                       *)
LEMMA ViewStays ==
    ASSUME IInv, IInv', LogInv, NEW t \in Tasks, TaskStep(t), NEW v, ViewInv(v)
    PROVE  ViewInv(v)'
<1>1. /\ WholeOperation(t) /\ StoreInv(disk)
      /\ disk.cacheGeneration \in Nat /\ disk.highWater \in Nat
      /\ v.cacheGeneration \in Nat /\ v.maxSeq \in Nat
      /\ v.cacheGeneration <= disk.cacheGeneration
    BY StepIsWhole DEF IInv, StoreInv, StoreType, LogInv, ViewInv
<1>2. CASE Clears
    <2>1. disk'.cacheGeneration = disk.cacheGeneration + 1
        BY <1>1, <1>2, ClearColumns DEF Clears
    <2>2. v.cacheGeneration <= disk'.cacheGeneration /\ v.cacheGeneration # disk'.cacheGeneration
        BY <1>1, <2>1
    <2>3. QED
        BY <1>1, <2>2 DEF ViewInv
<1>3. ASSUME disk'.cacheGeneration = disk.cacheGeneration,
             disk.highWater <= disk'.highWater, disk'.highWater \in Nat,
             disk.messages \subseteq disk'.messages,
             SameGeneration(v) /\ v.rows # {} =>
                 \A m \in disk'.messages : m.seq <= v.maxSeq => m \in disk.messages
      PROVE  ViewInv(v)'
    <2>1. SUFFICES ASSUME v.cacheGeneration = disk'.cacheGeneration
                   PROVE  SameGeneration(v)'
        BY <1>1, <1>3 DEF ViewInv
    <2>2. SameGeneration(v)
        BY <1>1, <1>3, <2>1 DEF ViewInv
    <2>3. v.maxSeq <= disk'.highWater
        BY <1>1, <1>3, <2>2 DEF SameGeneration
    <2>4. ASSUME NEW u \in Tasks, pc'[u] \in {"import.commit", "import.next"}
          PROVE  v.rows = {}
        BY <2>2, <2>4, ImportEntry DEF SameGeneration
    <2>5. v.rows # {} => \A m \in disk'.messages : m.seq <= v.maxSeq => m \in v.rows
        BY <1>3, <2>2 DEF SameGeneration
    <2>6. v.rows \subseteq disk'.messages
        BY <1>3, <2>2 DEF SameGeneration
    <2>7. QED
        BY <2>3, <2>4, <2>5, <2>6 DEF SameGeneration
<1>4. CASE Takes(t)
    <2> DEFINE new == NewRows(disk.messages, disk.highWater, req[t])
               last == LastSeq(disk.messages, disk.highWater, req[t])
    <2>1. Len(req[t].msgs) \in Nat
        BY <1>4, RequestsAssumption DEF Takes
    <2>2. /\ disk'.cacheGeneration = disk.cacheGeneration
          /\ disk'.highWater = last
          /\ disk'.messages = disk.messages \cup new
        BY <1>1, <1>4, IngestColumns DEF Takes
    <2>3. last \in Nat /\ disk.highWater <= last
        BY <1>1, <2>1, SeqAtGrows
    <2>4. \A w \in new : w.seq \in (disk.highWater + 1)..last
        <3>1. {w.seq : w \in new} = (disk.highWater + 1)..last
            BY <1>1, <2>1, NewRowsNumbered
        <3>2. QED
            BY <3>1
    <2> HIDE DEF new, last
    <2>5. SameGeneration(v) => \A w \in new : ~ (w.seq <= v.maxSeq)
        BY <1>1, <2>3, <2>4 DEF SameGeneration
    <2>6. QED
        BY <1>3, <2>2, <2>3, <2>5
<1>5. CASE Publishes(t)
    <2>1. /\ disk'.cacheGeneration = disk.cacheGeneration
          /\ disk'.highWater = disk.highWater /\ disk'.messages = disk.messages
        BY <1>1, <1>5, PublishColumns DEF Publishes
    <2>2. QED
        BY <1>1, <1>3, <2>1
<1>6. CASE Loads(t)
    <2>1. PICK batch : disk' = AfterImportBatch(disk, batch)
        BY <1>6 DEF Loads
    <2>2. /\ disk'.cacheGeneration = disk.cacheGeneration
          /\ disk'.messages = disk.messages \cup batch
          /\ disk'.historyRevision = disk.historyRevision + 1
        BY <1>1, <2>1, ImportColumns
    <2>3. /\ Numbered(disk.messages \cup batch) /\ disk'.highWater \in Nat
          /\ disk'.historyRevision \in 0..MaxRevision
          /\ disk.historyRevision \in 0..MaxRevision
        BY <2>2 DEF IInv, StoreInv, StoreType
    <2>4. disk.historyRevision < MaxRevision
        BY <2>2, <2>3, BoundsAssumption
    <2>5. disk.highWater <= disk'.highWater
        BY <1>1, <2>1, <2>3, <2>4, AfterImportBatchInv
    <2>6. SameGeneration(v) => v.rows = {}
        BY <1>6 DEF Loads, SameGeneration
    <2>7. QED
        BY <1>3, <2>2, <2>3, <2>5, <2>6
<1>7. CASE Reads(t)
    <2>1. disk' = disk
        BY <1>7 DEF Reads
    <2>2. QED
        BY <1>1, <1>3, <2>1
<1>8. QED
    BY <1>1, <1>2, <1>4, <1>5, <1>6, <1>7 DEF WholeOperation

-----------------------------------------------------------------------------
(* ReaderInv holds initially, and every step preserves it. *)

(* A view that holds nothing is of any generation. *)
LEMMA EmptyView ==
    ASSUME IInv
    PROVE  ViewInv(NoView)
<1>1. disk.cacheGeneration \in Nat /\ disk.highWater \in Nat
    BY DEF IInv, StoreInv, StoreType
<1>2. QED
    BY <1>1 DEF ViewInv, SameGeneration, NoView

(* What a reader captures under the lock are the committed rows. *)
LEMMA CapturedView ==
    ASSUME IInv, NEW r \in Readers, DOMAIN view = Readers, Capture(r)
    PROVE  /\ ViewInv(view'[r])
           /\ view'[r].rows = disk.messages
<1>1. conn = disk /\ lock = NoTask
    BY DEF IInv, DirtyOnlyUnderLock, Capture
<1> DEFINE v == view'[r]
<1>2. /\ v.cacheGeneration = disk.cacheGeneration
      /\ v.maxSeq = disk.highWater /\ v.rows = disk.messages
    BY <1>1 DEF Capture
<1>3. disk.cacheGeneration \in Nat /\ disk.highWater \in Nat
    BY DEF IInv, StoreInv, StoreType
<1>4. \A t \in Tasks : pc[t] \notin {"import.commit", "import.next"}
    BY <1>1, RequestsAssumption DEF IInv, LockInv, Locking, Committing
<1> HIDE DEF v
<1>5. SameGeneration(v)
    BY <1>2, <1>3, <1>4 DEF SameGeneration
<1>6. QED
    BY <1>2, <1>3, <1>5 DEF ViewInv, v

(* A step of a reader. *)
LEMMA ReadKeepsViews ==
    ASSUME IInv, LogInv, ReaderInv, NEW r \in Readers, Read(r), UNCHANGED vars
    PROVE  ReaderInv'
<1>1. /\ DOMAIN rpc = Readers /\ DOMAIN view = Readers
      /\ DOMAIN hits = Readers /\ DOMAIN chosen = Readers
    BY DEF ReaderInv
<1>2. /\ DOMAIN rpc' = Readers /\ DOMAIN view' = Readers
      /\ DOMAIN hits' = Readers /\ DOMAIN chosen' = Readers
      /\ \A q \in Readers \ {r} :
            /\ rpc'[q] = rpc[q] /\ view'[q] = view[q]
            /\ hits'[q] = hits[q] /\ chosen'[q] = chosen[q]
    BY <1>1 DEF Read, Capture, Navigate, EndNavigation, FallBack, Recheck, ReadRecent,
                ReturnContext, Conflict, Leave, RGoTo
<1>3. /\ ViewInv(view[r])
      /\ hits[r] \cup chosen[r] \subseteq view[r].rows
      /\ rpc[r] = "navigate" => view[r].rows # {}
      /\ rpc[r] = "idle" => chosen[r] = {}
    BY DEF ReaderInv
<1>4. /\ ViewInv(view'[r])
      /\ hits'[r] \cup chosen'[r] \subseteq view'[r].rows
      /\ rpc'[r] = "navigate" => view'[r].rows # {}
      /\ rpc'[r] = "idle" => chosen'[r] = {}
    <2>1. CASE Capture(r)
        <3>1. ViewInv(view'[r]) /\ view'[r].rows = disk.messages
            BY <1>1, <2>1, CapturedView
        <3>2. conn = disk
            BY <2>1 DEF IInv, DirtyOnlyUnderLock, Capture
        <3>3. hits'[r] \subseteq disk.messages /\ chosen'[r] = {}
            BY <1>1, <1>3, <2>1, <3>2 DEF Capture
        <3>4. rpc'[r] = IF disk.leaves = {} THEN "recheck" ELSE "navigate"
            BY <1>1, <2>1, <3>2 DEF Capture, RGoTo
        <3>5. disk.leaves # {} => disk.messages # {}
            BY DEF LogInv, StoreLaw, Bare
        <3>6. QED
            BY <3>1, <3>3, <3>4, <3>5
    <2>2. CASE Navigate(r)
        <3>1. conn = disk
            BY <2>2 DEF IInv, DirtyOnlyUnderLock, Navigate
        <3>2. SameGeneration(view[r]) /\ view[r].rows # {}
            BY <1>3, <2>2, <3>1 DEF Navigate, SameTree, ViewInv
        <3>3. {m \in disk.messages : m.seq <= view[r].maxSeq} \subseteq view[r].rows
            BY <3>2 DEF SameGeneration
        <3>4. chosen'[r] \subseteq chosen[r] \cup
                  {m \in disk.messages : m.seq <= view[r].maxSeq}
            BY <1>1, <2>2, <3>1 DEF Navigate
        <3>5. UNCHANGED <<rpc, view, hits>> /\ rpc[r] = "navigate"
            BY <2>2 DEF Navigate
        <3>6. QED
            BY <1>3, <3>3, <3>4, <3>5
    <2>3. CASE EndNavigation(r) \/ FallBack(r) \/ Recheck(r) \/ ReadRecent(r)
        <3>1. UNCHANGED <<view, hits>> /\ chosen'[r] \subseteq chosen[r]
              /\ rpc'[r] \in {"recheck", "recent", "final"}
            BY <1>1, <2>3 DEF EndNavigation, FallBack, Recheck, ReadRecent, RGoTo
        <3>2. QED
            BY <1>3, <3>1
    <2>4. CASE ReturnContext(r) \/ Conflict(r)
        <3>1. /\ view'[r] = NoView /\ hits'[r] = {} /\ chosen'[r] = {}
              /\ rpc'[r] = "idle"
            BY <1>1, <2>4 DEF ReturnContext, Conflict, Leave, RGoTo
        <3>2. QED
            BY <3>1, EmptyView
    <2>5. QED
        BY <2>1, <2>2, <2>3, <2>4 DEF Read
<1>5. ASSUME NEW q \in Readers
      PROVE  /\ ViewInv(view'[q])
             /\ hits'[q] \cup chosen'[q] \subseteq view'[q].rows
             /\ rpc'[q] = "navigate" => view'[q].rows # {}
             /\ rpc'[q] = "idle" => chosen'[q] = {}
    BY <1>2, <1>4 DEF ReaderInv
<1>6. ASSUME NEW q \in Readers
      PROVE  ViewInv(view[q])'
    <2>1. ViewInv(view'[q]) /\ disk' = disk /\ pc' = pc
        BY <1>5 DEF vars
    <2>2. QED
        BY <2>1 DEF ViewInv, SameGeneration
<1>7. QED
    BY <1>2, <1>5, <1>6 DEF ReaderInv

(* Every step of the system. *)
LEMMA ReadersStep ==
    IInv /\ IInv' /\ LogInv /\ ReaderInv /\ [ReadersNext]_allVars => ReaderInv'
<1> SUFFICES ASSUME IInv, IInv', LogInv, ReaderInv, [ReadersNext]_allVars
             PROVE  ReaderInv'
    OBVIOUS
<1>1. CASE UNCHANGED allVars
    BY <1>1 DEF allVars, vars, readerVars, ReaderInv, ViewInv, SameGeneration
<1>2. ASSUME NEW t \in Tasks, TaskStep(t), UNCHANGED readerVars
      PROVE  ReaderInv'
    <2>1. ASSUME NEW r \in Readers
          PROVE  ViewInv(view[r])'
        <3>1. PICK v : v = view[r]
            OBVIOUS
        <3>2. ViewInv(v)
            BY <3>1 DEF ReaderInv
        <3>3. ViewInv(v)'
            BY <1>2, <3>2, ViewStays
        <3>4. view'[r] = v
            BY <1>2, <3>1 DEF readerVars
        <3>5. QED
            BY <3>3, <3>4 DEF ViewInv, SameGeneration
    <2>2. QED
        BY <1>2, <2>1 DEF readerVars, ReaderInv
<1>3. ASSUME NEW r \in Readers, Read(r), UNCHANGED vars
      PROVE  ReaderInv'
    BY <1>3, ReadKeepsViews
<1>4. CASE CrashAll
    <2>1. PICK v : v = NoView
        OBVIOUS
    <2>2. ViewInv(v)'
        <3>1. disk'.cacheGeneration \in Nat /\ disk'.highWater \in Nat
            BY DEF IInv, StoreInv, StoreType
        <3>2. QED
            BY <2>1, <3>1 DEF ViewInv, SameGeneration, NoView
    <2>3. ASSUME NEW r \in Readers
          PROVE  ViewInv(view[r])'
        <3>1. view'[r] = v
            BY <1>4, <2>1 DEF CrashAll
        <3>2. QED
            BY <2>2, <3>1 DEF ViewInv, SameGeneration
    <2>4. QED
        BY <1>4, <2>3 DEF CrashAll, ReaderInv, NoView
<1>5. QED
    BY <1>1, <1>2, <1>3, <1>4 DEF ReadersNext

-----------------------------------------------------------------------------
(* Theorems *)

(* ReaderInv holds in every reachable state, beside the writers' own. *)
THEOREM ReadersInvariance == ReadersSpec => [](IInv /\ LogInv /\ ReaderInv)
<1>1. Init /\ ReaderInit => ReaderInv
    <2>1. SUFFICES ASSUME Init, ReaderInit PROVE ReaderInv
        OBVIOUS
    <2>2. ViewInv(NoView)
        BY <2>1, InitInv, EmptyView
    <2>3. QED
        BY <2>1, <2>2 DEF ReaderInit, ReaderInv, NoView
<1>2. IInv /\ IInv' /\ LogInv /\ ReaderInv /\ [ReadersNext]_allVars => ReaderInv'
    BY ReadersStep
<1>3. QED
    BY <1>1, <1>2, ReadersAreStutters, Invariance, LogInvariance, PTL DEF ReadersSpec

(* Evidence belongs to its snapshot: tree navigation that runs long after  *)
(* the capture adds nothing that was appended later.                       *)
THEOREM EvidenceOfSnapshot == ReadersSpec => []EvidenceInSnapshot
<1>1. ReaderInv => EvidenceInSnapshot
    BY DEF ReaderInv, EvidenceInSnapshot, Evidence
<1>2. QED
    BY <1>1, ReadersInvariance, PTL

(* A snapshot of the present generation is stored. *)
LEMMA StoredEvidence ==
    ASSUME IInv, ReaderInv, NEW r \in Readers, lock = NoTask,
           conn.cacheGeneration = view[r].cacheGeneration
    PROVE  Evidence(r) \subseteq disk.messages
<1>1. conn = disk
    BY DEF IInv, DirtyOnlyUnderLock
<1>2. view[r].rows \subseteq disk.messages
    BY <1>1 DEF ReaderInv, ViewInv, SameGeneration
<1>3. QED
    BY <1>2 DEF ReaderInv, Evidence

(* The evidence that retrieve() returns is committed at that moment.       *)
THEOREM RetrievedIsStored == ReadersSpec => RetrieveReturnsStored
<1> DEFINE Held == \A r \in Readers :
               rpc[r] = "recheck" /\ rpc'[r] = "recent" =>
                   hits'[r] \cup chosen'[r] \subseteq disk.messages
<1>1. IInv /\ ReaderInv /\ [ReadersNext]_allVars => [Held]_allVars
    <2>1. SUFFICES ASSUME IInv, ReaderInv, ReadersNext,
                          NEW r \in Readers, rpc[r] = "recheck", rpc'[r] = "recent"
                   PROVE  hits'[r] \cup chosen'[r] \subseteq disk.messages
        OBVIOUS
    <2>2. DOMAIN rpc = Readers /\ DOMAIN chosen = Readers
        BY <2>1 DEF ReaderInv
    <2>3. ~ UNCHANGED readerVars /\ ~ CrashAll
        BY <2>1 DEF readerVars, CrashAll
    <2>4. PICK q \in Readers : Read(q)
        BY <2>1, <2>3 DEF ReadersNext
    <2>5. Recheck(r)
        BY <2>1, <2>2, <2>4 DEF Read, Capture, Navigate, EndNavigation, FallBack, Recheck,
                                ReadRecent, ReturnContext, Conflict, Leave, RGoTo
    <2>6. hits' = hits /\ chosen'[r] \subseteq chosen[r]
        BY <2>2, <2>5 DEF Recheck
    <2>7. Evidence(r) \subseteq disk.messages
        BY <2>1, <2>5, StoredEvidence DEF Recheck
    <2>8. QED
        BY <2>6, <2>7 DEF Evidence
<1>2. QED
    BY <1>1, ReadersInvariance, PTL DEF ReadersSpec, RetrieveReturnsStored

(* When a context is handed to the caller, what retrieve() found for it is *)
(* still stored: a clear that ran while it was assembled is noticed.       *)
THEOREM ContextIsStored == ReadersSpec => ContextSurvivesNoClear
<1> DEFINE Survives == \A r \in Readers :
               ReturnContext(r) => Evidence(r) \subseteq disk.messages
<1>1. IInv /\ ReaderInv => Survives
    BY StoredEvidence DEF ReturnContext
<1>2. QED
    BY <1>1, ReadersInvariance, PTL DEF ReadersSpec, ContextSurvivesNoClear
=============================================================================
