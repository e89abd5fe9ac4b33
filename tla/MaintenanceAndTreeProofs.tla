---------------------- MODULE MaintenanceAndTreeProofs ----------------------
(***************************************************************************)
(* Proofs about Maintenance, for any number of processes, backup paths,    *)
(* messages and revisions: a store that is accepted has exact search       *)
(* tables, and the backup of a maintenance is the store that it replaced.  *)
(*                                                                         *)
(* Then proofs about TreePlan, for any number of children, chunks, limits  *)
(* and calls: the published tree is whole, each summary is of just the     *)
(* children that its parent has, and a limit that pays for one parent at   *)
(* each level and one above always pays for a next chunk.  The two modules *)
(* share no definition.                                                    *)
(***************************************************************************)
EXTENDS Maintenance, TreePlan, SetsAndQueues

-----------------------------------------------------------------------------
(* Maintenance: the inductive invariant *)

Fields(s) ==
    s = [schema |-> s.schema, messages |-> s.messages, next |-> s.next,
         revision |-> s.revision, searchRevision |-> s.searchRevision,
         fts |-> s.fts, map |-> s.map, damaged |-> s.damaged]

(* A table has finitely many rows, with numbers. *)
TableInv(table) == Rows(table) \in SUBSET Nat /\ IsFiniteSet(Rows(table))

(* What no rewriting, write, damage or older SDK gives up: the revision of *)
(* the search tables never runs ahead, and where it is the store's, the    *)
(* tables are exact, unless they were damaged.                             *)
StoreInv(s) ==
    /\ Fields(s) /\ s.schema \in {1, 2}
    /\ s.messages \in SUBSET Nat /\ IsFiniteSet(s.messages)
    /\ s.next \in Nat /\ \A m \in s.messages : m < s.next
    /\ s.revision \in Nat /\ s.searchRevision \in Nat /\ s.searchRevision <= s.revision
    /\ TableInv(s.fts) /\ TableInv(s.map)
    /\ Current(s) /\ ~s.damaged => ValidFts(s) /\ ValidMap(s)

Writing == {"reserve", "copy", "rewrite"}

(* The store stands still while a maintenance is under way, which has its  *)
(* backup path for itself.                                                 *)
WriterInv ==
    /\ \A p \in Processes : pc[p] \in Writing <=> writer = p
    /\ \A p \in Processes : writer = p => IsStore(disk) /\ path \in Paths
    /\ \A p \in Processes : pc[p] \in {"copy", "rewrite"} => replaced[path] = NoFile
    /\ \A p \in Processes : pc[p] = "rewrite" => backups[path] = disk

(* The older SDK has only stores open. *)
OldInv == \A p \in Processes : pc[p] = "old" => IsStore(disk)

IInv ==
    /\ DOMAIN pc = Processes /\ DOMAIN backups = Paths /\ DOMAIN replaced = Paths
    /\ disk \in {NoFile, EmptyFile, NoTables} \/ StoreInv(disk)
    /\ OldInv /\ WriterInv
    /\ BackupIsWhatWasReplaced


-----------------------------------------------------------------------------
(* The tables *)

LEMMA FreshRow ==
    ASSUME NEW table, TableInv(table)
    PROVE  Top(table) + 1 \in Nat /\ Top(table) + 1 \notin Rows(table)
<1>1. PICK R : R = Rows(table) \cup {0}
    OBVIOUS
<1>2. R \in SUBSET Nat /\ R # {} /\ IsFiniteSet(R)
    BY <1>1, FS_AddElement DEF TableInv
<1>3. Max(R) \in R /\ \A x \in R : x <= Max(R)
    BY <1>2, MaxOfFinite
<1>4. Top(table) = Max(R)
    BY <1>1 DEF Top
<1>5. \A x \in Rows(table) : x \in R
    BY <1>1
<1>6. Max(R) \in Nat /\ Max(R) + 1 \notin Rows(table)
    <2>1. Max(R) \in Nat
        BY <1>2, <1>3
    <2>2. \A x \in R : x # Max(R) + 1
        BY <1>2, <1>3, <2>1
    <2>3. QED
        BY <1>5, <2>1, <2>2
<1>7. QED
    BY <1>4, <1>6

LEMMA RowsAdded ==
    ASSUME NEW s, NEW table, table # Gone, TableInv(table), TableInv(s.fts)
    PROVE  TableInv(Added(s, table))
<1>1. PICK x : x = Top(s.fts) + 1
    OBVIOUS
<1>2. x \in Nat
    BY <1>1, FreshRow
<1>3. DOMAIN Added(s, table) = Rows(table) \cup {x}
    BY <1>1 DEF Added, Rows
<1>4. IsFiniteSet(Rows(table) \cup {x}) /\ Rows(table) \cup {x} \in SUBSET Nat
    BY <1>2, FS_AddElement DEF TableInv
<1>5. CASE Added(s, table) = Gone
    BY <1>5, FS_EmptySet DEF TableInv, Rows
<1>6. CASE Added(s, table) # Gone
    BY <1>3, <1>4, <1>6 DEF TableInv, Rows
<1>7. QED
    BY <1>5, <1>6

(* A message more, a row more. *)
LEMMA CompleteAdded ==
    ASSUME NEW s, StoreInv(s), ValidFts(s), Added(s, s.fts) # Gone
    PROVE  Complete(Added(s, s.fts), s.messages \cup {s.next})
<1>1. PICK x, t, new : x = Top(s.fts) + 1 /\ t = s.fts /\ new = Added(s, s.fts)
    OBVIOUS
<1>2. /\ t # Gone /\ {t[r] : r \in Rows(t)} = s.messages
      /\ Cardinality(Rows(t)) = Cardinality(s.messages)
    BY <1>1 DEF ValidFts, Complete
<1>3. TableInv(t) /\ IsFiniteSet(Rows(t)) /\ IsFiniteSet(s.messages) /\ s.next \notin s.messages
    BY <1>1 DEF StoreInv, TableInv
<1>4. x \notin Rows(t)
    BY <1>1, <1>3, FreshRow
<1>5. /\ Rows(new) = Rows(t) \cup {x} /\ new[x] = s.next
      /\ \A r \in Rows(t) : new[r] = t[r]
    <2>1. new = [r \in Rows(t) \cup {x} |-> IF r = x THEN s.next ELSE t[r]]
        BY <1>1, <1>2 DEF Added, Rows
    <2>2. new # Gone
        BY <1>1
    <2>3. QED
        BY <1>4, <2>1, <2>2 DEF Rows
<1>6. {new[r] : r \in Rows(new)} = s.messages \cup {s.next}
    BY <1>2, <1>5
<1>7. Cardinality(Rows(t) \cup {x}) = Cardinality(s.messages \cup {s.next})
    <2>1. Cardinality(Rows(t) \cup {x}) = Cardinality(Rows(t)) + 1
        BY <1>3, <1>4, FS_AddElement
    <2>2. Cardinality(s.messages \cup {s.next}) = Cardinality(s.messages) + 1
        BY <1>3, FS_AddElement
    <2>3. QED
        BY <1>2, <2>1, <2>2
<1>8. QED
    BY <1>1, <1>5, <1>6, <1>7 DEF Complete

LEMMA RowidsInv ==
    ASSUME NEW s, StoreInv(s)
    PROVE  TableInv(Rowids(s))
<1>1. Rowids(s) \in {s.fts, s.map, InOrder(s.messages)}
    BY DEF Rowids
<1>2. TableInv(InOrder(s.messages))
    <2>1. PICK n : n = Cardinality(s.messages)
        OBVIOUS
    <2>2. n \in Nat
        BY <2>1, FS_CardinalityType DEF StoreInv
    <2>3. DOMAIN InOrder(s.messages) = 1..n
        BY <2>1 DEF InOrder
    <2>4. IsFiniteSet(1..n) /\ 1..n \in SUBSET Nat /\ IsFiniteSet({})
        BY <2>2, FS_Interval, FS_EmptySet
    <2>5. Rows(InOrder(s.messages)) \in {{}, 1..n}
        BY <2>3 DEF Rows
    <2>6. QED
        BY <2>4, <2>5 DEF TableInv
<1>3. QED
    BY <1>1, <1>2 DEF StoreInv

-----------------------------------------------------------------------------
(* What is done to a store *)

LEMMA NewStoreInv == StoreInv(NewStore)
<1>1. PICK s : s = NewStore
    OBVIOUS
<1>2. /\ s.schema = 2 /\ s.messages = {} /\ s.next = 1 /\ s.revision = 0
      /\ s.searchRevision = 0 /\ s.fts = <<>> /\ s.map = <<>> /\ ~s.damaged /\ Fields(s)
    BY <1>1 DEF NewStore, Fields
<1>3. DOMAIN <<>> = {} /\ IsFiniteSet({}) /\ Cardinality({}) = 0
    BY FS_EmptySet
<1>4. Rows(s.fts) = {} /\ Rows(s.map) = {}
    BY <1>2, <1>3 DEF Rows
<1>5. TableInv(s.fts) /\ TableInv(s.map)
    BY <1>3, <1>4 DEF TableInv
<1>6. Current(s) => ValidFts(s) /\ ValidMap(s)
    BY <1>2, <1>3, <1>4 DEF Current, ValidFts, ValidMap, Complete
<1>7. StoreInv(s)
    BY <1>2, <1>3, <1>5, <1>6 DEF StoreInv
<1>8. QED
    BY <1>1, <1>7

LEMMA OldStoreInv == StoreInv(OldStore)
<1>1. PICK s : s = OldStore
    OBVIOUS
<1>2. /\ s.schema = 1 /\ s.messages = {1} /\ s.next = 2 /\ s.revision = 1
      /\ s.searchRevision = 0 /\ s.fts = <<1>> /\ s.map = Gone /\ Fields(s)
    BY <1>1 DEF OldStore, Fields
<1>3. DOMAIN <<1>> = {1} /\ IsFiniteSet({}) /\ IsFiniteSet({1})
    BY FS_EmptySet, FS_Singleton
<1>4. Rows(s.fts) \in {{}, {1}} /\ Rows(s.map) = {}
    BY <1>2, <1>3 DEF Rows
<1>5. TableInv(s.fts) /\ TableInv(s.map)
    BY <1>3, <1>4 DEF TableInv
<1>6. ~Current(s)
    BY <1>2 DEF Current
<1>7. StoreInv(s)
    BY <1>2, <1>3, <1>5, <1>6 DEF StoreInv
<1>8. QED
    BY <1>1, <1>7

LEMMA WriteKeeps ==
    ASSUME NEW s, StoreInv(s), Current(s), s.fts # Gone
    PROVE  StoreInv(AfterWrite(s))
<1>1. PICK t : t = AfterWrite(s)
    OBVIOUS
<1>2. /\ t.schema = 2 /\ t.messages = s.messages \cup {s.next} /\ t.next = s.next + 1
      /\ t.revision = s.revision + 1 /\ t.searchRevision = s.searchRevision + 1
      /\ t.fts = Added(s, s.fts) /\ t.map = Added(s, s.map) /\ t.damaged = s.damaged
      /\ Fields(t)
    BY <1>1 DEF AfterWrite, StoreInv, Fields, Current
<1>3. TableInv(t.fts) /\ TableInv(t.map)
    BY <1>2, RowsAdded DEF StoreInv, Current
<1>4. /\ t.messages \in SUBSET Nat /\ t.next \in Nat /\ \A m \in t.messages : m < t.next
      /\ t.revision \in Nat /\ t.searchRevision \in Nat /\ t.searchRevision <= t.revision
    BY <1>2 DEF StoreInv
<1>5. IsFiniteSet(t.messages)
    BY <1>2, FS_AddElement DEF StoreInv
<1>6. ASSUME Current(t), ~t.damaged
      PROVE  ValidFts(t) /\ ValidMap(t)
    <2>1. ValidFts(s) /\ s.map = s.fts
        BY <1>2, <1>6 DEF StoreInv, ValidMap
    <2>2. t.map = t.fts /\ t.fts # Gone
        BY <1>2, <1>6, <2>1 DEF Current
    <2>3. Complete(t.fts, t.messages)
        BY <1>2, <2>1, <2>2, CompleteAdded
    <2>4. QED
        BY <2>2, <2>3 DEF ValidFts, ValidMap
<1>7. QED
    BY <1>1, <1>2, <1>3, <1>4, <1>5, <1>6 DEF StoreInv

LEMMA ClearKeeps ==
    ASSUME NEW s, StoreInv(s)
    PROVE  StoreInv(AfterClear(s))
<1>1. PICK t : t = AfterClear(s)
    OBVIOUS
<1>2. /\ t.schema = s.schema /\ t.messages = {} /\ t.next = s.next
      /\ t.revision = s.revision + 1 /\ t.searchRevision = s.searchRevision + 1
      /\ t.fts = <<>> /\ t.map = <<>> /\ Fields(t)
    BY <1>1 DEF AfterClear, StoreInv, Fields
<1>3. DOMAIN <<>> = {} /\ IsFiniteSet({}) /\ Cardinality({}) = 0
    BY FS_EmptySet
<1>4. Rows(t.fts) = {} /\ Rows(t.map) = {}
    BY <1>2, <1>3 DEF Rows
<1>5. TableInv(t.fts) /\ TableInv(t.map)
    BY <1>3, <1>4 DEF TableInv
<1>6. Current(t) => ValidFts(t) /\ ValidMap(t)
    BY <1>2, <1>3, <1>4 DEF Current, ValidFts, ValidMap, Complete
<1>7. t.revision \in Nat /\ t.searchRevision \in Nat /\ t.searchRevision <= t.revision
    BY <1>2 DEF StoreInv
<1>8. StoreInv(t)
    BY <1>2, <1>3, <1>5, <1>6, <1>7 DEF StoreInv
<1>9. QED
    BY <1>1, <1>8

(* After a write of the older SDK nobody accepts the store. *)
LEMMA OldWriteKeeps ==
    ASSUME NEW s, StoreInv(s), s.fts # Gone
    PROVE  StoreInv(AfterOldWrite(s))
<1>1. PICK t : t = AfterOldWrite(s)
    OBVIOUS
<1>2. /\ t.schema = s.schema /\ t.messages = s.messages \cup {s.next} /\ t.next = s.next + 1
      /\ t.revision = s.revision + 1 /\ t.searchRevision = s.searchRevision
      /\ t.fts = Added(s, s.fts) /\ t.map = s.map /\ Fields(t)
    BY <1>1 DEF AfterOldWrite, StoreInv, Fields
<1>3. TableInv(t.fts) /\ TableInv(t.map)
    BY <1>2, RowsAdded DEF StoreInv
<1>4. /\ t.messages \in SUBSET Nat /\ t.next \in Nat /\ \A m \in t.messages : m < t.next
      /\ t.revision \in Nat /\ t.searchRevision \in Nat /\ t.searchRevision <= t.revision
      /\ t.revision # t.searchRevision
    BY <1>2 DEF StoreInv
<1>5. IsFiniteSet(t.messages)
    BY <1>2, FS_AddElement DEF StoreInv
<1>6. ~Current(t)
    BY <1>4 DEF Current
<1>7. QED
    BY <1>1, <1>2, <1>3, <1>4, <1>5, <1>6 DEF StoreInv

LEMMA OldClearKeeps ==
    ASSUME NEW s, StoreInv(s)
    PROVE  StoreInv(AfterOldClear(s))
<1>1. PICK t : t = AfterOldClear(s)
    OBVIOUS
<1>2. /\ t.schema = s.schema /\ t.messages = {} /\ t.next = s.next
      /\ t.revision = s.revision + 1 /\ t.searchRevision = s.searchRevision
      /\ t.fts = <<>> /\ t.map = s.map /\ Fields(t)
    BY <1>1 DEF AfterOldClear, StoreInv, Fields
<1>3. DOMAIN <<>> = {} /\ IsFiniteSet({})
    BY FS_EmptySet
<1>4. TableInv(t.fts) /\ TableInv(t.map)
    <2>1. Rows(t.fts) = {}
        BY <1>2, <1>3 DEF Rows
    <2>2. QED
        BY <1>2, <1>3, <2>1 DEF TableInv, StoreInv
<1>5. /\ t.revision \in Nat /\ t.searchRevision \in Nat /\ t.searchRevision <= t.revision
      /\ t.revision # t.searchRevision
    BY <1>2 DEF StoreInv
<1>6. ~Current(t)
    BY <1>5 DEF Current
<1>7. StoreInv(t)
    BY <1>2, <1>3, <1>4, <1>5, <1>6 DEF StoreInv
<1>8. QED
    BY <1>1, <1>7

LEMMA MaintainKeeps ==
    ASSUME NEW s, StoreInv(s), ValidFts(Maintained(s)), ValidMap(Maintained(s))
    PROVE  StoreInv(Maintained(s))
<1>1. PICK t : t = Maintained(s)
    OBVIOUS
<1>2. /\ t.schema = 2 /\ t.messages = s.messages /\ t.next = s.next
      /\ t.revision = s.revision /\ t.searchRevision = s.revision
      /\ t.fts \in {s.fts, Rowids(s)} /\ t.map \in {s.fts, Rowids(s)} /\ Fields(t)
    <2>1. CASE s.schema = 2
        BY <1>1, <2>1 DEF Maintained, Rebuilt, StoreInv, Fields
    <2>2. CASE s.schema # 2
        BY <1>1, <2>2 DEF Maintained, Migrated, StoreInv, Fields
    <2>3. QED
        BY <2>1, <2>2
<1>3. TableInv(t.fts) /\ TableInv(t.map)
    BY <1>2, RowidsInv DEF StoreInv
<1>4. t.searchRevision <= t.revision /\ t.revision \in Nat
    BY <1>2 DEF StoreInv
<1>5. ValidFts(t) /\ ValidMap(t)
    BY <1>1
<1>6. StoreInv(t)
    BY <1>2, <1>3, <1>4, <1>5 DEF StoreInv
<1>7. QED
    BY <1>1, <1>6


(* Damage is not taken for a sound store. *)
LEMMA DamageKeeps ==
    ASSUME NEW s, StoreInv(s), NEW t, t.damaged, TableInv(t.fts), TableInv(t.map),
           t \in {[s EXCEPT !.fts = t.fts, !.damaged = TRUE],
                  [s EXCEPT !.map = t.map, !.damaged = TRUE]}
    PROVE  StoreInv(t)
<1>1. /\ t.schema = s.schema /\ t.messages = s.messages /\ t.next = s.next
      /\ t.revision = s.revision /\ t.searchRevision = s.searchRevision /\ Fields(t)
    <2>1. CASE t = [s EXCEPT !.fts = t.fts, !.damaged = TRUE]
        BY <2>1 DEF StoreInv, Fields
    <2>2. CASE t = [s EXCEPT !.map = t.map, !.damaged = TRUE]
        BY <2>2 DEF StoreInv, Fields
    <2>3. QED
        BY <2>1, <2>2
<1>2. QED
    BY <1>1 DEF StoreInv

-----------------------------------------------------------------------------
(* The steps of the proof *)

Files == {NoFile, EmptyFile, NoTables}

LEMMA FilesAreNoStores == \A f \in Files : f.schema = 0
<1>1. NoFile.schema = 0 /\ EmptyFile.schema = 0 /\ NoTables.schema = 0
    <2>1. \A kind : File(kind).schema = 0
        BY DEF File
    <2>2. QED
        BY <2>1 DEF NoFile, EmptyFile, NoTables
<1>2. QED
    BY <1>1 DEF Files

LEMMA StoreOrFile ==
    ASSUME IInv
    PROVE  IsStore(disk) <=> StoreInv(disk)
<1>1. \A f \in Files : ~IsStore(f) /\ ~StoreInv(f)
    BY FilesAreNoStores DEF IsStore, StoreInv
<1>2. StoreInv(disk) => IsStore(disk)
    BY DEF StoreInv, IsStore
<1>3. QED
    BY <1>1, <1>2 DEF IInv, Files

LEMMA InitIInv == MaintenanceInit => IInv
<1>1. SUFFICES ASSUME MaintenanceInit PROVE IInv
    OBVIOUS
<1>2. \A p \in Processes : pc[p] \notin Writing /\ pc[p] # "rewrite" /\ writer # p
    BY <1>1, MaintenanceAssumption DEF MaintenanceInit, Writing
<1>3. WriterInv
    BY <1>2 DEF WriterInv, Writing
<1>4. BackupIsWhatWasReplaced
    BY <1>1 DEF MaintenanceInit, BackupIsWhatWasReplaced
<1>5. disk \in Files \/ StoreInv(disk)
    BY <1>1, OldStoreInv DEF MaintenanceInit, Files
<1>6. DOMAIN pc = Processes /\ DOMAIN backups = Paths /\ DOMAIN replaced = Paths
    BY <1>1 DEF MaintenanceInit
<1>7. OldInv
    BY <1>1 DEF MaintenanceInit, OldInv
<1>8. QED
    BY <1>3, <1>4, <1>5, <1>6, <1>7 DEF IInv, Files

(* A step outside any maintenance. *)
LEMMA OutsideKeeps ==
    ASSUME IInv, UNCHANGED <<backups, replaced, writer, path>>,
           disk' \in Files \/ StoreInv(disk'),
           disk' = disk \/ writer \notin Processes,
           DOMAIN pc' = Processes,
           \A p \in Processes : pc'[p] = pc[p] \/ (pc[p] \notin Writing /\ pc'[p] \notin Writing),
           IsStore(disk) => IsStore(disk'),
           \A p \in Processes : pc'[p] = "old" => pc[p] = "old" \/ IsStore(disk')
    PROVE  IInv'
<1>1. WriterInv
    BY DEF IInv
<1>2. \A p \in Processes : (pc'[p] \in Writing <=> pc[p] \in Writing)
            /\ (pc'[p] \in Writing => pc'[p] = pc[p])
    OBVIOUS
<1>3. \A p \in Processes : writer = p => disk' = disk
    OBVIOUS
<1>4. WriterInv'
    <2>1. \A p \in Processes : pc'[p] \in Writing <=> writer' = p
        BY <1>1, <1>2 DEF WriterInv
    <2>2. \A p \in Processes : writer' = p => IsStore(disk') /\ path' \in Paths
        BY <1>1, <1>3 DEF WriterInv
    <2>3. \A p \in Processes : pc'[p] \in {"copy", "rewrite"} => replaced'[path'] = NoFile
        BY <1>1, <1>2 DEF WriterInv, Writing
    <2>4. \A p \in Processes : pc'[p] = "rewrite" => backups'[path'] = disk'
        BY <1>1, <1>2, <1>3 DEF WriterInv, Writing
    <2>5. QED
        BY <2>1, <2>2, <2>3, <2>4 DEF WriterInv
<1>5. BackupIsWhatWasReplaced'
    BY DEF IInv, BackupIsWhatWasReplaced
<1>6. OldInv'
    BY DEF IInv, OldInv
<1>7. QED
    BY <1>4, <1>5, <1>6 DEF IInv, Files

LEMMA OpenSteps ==
    ASSUME IInv, NEW p \in Processes,
           Open(p) \/ SetJournal(p) \/ InitFresh(p) \/ ResumeExisting(p) \/ Close(p) \/ OldOpen(p)
    PROVE  IInv'
<1>1. UNCHANGED <<backups, replaced, writer, path>>
    BY DEF Open, SetJournal, InitFresh, ResumeExisting, Close, OldOpen, Committed, NothingWritten
<1>2. pc[p] \notin Writing
    BY DEF Open, SetJournal, InitFresh, ResumeExisting, Close, OldOpen, At, Writing
<1>3. \E there : Goto(p, there) /\ there \notin Writing
    BY DEF Open, SetJournal, InitFresh, ResumeExisting, Close, OldOpen, Goto, Writing
<1>4. /\ DOMAIN pc' = Processes
      /\ \A q \in Processes : pc'[q] = pc[q] \/ (pc[q] \notin Writing /\ pc'[q] \notin Writing)
    BY <1>2, <1>3 DEF Goto, IInv
<1>5. disk \in Files \/ StoreInv(disk)
    BY DEF IInv, Files
<1>6. disk' \in Files \/ StoreInv(disk')
    BY <1>5, NewStoreInv DEF Open, SetJournal, InitFresh, ResumeExisting, Close, OldOpen,
       Committed, NothingWritten, Files
<1>7. disk' = disk \/ writer \notin Processes
    <2>1. CASE Open(p)
        <3>1. disk' = disk \/ disk = NoFile
            BY <2>1 DEF Open, NothingWritten
        <3>2. disk = NoFile => ~IsStore(disk)
            BY DEF NoFile, File, IsStore
        <3>3. QED
            BY <3>1, <3>2 DEF IInv, WriterInv
    <2>2. CASE SetJournal(p) \/ InitFresh(p)
        BY <2>2, MaintenanceAssumption DEF SetJournal, InitFresh
    <2>3. CASE ResumeExisting(p) \/ Close(p) \/ OldOpen(p)
        BY <2>3 DEF ResumeExisting, Close, OldOpen, NothingWritten
    <2>4. QED
        BY <2>1, <2>2, <2>3
<1>8. IsStore(disk) => IsStore(disk')
    <2>1. \A f \in Files : ~IsStore(f)
        BY FilesAreNoStores DEF IsStore
    <2>2. disk' = disk \/ disk \in Files \/ ~IsStore(disk)
        BY DEF Open, SetJournal, InitFresh, ResumeExisting, Close, OldOpen, NothingWritten, Files
    <2>3. QED
        BY <2>1, <2>2
<1>9. \A q \in Processes : pc'[q] = "old" => pc[q] = "old" \/ IsStore(disk')
    <2>1. CASE OldOpen(p)
        <3>1. IsStore(disk')
            BY <2>1 DEF OldOpen, NothingWritten, IsStore
        <3>2. QED
            BY <3>1
    <2>2. CASE Open(p) \/ SetJournal(p) \/ InitFresh(p) \/ ResumeExisting(p) \/ Close(p)
        <3>1. \E there : Goto(p, there) /\ there # "old"
            BY <2>2 DEF Open, SetJournal, InitFresh, ResumeExisting, Close, Goto
        <3>2. QED
            BY <3>1 DEF Goto, IInv
    <2>3. QED
        BY <2>1, <2>2
<1>10. QED
    BY <1>1, <1>4, <1>6, <1>7, <1>8, <1>9, OutsideKeeps

LEMMA UseSteps ==
    ASSUME IInv, NEW p \in Processes, Use(p) \/ OldUse(p)
    PROVE  IInv'
<1>1. UNCHANGED <<backups, replaced, writer, pc, path>> /\ writer \notin Processes
    BY MaintenanceAssumption DEF Use, OldUse, Committed
<1>2. CASE Use(p)
    <2>1. StoreInv(disk)
        <3>1. IsStore(disk)
            BY <1>2 DEF Use, Current, IsStore
        <3>2. QED
            BY <3>1, StoreOrFile
    <2>2. StoreInv(disk')
        BY <1>2, <2>1, WriteKeeps, ClearKeeps DEF Use, Committed
    <2>3. IsStore(disk')
        BY <2>2 DEF StoreInv, IsStore
    <2>4. QED
        BY <1>1, <2>2, <2>3, OutsideKeeps DEF IInv
<1>3. CASE OldUse(p)
    <2>1. StoreInv(disk)
        BY <1>3, StoreOrFile DEF OldUse, At, IInv, OldInv
    <2>2. StoreInv(disk')
        BY <1>3, <2>1, OldWriteKeeps, OldClearKeeps DEF OldUse, Committed
    <2>3. IsStore(disk')
        BY <2>2 DEF StoreInv, IsStore
    <2>4. QED
        BY <1>1, <2>2, <2>3, OutsideKeeps DEF IInv
<1>4. QED
    BY <1>2, <1>3


LEMMA DamageStep ==
    ASSUME IInv, Damage
    PROVE  IInv'
<1>1. PICK broken \in {Gone} \cup {[r \in Rows(disk.fts) \ {lost} |-> disk.fts[r]] :
                                    lost \in Rows(disk.fts)} :
            \/ Committed([disk EXCEPT !.fts = broken, !.damaged = TRUE])
            \/ Committed([disk EXCEPT !.map = broken, !.damaged = TRUE])
    BY DEF Damage
<1>2. StoreInv(disk)
    <2>1. IsStore(disk)
        BY DEF Damage, IsStore
    <2>2. QED
        BY <2>1, StoreOrFile
<1>3. TableInv(broken)
    <2>1. IsFiniteSet({}) /\ {} \in SUBSET Nat
        BY FS_EmptySet
    <2>2. CASE broken = Gone
        BY <2>1, <2>2 DEF TableInv, Rows
    <2>3. ASSUME NEW lost \in Rows(disk.fts),
                 broken = [r \in Rows(disk.fts) \ {lost} |-> disk.fts[r]]
          PROVE  TableInv(broken)
        <3>1. PICK R : R = Rows(disk.fts) \ {lost}
            OBVIOUS
        <3>2. R \in SUBSET Nat /\ IsFiniteSet(R)
            BY <1>2, <3>1, FS_RemoveElement DEF StoreInv, TableInv
        <3>3. Rows(broken) \in {{}, R}
            BY <2>3, <3>1 DEF Rows
        <3>4. QED
            BY <2>1, <3>2, <3>3 DEF TableInv
    <2>4. QED
        BY <2>2, <2>3
<1>4. StoreInv(disk')
    <2>1. CASE disk' = [disk EXCEPT !.fts = broken, !.damaged = TRUE]
        <3>1. disk'.damaged /\ disk'.fts = broken /\ disk'.map = disk.map
            BY <1>2, <2>1 DEF StoreInv, Fields
        <3>2. QED
            BY <1>2, <1>3, <2>1, <3>1, DamageKeeps DEF StoreInv
    <2>2. CASE disk' = [disk EXCEPT !.map = broken, !.damaged = TRUE]
        <3>1. disk'.damaged /\ disk'.map = broken /\ disk'.fts = disk.fts
            BY <1>2, <2>2 DEF StoreInv, Fields
        <3>2. QED
            BY <1>2, <1>3, <2>2, <3>1, DamageKeeps DEF StoreInv
    <2>3. QED
        BY <1>1, <2>1, <2>2 DEF Committed
<1>5. UNCHANGED <<backups, replaced, writer, pc, path>> /\ writer \notin Processes
    BY <1>1, MaintenanceAssumption DEF Damage, Committed
<1>6. IsStore(disk')
    BY <1>4 DEF StoreInv, IsStore
<1>7. QED
    BY <1>4, <1>5, <1>6, OutsideKeeps DEF IInv

LEMMA BeginStep ==
    ASSUME IInv, NEW p \in Processes, Begin(p)
    PROVE  IInv'
<1>1. /\ UNCHANGED <<disk, backups, replaced>> /\ writer = NoProcess /\ writer' = p
      /\ path' \in Paths /\ IsStore(disk) /\ pc' = [pc EXCEPT ![p] = "reserve"]
    BY DEF Begin, NothingWritten, Goto
<1>2. \A q \in Processes : pc[q] \notin Writing
    BY <1>1, MaintenanceAssumption DEF IInv, WriterInv
<1>3. /\ DOMAIN pc' = Processes /\ pc'[p] = "reserve"
      /\ \A q \in Processes \ {p} : pc'[q] = pc[q]
    BY <1>1 DEF IInv
<1>4. WriterInv'
    BY <1>1, <1>2, <1>3 DEF WriterInv, Writing
<1>5. OldInv'
    BY <1>1, <1>3 DEF IInv, OldInv
<1>6. QED
    BY <1>1, <1>3, <1>4, <1>5 DEF IInv, BackupIsWhatWasReplaced

(* The maintenance under way. *)
LEMMA UnderWay ==
    ASSUME IInv, NEW p \in Processes, pc[p] \in Writing
    PROVE  /\ writer = p /\ path \in Paths /\ IsStore(disk) /\ StoreInv(disk)
           /\ \A q \in Processes \ {p} : pc[q] \notin Writing
<1>1. writer = p /\ path \in Paths /\ IsStore(disk)
    BY DEF IInv, WriterInv
<1>2. QED
    BY <1>1, StoreOrFile DEF IInv, WriterInv

LEMMA ReserveStep ==
    ASSUME IInv, NEW p \in Processes, ReserveBackup(p)
    PROVE  IInv'
<1>1. /\ UNCHANGED <<disk, writer, path, replaced>> /\ backups[path] = NoFile
      /\ backups' = [backups EXCEPT ![path] = EmptyFile]
      /\ pc[p] = "reserve" /\ pc' = [pc EXCEPT ![p] = "copy"]
    BY DEF ReserveBackup, Goto, At
<1>2. /\ writer = p /\ path \in Paths /\ IsStore(disk)
      /\ \A q \in Processes \ {p} : pc[q] \notin Writing
    BY <1>1, UnderWay DEF Writing
<1>3. replaced[path] = NoFile
    BY <1>1, <1>2 DEF IInv, BackupIsWhatWasReplaced
<1>4. /\ DOMAIN pc' = Processes /\ pc'[p] = "copy" /\ DOMAIN backups' = Paths
      /\ \A q \in Processes \ {p} : pc'[q] = pc[q]
      /\ \A b \in Paths \ {path} : backups'[b] = backups[b]
    BY <1>1, <1>2 DEF IInv
<1>5. WriterInv'
    BY <1>1, <1>2, <1>3, <1>4 DEF WriterInv, Writing
<1>6. BackupIsWhatWasReplaced'
    BY <1>1, <1>3, <1>4 DEF IInv, BackupIsWhatWasReplaced
<1>7. OldInv'
    BY <1>1, <1>2 DEF OldInv
<1>8. QED
    BY <1>1, <1>4, <1>5, <1>6, <1>7 DEF IInv

LEMMA CopyStep ==
    ASSUME IInv, NEW p \in Processes, CopyStore(p)
    PROVE  IInv'
<1>1. /\ UNCHANGED <<disk, writer, path, replaced>>
      /\ backups' = [backups EXCEPT ![path] = disk]
      /\ pc[p] = "copy" /\ pc' = [pc EXCEPT ![p] = "rewrite"]
    BY DEF CopyStore, Goto, At
<1>2. /\ writer = p /\ path \in Paths /\ IsStore(disk)
      /\ \A q \in Processes \ {p} : pc[q] \notin Writing
    BY <1>1, UnderWay DEF Writing
<1>3. replaced[path] = NoFile
    BY <1>1 DEF IInv, WriterInv
<1>4. /\ DOMAIN pc' = Processes /\ pc'[p] = "rewrite" /\ DOMAIN backups' = Paths
      /\ \A q \in Processes \ {p} : pc'[q] = pc[q]
      /\ backups'[path] = disk /\ \A b \in Paths \ {path} : backups'[b] = backups[b]
    BY <1>1, <1>2 DEF IInv
<1>5. WriterInv'
    BY <1>1, <1>2, <1>3, <1>4 DEF WriterInv, Writing
<1>6. BackupIsWhatWasReplaced'
    BY <1>1, <1>3, <1>4 DEF IInv, BackupIsWhatWasReplaced
<1>7. OldInv'
    BY <1>1, <1>2 DEF OldInv
<1>8. QED
    BY <1>1, <1>4, <1>5, <1>6, <1>7 DEF IInv

(* The end of a maintenance, however it ends. *)
LEMMA EndedKeeps ==
    ASSUME IInv, NEW p \in Processes, writer = p, Ended(p), StoreInv(disk'),
           DOMAIN backups' = Paths, DOMAIN replaced' = Paths, BackupIsWhatWasReplaced'
    PROVE  IInv'
<1>1. writer' = NoProcess /\ pc' = [pc EXCEPT ![p] = "idle"]
    BY DEF Ended, Goto
<1>2. \A q \in Processes \ {p} : pc[q] \notin Writing
    BY DEF IInv, WriterInv
<1>3. /\ DOMAIN pc' = Processes /\ pc'[p] = "idle"
      /\ \A q \in Processes \ {p} : pc'[q] = pc[q]
    BY <1>1 DEF IInv
<1>4. \A q \in Processes : pc'[q] \notin Writing /\ writer' # q
    BY <1>1, <1>2, <1>3, MaintenanceAssumption DEF Writing
<1>5. WriterInv'
    BY <1>4 DEF WriterInv, Writing
<1>6. OldInv'
    BY DEF OldInv, StoreInv, IsStore
<1>7. QED
    BY <1>3, <1>5, <1>6 DEF IInv

LEMMA CommitStep ==
    ASSUME IInv, NEW p \in Processes, Commit(p)
    PROVE  IInv'
<1>1. pc[p] = "rewrite" /\ Ended(p) /\ disk' = Maintained(disk) /\ backups' = backups
      /\ ValidFts(Maintained(disk)) /\ ValidMap(Maintained(disk))
      /\ replaced' = [replaced EXCEPT ![path] = disk]
    BY DEF Commit, At
<1>2. writer = p /\ path \in Paths /\ StoreInv(disk)
    BY <1>1, UnderWay DEF Writing
<1>3. StoreInv(disk')
    BY <1>1, <1>2, MaintainKeeps
<1>4. backups[path] = disk
    BY <1>1 DEF IInv, WriterInv
<1>5. BackupIsWhatWasReplaced'
    BY <1>1, <1>2, <1>4 DEF IInv, BackupIsWhatWasReplaced
<1>6. DOMAIN backups' = Paths /\ DOMAIN replaced' = Paths
    BY <1>1 DEF IInv
<1>7. QED
    BY <1>1, <1>2, <1>3, <1>5, <1>6, EndedKeeps

LEMMA FailStep ==
    ASSUME IInv, NEW p \in Processes, writer = p, Ended(p), NothingWritten
    PROVE  IInv'
<1>1. StoreInv(disk)
    BY StoreOrFile DEF IInv, WriterInv
<1>2. disk' = disk /\ backups' = backups /\ replaced' = replaced
    BY DEF NothingWritten
<1>3. QED
    BY <1>1, <1>2, EndedKeeps DEF IInv, BackupIsWhatWasReplaced

LEMMA DieStep ==
    ASSUME IInv, NEW p \in Processes, Die(p)
    PROVE  IInv'
<1>1. CASE writer = p
    BY <1>1, FailStep DEF Die
<1>2. CASE writer # p
    <2>1. /\ pc' = [pc EXCEPT ![p] = "idle"]
          /\ UNCHANGED <<disk, backups, replaced, writer, path>>
        BY <1>2 DEF Die, Goto, NothingWritten
    <2>2. pc[p] \notin Writing
        BY <1>2 DEF IInv, WriterInv
    <2>3. /\ DOMAIN pc' = Processes /\ pc'[p] = "idle"
          /\ \A q \in Processes \ {p} : pc'[q] = pc[q]
        BY <2>1 DEF IInv
    <2>4. \A q \in Processes :
            /\ pc'[q] = pc[q] \/ (pc[q] \notin Writing /\ pc'[q] \notin Writing)
            /\ pc'[q] = "old" => pc[q] = "old"
        BY <2>2, <2>3 DEF Writing
    <2>5. QED
        BY <2>1, <2>3, <2>4, OutsideKeeps DEF IInv, Files
<1>3. QED
    BY <1>1, <1>2

-----------------------------------------------------------------------------
(* The theorems *)

(* What every step of the processes keeps: the search revision of a store  *)
(* never runs ahead of its history, tables whose revision is current are   *)
(* exact or damaged, and a maintenance under way has the store and its     *)
(* backup path for itself.                                                 *)
THEOREM MaintenanceInvariance == Spec => []IInv
<1>1. MaintenanceInit => IInv
    BY InitIInv
<1>2. IInv /\ [MaintenanceNext]_vars => IInv'
    <2>1. SUFFICES ASSUME IInv, [MaintenanceNext]_vars PROVE IInv'
        OBVIOUS
    <2>2. CASE UNCHANGED vars
        <3>1. UNCHANGED <<disk, backups, replaced, writer, pc, path>>
            BY <2>2 DEF vars
        <3>2. QED
            BY <2>1, <3>1, OutsideKeeps DEF IInv, Files
    <2>3. CASE Damage
        BY <2>1, <2>3, DamageStep
    <2>4. ASSUME NEW p \in Processes,
                 \/ Open(p) \/ SetJournal(p) \/ InitFresh(p) \/ ResumeExisting(p)
                 \/ Use(p) \/ Close(p) \/ OldOpen(p) \/ OldUse(p)
                 \/ Begin(p) \/ ReserveBackup(p) \/ CopyStore(p) \/ Commit(p)
                 \/ Fail(p) \/ Die(p)
          PROVE  IInv'
        <3>1. CASE Fail(p)
            BY <2>1, <3>1, FailStep DEF Fail
        <3>2. CASE ~Fail(p)
            BY <2>1, <2>4, <3>2, OpenSteps, UseSteps, BeginStep, ReserveStep, CopyStep,
               CommitStep, DieStep
        <3>3. QED
            BY <3>1, <3>2
    <2>5. QED
        BY <2>1, <2>2, <2>3, <2>4 DEF MaintenanceNext
<1>3. QED
    BY <1>1, <1>2, PTL DEF Spec

(* assert_search_metadata compares revisions and never looks at rows: it   *)
(* is enough, because every writer that does not maintain both tables      *)
(* leaves the revisions apart, and only a validated rewriting brings them  *)
(* together again.                                                         *)
THEOREM AcceptedStoresAreExact == Spec => []AcceptedIsExact
<1>1. IInv => AcceptedIsExact
    BY StoreOrFile DEF AcceptedIsExact, StoreInv
<1>2. QED
    BY <1>1, MaintenanceInvariance, PTL

(* The backup that _maintain_search_metadata leaves is the store that its  *)
(* commit replaced, for good: the writer lock keeps the store still from   *)
(* the copy to the commit, and O_EXCL keeps later calls from the file.     *)
THEOREM BackupsKept == Spec => []BackupIsWhatWasReplaced
<1>1. IInv => BackupIsWhatWasReplaced
    BY DEF IInv
<1>2. QED
    BY <1>1, MaintenanceInvariance, PTL

-----------------------------------------------------------------------------
(* The tree: lists by a key *)

Rising(key, list) ==
    /\ \A i \in 1..Len(list) : key[list[i]] \in Int
    /\ \A i, j \in 1..Len(list) : i < j => key[list[i]] < key[list[j]]

Ranked(key, list, n, S) ==
    /\ Cardinality(S) = n
    /\ \A i \in 1..n :
            (CHOOSE a \in S : Cardinality({b \in S : key[b] < key[a]}) = i - 1) = list[i]

LEMMA SortedOf ==
    ASSUME NEW list, NEW n \in Nat, NEW key,
           \A i \in 1..n : key[list[i]] \in Int,
           \A i, j \in 1..n : i < j => key[list[i]] < key[list[j]],
           NEW S, S = {list[i] : i \in 1..n}
    PROVE  Ranked(key, list, n, S)
<1> DEFINE Under(a) == {b \in S : key[b] < key[a]}
<1>1. \A i, j \in 1..n : key[list[i]] < key[list[j]] => i < j
    OBVIOUS
<1>2. \A i, j \in 1..n : list[i] = list[j] => i = j
    OBVIOUS
<1>3. Cardinality(S) = n
    BY <1>2, AsManyAsPlaces
<1>4. ASSUME NEW i \in 1..n
      PROVE  Cardinality(Under(list[i])) = i - 1
    <2>1. i - 1 \in Nat /\ \A j \in 1..(i - 1) : j \in 1..n
        OBVIOUS
    <2>2. Under(list[i]) = {list[j] : j \in 1..(i - 1)}
        <3>1. \A j \in 1..n : key[list[j]] < key[list[i]] <=> j \in 1..(i - 1)
            BY <1>1
        <3>2. QED
            BY <2>1, <3>1
    <2>4. \A j, k \in 1..(i - 1) : list[j] = list[k] => j = k
        BY <1>2, <2>1
    <2>5. PICK T : T = Under(list[i])
        OBVIOUS
    <2>6. /\ \A j \in 1..(i - 1) : list[j] \in T
          /\ \A t \in T : \E j \in 1..(i - 1) : list[j] = t
        BY <2>2, <2>5
    <2>7. Cardinality(T) = i - 1
        BY <2>1, <2>4, <2>6, AsManyAsPlaces
    <2>8. QED
        BY <2>5, <2>7
<1>5. ASSUME NEW i \in 1..n
      PROVE  (CHOOSE a \in S : Cardinality(Under(a)) = i - 1) = list[i]
    <2>1. list[i] \in S /\ Cardinality(Under(list[i])) = i - 1
        BY <1>4
    <2>2. \A a \in S : Cardinality(Under(a)) = i - 1 => a = list[i]
        <3>1. ASSUME NEW j \in 1..n, Cardinality(Under(list[j])) = i - 1
              PROVE  list[j] = list[i]
            <4>1. j - 1 = i - 1
                BY <1>4, <3>1
            <4>2. QED
                BY <4>1
        <3>2. QED
            BY <3>1
    <2> HIDE DEF Under
    <2>3. QED
        BY <2>1, <2>2
<1>6. QED
    BY <1>3, <1>5 DEF Ranked

(* A list whose keys rise is its elements by increasing key.               *)
LEMMA SortedIs ==
    ASSUME NEW T, NEW list \in Seq(T), NEW key, Rising(key, list)
    PROVE  SortedBy(key, ToSet(list)) = list
<1> DEFINE n == Len(list)
           S == ToSet(list)
<1>1. n \in Nat /\ list = [i \in 1..n |-> list[i]]
    OBVIOUS
<1>2. S = {list[i] : i \in 1..n}
    BY DEF ToSet
<1>3. /\ \A i \in 1..n : key[list[i]] \in Int
      /\ \A i, j \in 1..n : i < j => key[list[i]] < key[list[j]]
    BY DEF Rising
<1> HIDE DEF n, S
<1>4. Ranked(key, list, n, S)
    BY <1>1, <1>2, <1>3, SortedOf
<1>5. [i \in 1..n |-> CHOOSE a \in S : Cardinality({b \in S : key[b] < key[a]}) = i - 1]
        = [i \in 1..n |-> list[i]]
    BY <1>4 DEF Ranked
<1>6. <<>> \o list = list
    OBVIOUS
<1>7. QED
    BY <1>1, <1>4, <1>5, <1>6 DEF SortedBy, Listed, S, Ranked

-----------------------------------------------------------------------------
(* The tree: groups of a layer *)

(* Where the groups begin: each after the one before it, and each place in *)
(* one of them.                                                            *)
Cut(layer, n, at) ==
    /\ n \in Nat /\ Len(layer) \in Nat /\ at \in [1..(n + 1) -> Nat]
    /\ at[1] = 0 /\ at[n + 1] = Len(layer)
    /\ \A i \in 1..n : at[i] < at[i + 1]
    /\ \A i, j \in 1..(n + 1) : i <= j => at[i] <= at[j]
    /\ \A p \in 1..Len(layer) : \E i \in 1..n : at[i] < p /\ p <= at[i + 1]

(* The cuts are fan apart, but for the last, which may be nearer.          *)
Exact(fan, layer, n, at) ==
    /\ n \in Nat /\ Len(layer) \in Nat
    /\ \A i \in 1..n : at[i] = (i - 1) * fan
    /\ at[n + 1] = Len(layer)
    /\ Len(layer) <= n * fan
    /\ n > 0 => (n - 1) * fan < Len(layer)
    /\ \A i \in 1..n : at[i + 1] <= at[i] + fan

InGroups(layer, groups, n, at) ==
    /\ groups = [i \in 1..n |-> groups[i]]
    /\ \A i \in 1..n : groups[i] = [k \in 1..(at[i + 1] - at[i]) |-> layer[at[i] + k]]

LEMMA Count ==
    ASSUME NEW fan \in Nat \ {0, 1},
           NEW L \in Nat
    PROVE  LET n == (L + fan - 1) \div fan IN
            /\ n \in Nat
            /\ L <= n * fan
            /\ n * fan <= L + fan - 1
            /\ L > fan => n < L
<1> DEFINE M == fan
           n == (L + M - 1) \div M
<1>1. M \in Nat \ {0} /\ M >= 2 /\ L + M - 1 \in Nat
    OBVIOUS
<1> HIDE DEF M
<1>2. n \in Nat /\ n * M <= L + M - 1 /\ L + M - 1 < n * M + M
    BY <1>1, Divided
<1> HIDE DEF n
<1>3. n * M \in Nat /\ L <= n * M
    BY <1>1, <1>2
<1>4. L > M => n < L
    <2>1. n * 2 <= n * M
        <3>1. 2 * n <= M * n
            BY <1>1, <1>2, TimesRises
        <3>2. 2 * n = n * 2 /\ M * n = n * M
            BY <1>1, <1>2
        <3>3. QED
            BY <3>1, <3>2
    <2>2. QED
        BY <1>1, <1>2, <1>3, <2>1
<1>5. QED
    BY <1>2, <1>3, <1>4 DEF M, n

(* GroupsOf cuts a layer. *)
LEMMA GroupsCut ==
    ASSUME NEW fan \in Nat \ {0, 1},
           NEW S, NEW layer \in Seq(S)
    PROVE  \E n, at : /\ Cut(layer, n, at) /\ Exact(fan, layer, n, at)
                      /\ InGroups(layer, GroupsOf(fan, layer), n, at)
                      /\ Len(layer) > fan => n < Len(layer)
<1> DEFINE M == fan
           L == Len(layer)
           n == (L + M - 1) \div M
           at == [i \in 1..(n + 1) |-> IF (i - 1) * M < L THEN (i - 1) * M ELSE L]
<1>1. L \in Nat /\ M \in Nat \ {0} /\ M >= 2
    OBVIOUS
<1>2. /\ n \in Nat /\ L <= n * M /\ n * M <= L + M - 1
      /\ L > M => n < L
    <2>1. L \in Nat
        OBVIOUS
    <2> HIDE DEF L
    <2>2. QED
        BY <2>1, Count
<1> HIDE DEF M, L, n
<1>3. \A i \in 1..n : /\ (i - 1) * M \in Nat /\ i * M \in Nat
                      /\ i * M = (i - 1) * M + M /\ (i - 1) * M < L
    <2>1. ASSUME NEW i \in 1..n
          PROVE  /\ (i - 1) * M \in Nat /\ i * M \in Nat
                 /\ i * M = (i - 1) * M + M /\ (i - 1) * M < L
        <3>1. /\ i \in Nat /\ i - 1 \in Nat /\ i <= n
              /\ i * M \in Nat /\ (i - 1) * M \in Nat /\ n * M \in Nat
            BY <1>1, <1>2
        <3>2. i * M = (i - 1) * M + M
            BY <1>1, <3>1
        <3>3. i * M <= n * M
            BY <1>1, <1>2, <3>1, TimesRises
        <3>4. QED
            BY <1>1, <1>2, <3>1, <3>2, <3>3
    <2>2. QED
        BY <2>1
<1>4. at \in [1..(n + 1) -> 0..L]
    <2>1. ASSUME NEW i \in 1..(n + 1)
          PROVE  (IF (i - 1) * M < L THEN (i - 1) * M ELSE L) \in 0..L
        <3>1. (i - 1) * M \in Nat
            BY <1>1, <1>2
        <3>2. QED
            BY <1>1, <3>1
    <2>2. QED
        BY <2>1
<1>5. /\ \A i \in 1..n : at[i] = (i - 1) * M
      /\ \A i \in 1..n : at[i + 1] = IF i * M < L THEN i * M ELSE L
    <2>1. ASSUME NEW i \in 1..n
          PROVE  /\ at[i] = (i - 1) * M
                 /\ at[i + 1] = IF i * M < L THEN i * M ELSE L
        <3>1. i \in 1..(n + 1) /\ i + 1 \in 1..(n + 1) /\ (i + 1) - 1 = i
            BY <1>2
        <3>2. QED
            BY <1>3, <3>1
    <2>2. QED
        BY <2>1
<1>6. at[1] = 0 /\ at[n + 1] = L
    <2>1. 1 \in 1..(n + 1) /\ n + 1 \in 1..(n + 1) /\ (n + 1) - 1 = n /\ 1 - 1 = 0
        BY <1>2
    <2>2. 0 * M = 0
        BY <1>1
    <2>3. n * M \in Nat
        BY <1>1, <1>2
    <2>4. QED
        BY <1>1, <1>2, <2>1, <2>2, <2>3
<1>7. \A i \in 1..n : at[i] < at[i + 1] /\ at[i + 1] <= at[i] + M
    BY <1>1, <1>3, <1>5
<1>8. \A i, j \in 1..(n + 1) : i <= j => at[i] <= at[j]
    <2>1. ASSUME NEW i \in 1..(n + 1), NEW j \in 1..(n + 1), i <= j
          PROVE  at[i] <= at[j]
        <3>1. /\ i - 1 \in Nat /\ j - 1 \in Nat /\ i - 1 <= j - 1
              /\ (i - 1) * M \in Nat /\ (j - 1) * M \in Nat
            BY <1>1, <1>2, <2>1
        <3>2. (i - 1) * M <= (j - 1) * M
            BY <1>1, <3>1, TimesRises
        <3>3. QED
            BY <1>1, <3>1, <3>2
    <2>2. QED
        BY <2>1
<1>9. \A p \in 1..L : \E i \in 1..n : at[i] < p /\ p <= at[i + 1]
    <2>1. ASSUME NEW p \in 1..L
          PROVE  \E i \in 1..n : at[i] < p /\ p <= at[i + 1]
        <3>1. p - 1 \in Nat
            OBVIOUS
        <3>2. PICK q : q = (p - 1) \div M
            OBVIOUS
        <3>3. /\ q \in Nat /\ q * M <= p - 1 /\ p - 1 < q * M + M
            BY <1>1, <3>1, <3>2, Divided
        <3>4. q < n
            <4>1. SUFFICES ASSUME n <= q PROVE FALSE
                BY <1>2, <3>3
            <4>2. n * M <= q * M /\ n * M \in Nat /\ q * M \in Nat
                BY <1>1, <1>2, <3>3, <4>1, TimesRises
            <4>3. QED
                BY <1>1, <1>2, <2>1, <3>3, <4>2
        <3>5. q + 1 \in 1..n /\ (q + 1) - 1 = q
            BY <1>2, <3>3, <3>4
        <3>6. at[q + 1] = q * M /\ at[(q + 1) + 1] = IF (q + 1) * M < L THEN (q + 1) * M ELSE L
            BY <1>5, <3>5
        <3>7. (q + 1) * M = q * M + M /\ q * M \in Nat
            BY <1>1, <3>3
        <3>8. at[q + 1] < p /\ p <= at[(q + 1) + 1]
            BY <1>1, <2>1, <3>3, <3>6, <3>7
        <3>9. QED
            BY <3>5, <3>8
    <2>2. QED
        BY <2>1
<1>10. \A i \in 1..n : SubSeq(layer, (i - 1) * M + 1, IF i * M < L THEN i * M ELSE L)
                        = [k \in 1..(at[i + 1] - at[i]) |-> layer[at[i] + k]]
    <2>1. ASSUME NEW i \in 1..n
          PROVE  SubSeq(layer, (i - 1) * M + 1, IF i * M < L THEN i * M ELSE L)
                    = [k \in 1..(at[i + 1] - at[i]) |-> layer[at[i] + k]]
        <3>1. PICK a \in Nat, b \in Nat :
                /\ a = (i - 1) * M /\ b = (IF i * M < L THEN i * M ELSE L)
                /\ a < b /\ b <= L /\ a = at[i] /\ b = at[i + 1]
            <4>1. (i - 1) * M \in Nat /\ i * M \in Nat /\ (i - 1) * M < L
                BY <1>3
            <4>2. i * M = (i - 1) * M + M
                BY <1>3
            <4>3. at[i] = (i - 1) * M /\ at[i + 1] = IF i * M < L THEN i * M ELSE L
                BY <1>5
            <4> HIDE DEF at
            <4>4. QED
                BY <1>1, <4>1, <4>2, <4>3
        <3>2. SubSeq(layer, a + 1, b) = [k \in 1..(b - a) |-> layer[a + k]]
            BY <3>1, Cutout DEF L
        <3>3. QED
            BY <3>1, <3>2
    <2>2. QED
        BY <2>1
<1>11. GroupsOf(fan, layer) = [i \in 1..n |->
                            SubSeq(layer, (i - 1) * M + 1, IF i * M < L THEN i * M ELSE L)]
    BY DEF GroupsOf, n, M, L
<1> HIDE DEF at
<1>12. Cut(layer, n, at)
    BY <1>1, <1>2, <1>4, <1>6, <1>7, <1>8, <1>9 DEF Cut, L, M
<1>13. InGroups(layer, GroupsOf(fan, layer), n, at)
    BY <1>10, <1>11 DEF InGroups
<1>14. Exact(fan, layer, n, at)
    <2>1. n > 0 => (n - 1) * M < L
        <3>1. n > 0 => n \in 1..n
            BY <1>2
        <3>2. QED
            BY <1>3, <3>1
    <2>2. QED
        BY <1>1, <1>2, <1>5, <1>6, <1>7, <2>1 DEF Exact, L, M
<1>15. QED
    BY <1>2, <1>12, <1>13, <1>14 DEF L, M

LEMMA OneGroup ==
    ASSUME NEW layer, NEW n, NEW at, Cut(layer, n, at),
           NEW p \in Int, NEW i \in 1..n, NEW j \in 1..n,
           at[i] < p, p <= at[i + 1], at[j] < p, p <= at[j + 1]
    PROVE  i = j
<1>1. /\ n \in Nat /\ \A k \in 1..(n + 1) : at[k] \in Int
      /\ \A k, l \in 1..(n + 1) : k <= l => at[k] <= at[l]
    <2>1. n \in Nat /\ at \in [1..(n + 1) -> Nat]
        BY DEF Cut
    <2>2. \A k, l \in 1..(n + 1) : k <= l => at[k] <= at[l]
        BY Zenon DEF Cut
    <2>3. QED
        BY <2>1, <2>2
<1>2. i + 1 \in 1..(n + 1) /\ j + 1 \in 1..(n + 1) /\ i \in 1..(n + 1) /\ j \in 1..(n + 1)
    BY <1>1
<1>3. /\ at[i] \in Int /\ at[j] \in Int /\ at[i + 1] \in Int /\ at[j + 1] \in Int
      /\ i + 1 <= j => at[i + 1] <= at[j]
      /\ j + 1 <= i => at[j + 1] <= at[i]
    BY <1>1, <1>2
<1>4. ~(i + 1 <= j) /\ ~(j + 1 <= i)
    BY <1>3
<1>5. QED
    BY <1>1, <1>2, <1>4

-----------------------------------------------------------------------------
(* The tree: rows and families *)

Row == [parent : Nat \cup {NoNode}, order : Nat, first : Nat, last : Nat, leaf : BOOLEAN]

TreeType(tree) ==
    /\ DOMAIN tree \in SUBSET Nat /\ IsFiniteSet(DOMAIN tree)
    /\ tree \in [DOMAIN tree -> Row]

Inner(tree) == {n \in DOMAIN tree : ~tree[n].leaf}

IsChildren(tree, n, list) ==
    /\ list \in Seq(DOMAIN tree)
    /\ ToSet(list) = ChildSet(tree, n)
    /\ \A i \in 1..Len(list) : tree[list[i]].order = i - 1

Touch(tree, list) ==
    \A i \in 1..(Len(list) - 1) : tree[list[i]].last + 1 = tree[list[i + 1]].first

(* The children in list make up n. *)
Covers(tree, n, list) ==
    /\ Len(list) \in Nat \ {0, 1}
    /\ Touch(tree, list)
    /\ tree[n].first = tree[list[1]].first
    /\ tree[n].last = tree[list[Len(list)]].last

Family(tree, n, list) == IsChildren(tree, n, list) /\ Covers(tree, n, list)

LeavesInv(tree, done) ==
    /\ {tree[n].first : n \in Leaves(tree)} = 1..done
    /\ \A m, n \in Leaves(tree) : tree[m].first = tree[n].first => m = n
    /\ \A n \in Leaves(tree) : tree[n].last = tree[n].first

(* A tree that can be navigated, but for its tops. *)
Whole(tree, done) ==
    /\ TreeType(tree)
    /\ \A n \in Inner(tree) : \E list : Family(tree, n, list)
    /\ \A n \in DOMAIN tree : tree[n].parent \in Inner(tree) \cup {NoNode}
    /\ LeavesInv(tree, done)

(* No parent has more children than the fan-out allows. *)
Narrow(fan, tree) ==
    \A n \in Inner(tree) : \E list : IsChildren(tree, n, list) /\ Len(list) <= fan

(* A layer lists the nodes that have no parent yet. *)
LayerInv(tree, layer) ==
    /\ layer \in Seq(DOMAIN tree)
    /\ ToSet(layer) = ChildSet(tree, NoNode)
    /\ EachOnce(layer)
    /\ Touch(tree, layer)

(* A list that numbers the children of n is Children. *)
LEMMA ChildrenIs ==
    ASSUME NEW tree, NEW n, NEW list, IsChildren(tree, n, list)
    PROVE  Children(tree, n) = list
<1> DEFINE key == [c \in DOMAIN tree |-> tree[c].order]
<1>1. list \in Seq(DOMAIN tree) /\ ToSet(list) = ChildSet(tree, n)
    BY DEF IsChildren
<1>2. Rising(key, list)
    <2>1. PICK L : L = Len(list)
        OBVIOUS
    <2>2. L \in Nat /\ \A i \in 1..L : list[i] \in DOMAIN tree
        BY <1>1, <2>1, ListFacts
    <2>3. \A i \in 1..L : key[list[i]] = i - 1
        BY <2>1, <2>2 DEF IsChildren
    <2> HIDE DEF key
    <2>4. QED
        BY <2>1, <2>2, <2>3 DEF Rising
<1>3. SortedBy(key, ToSet(list)) = list
    <2> HIDE DEF key
    <2>1. QED
        BY <1>1, <1>2, SortedIs
<1>4. QED
    BY <1>1, <1>3 DEF Children

-----------------------------------------------------------------------------
(* The tree: one pass *)

Joins(at, i) == at[i] + 1 < at[i + 1]
Within(at, i, p) == at[i] < p /\ p <= at[i + 1]

(* next is tree with the groups of layer under the nodes up.               *)
Raised(tree, layer, n, at, up, next) ==
    /\ TreeType(next)
    /\ DOMAIN next = DOMAIN tree \cup {up[i] : i \in 1..n}
    /\ \A i, j \in 1..n : up[i] = up[j] => i = j
    /\ \A i \in 1..n : ~Joins(at, i) =>
            up[i] = layer[at[i + 1]] /\ next[up[i]] = tree[up[i]]
    /\ \A i \in 1..n : Joins(at, i) =>
            /\ up[i] \notin DOMAIN tree
            /\ next[up[i]].parent = NoNode /\ ~next[up[i]].leaf
            /\ next[up[i]].first = tree[layer[at[i] + 1]].first
            /\ next[up[i]].last = tree[layer[at[i + 1]]].last
    /\ \A i \in 1..n : Joins(at, i) => \A p \in 1..Len(layer) : Within(at, i, p) =>
            next[layer[p]] = [tree[layer[p]] EXCEPT !.parent = up[i], !.order = p - at[i] - 1]
    /\ \A c \in DOMAIN tree \ ToSet(layer) : next[c] = tree[c]

(* What can be said of a layer and its groups, place by place.             *)
Places(tree, layer, n, at) ==
    /\ n \in Nat /\ Len(layer) \in Nat
    /\ \A p \in 1..Len(layer) : layer[p] \in DOMAIN tree /\ tree[layer[p]].parent = NoNode
    /\ \A c \in DOMAIN tree : tree[c].parent = NoNode => \E p \in 1..Len(layer) : c = layer[p]
    /\ \A p \in 1..Len(layer) : \E i \in 1..n : Within(at, i, p)
    /\ \A i \in 1..n : /\ at[i] \in Nat /\ at[i + 1] \in Nat /\ at[i] < at[i + 1]
                       /\ at[i + 1] <= Len(layer)
                       /\ \A p \in Int : Within(at, i, p) => p \in 1..Len(layer)

LEMMA PlacesOf ==
    ASSUME NEW tree, NEW layer, NEW n, NEW at,
           LayerInv(tree, layer), Cut(layer, n, at)
    PROVE  Places(tree, layer, n, at)
<1>1. PICK L : L = Len(layer)
    OBVIOUS
<1>2. /\ n \in Nat /\ L \in Nat /\ at \in [1..(n + 1) -> Nat]
      /\ at[1] = 0 /\ at[n + 1] = L
    BY <1>1 DEF Cut
<1>3. \A i \in 1..n : at[i] < at[i + 1]
    BY Zenon DEF Cut
<1>4. \A i, j \in 1..(n + 1) : i <= j => at[i] <= at[j]
    BY Zenon DEF Cut
<1>5. \A p \in 1..L : \E i \in 1..n : Within(at, i, p)
    BY Zenon, <1>1 DEF Cut, Within
<1>6. layer \in Seq(DOMAIN tree) /\ ToSet(layer) = ChildSet(tree, NoNode)
    BY DEF LayerInv
<1>7. (\A p \in 1..L : layer[p] \in DOMAIN tree) /\ ToSet(layer) = {layer[p] : p \in 1..L}
    BY <1>1, <1>6, ListFacts
<1>8. /\ \A p \in 1..L : tree[layer[p]].parent = NoNode
      /\ \A c \in DOMAIN tree : tree[c].parent = NoNode => \E p \in 1..L : c = layer[p]
    <2>1. {layer[p] : p \in 1..L} = {c \in DOMAIN tree : tree[c].parent = NoNode}
        BY <1>6, <1>7 DEF ChildSet
    <2>2. QED
        BY <2>1
<1>9. \A i \in 1..n : /\ at[i] \in Nat /\ at[i + 1] \in Nat /\ at[i] < at[i + 1]
                      /\ at[i + 1] <= L
                      /\ \A p \in Int : Within(at, i, p) => p \in 1..L
    <2>1. ASSUME NEW i \in 1..n
          PROVE  /\ at[i] \in Nat /\ at[i + 1] \in Nat /\ at[i] < at[i + 1]
                 /\ at[i + 1] <= L
                 /\ \A p \in Int : Within(at, i, p) => p \in 1..L
        <3>1. /\ i \in 1..(n + 1) /\ i + 1 \in 1..(n + 1) /\ n + 1 \in 1..(n + 1)
              /\ i + 1 <= n + 1
            BY <1>2
        <3>2. at[i] \in Nat /\ at[i + 1] \in Nat
            BY <1>2, <3>1
        <3>3. at[i + 1] <= L
            BY <1>2, <1>4, <3>1
        <3>4. QED
            BY <1>2, <1>3, <3>2, <3>3 DEF Within
    <2>2. QED
        BY <2>1
<1>10. QED
    BY <1>1, <1>2, <1>5, <1>7, <1>8, <1>9 DEF Places

(* What a node of the next tree is: under a parent as before, on top, or   *)
(* newly under one of the nodes up.                                        *)
Kinds(tree, layer, n, at, up, next) ==
    /\ \A c \in DOMAIN tree : /\ c \in DOMAIN next /\ next[c].first = tree[c].first
                              /\ next[c].last = tree[c].last /\ next[c].leaf = tree[c].leaf
    /\ \A c \in DOMAIN tree : tree[c].parent # NoNode => next[c] = tree[c]
    /\ \A i \in 1..n : up[i] \in DOMAIN next /\ next[up[i]].parent = NoNode
    /\ \A i \in 1..n : next[up[i]].first = tree[layer[at[i] + 1]].first
                       /\ next[up[i]].last = tree[layer[at[i + 1]]].last
    /\ \A i \in 1..n : Joins(at, i) => up[i] \notin DOMAIN tree /\ ~next[up[i]].leaf
    /\ \A i \in 1..n : Joins(at, i) => \A p \in 1..Len(layer) : Within(at, i, p) =>
            next[layer[p]].parent = up[i] /\ next[layer[p]].order = p - at[i] - 1
    /\ \A c \in DOMAIN next :
          \/ c \in DOMAIN tree /\ tree[c].parent # NoNode /\ next[c] = tree[c]
          \/ next[c].parent = NoNode /\ \E i \in 1..n : c = up[i]
          \/ \E i \in 1..n : /\ Joins(at, i) /\ next[c].parent = up[i]
                             /\ \E p \in 1..Len(layer) : Within(at, i, p) /\ c = layer[p]

LEMMA KindsOf ==
    ASSUME NEW tree, NEW layer, NEW n, NEW at, NEW up, NEW next, TreeType(tree),
           Places(tree, layer, n, at), LayerInv(tree, layer),
           Raised(tree, layer, n, at, up, next)
    PROVE  Kinds(tree, layer, n, at, up, next)
<1>1. PICK L : L = Len(layer)
    OBVIOUS
<1>2. /\ n \in Nat /\ L \in Nat
      /\ \A p \in 1..L : layer[p] \in DOMAIN tree /\ tree[layer[p]].parent = NoNode
      /\ \A c \in DOMAIN tree : tree[c].parent = NoNode => \E p \in 1..L : c = layer[p]
      /\ \A p \in 1..L : \E i \in 1..n : Within(at, i, p)
    BY <1>1 DEF Places
<1>3. \A i \in 1..n : /\ at[i] \in Nat /\ at[i + 1] \in Nat /\ at[i] < at[i + 1]
                      /\ at[i + 1] <= L
                      /\ \A p \in Int : Within(at, i, p) => p \in 1..L
    BY <1>1 DEF Places
<1>4. \A c \in DOMAIN tree : tree[c] \in Row
    BY DEF TreeType
<1>5. DOMAIN next = DOMAIN tree \cup {up[i] : i \in 1..n}
    BY Zenon DEF Raised
<1>6. \A i \in 1..n : ~Joins(at, i) => up[i] = layer[at[i + 1]] /\ next[up[i]] = tree[up[i]]
    BY Zenon DEF Raised
<1>7. \A i \in 1..n : Joins(at, i) =>
            /\ up[i] \notin DOMAIN tree
            /\ next[up[i]].parent = NoNode /\ ~next[up[i]].leaf
            /\ next[up[i]].first = tree[layer[at[i] + 1]].first
            /\ next[up[i]].last = tree[layer[at[i + 1]]].last
    BY Zenon DEF Raised
<1>8. \A i \in 1..n : Joins(at, i) => \A p \in 1..L : Within(at, i, p) =>
            next[layer[p]] = [tree[layer[p]] EXCEPT !.parent = up[i], !.order = p - at[i] - 1]
    BY Zenon, <1>1 DEF Raised
<1>9. \A c \in DOMAIN tree : tree[c].parent # NoNode => next[c] = tree[c]
    <2>1. \A c \in DOMAIN tree \ ToSet(layer) : next[c] = tree[c]
        BY Zenon DEF Raised
    <2>2. ToSet(layer) = ChildSet(tree, NoNode)
        BY DEF LayerInv
    <2>3. QED
        BY <2>1, <2>2 DEF ChildSet
<1>10. \A i \in 1..n : Joins(at, i) => \A p \in 1..L : Within(at, i, p) =>
            /\ next[layer[p]].parent = up[i] /\ next[layer[p]].order = p - at[i] - 1
            /\ next[layer[p]].first = tree[layer[p]].first
            /\ next[layer[p]].last = tree[layer[p]].last
            /\ next[layer[p]].leaf = tree[layer[p]].leaf
    <2>1. ASSUME NEW i \in 1..n, Joins(at, i), NEW p \in 1..L, Within(at, i, p)
          PROVE  /\ next[layer[p]].parent = up[i] /\ next[layer[p]].order = p - at[i] - 1
                 /\ next[layer[p]].first = tree[layer[p]].first
                 /\ next[layer[p]].last = tree[layer[p]].last
                 /\ next[layer[p]].leaf = tree[layer[p]].leaf
        <3>1. PICK r \in Row : r = tree[layer[p]]
            BY <1>2, <1>4
        <3>2. PICK order : order = p - at[i] - 1
            OBVIOUS
        <3>3. next[layer[p]] = [r EXCEPT !.parent = up[i], !.order = order]
            BY <1>8, <2>1, <3>1, <3>2
        <3>4. QED
            BY <3>1, <3>2, <3>3 DEF Row
    <2>2. QED
        BY <2>1
<1>11. \A i \in 1..n : ~Joins(at, i) =>
            /\ at[i + 1] = at[i] + 1 /\ at[i + 1] \in 1..L
            /\ \A p \in 1..L : Within(at, i, p) => p = at[i + 1]
    BY <1>3 DEF Joins, Within
<1>12. \A c \in DOMAIN tree : /\ c \in DOMAIN next /\ next[c].first = tree[c].first
                              /\ next[c].last = tree[c].last /\ next[c].leaf = tree[c].leaf
    <2>1. ASSUME NEW c \in DOMAIN tree, tree[c].parent = NoNode
          PROVE  /\ next[c].first = tree[c].first
                 /\ next[c].last = tree[c].last /\ next[c].leaf = tree[c].leaf
        <3>1. PICK p \in 1..L : c = layer[p]
            BY <1>2, <2>1
        <3>2. PICK i \in 1..n : Within(at, i, p)
            BY <1>2
        <3>3. CASE Joins(at, i)
            BY <1>10, <3>1, <3>2, <3>3
        <3>4. CASE ~Joins(at, i)
            <4>1. p = at[i + 1]
                BY <1>11, <3>2, <3>4
            <4>2. QED
                BY <1>6, <3>1, <3>4, <4>1
        <3>5. QED
            BY <3>3, <3>4
    <2>2. QED
        BY <1>5, <1>9, <2>1
<1>13. \A i \in 1..n : up[i] \in DOMAIN next /\ next[up[i]].parent = NoNode
    <2>1. \A i \in 1..n : up[i] \in DOMAIN next
        BY <1>5
    <2>2. \A i \in 1..n : Joins(at, i) => next[up[i]].parent = NoNode
        BY <1>7
    <2>3. \A i \in 1..n : ~Joins(at, i) => next[up[i]].parent = NoNode
        BY <1>2, <1>6, <1>11
    <2>4. QED
        BY <2>1, <2>2, <2>3
<1>14. \A i \in 1..n : next[up[i]].first = tree[layer[at[i] + 1]].first
                       /\ next[up[i]].last = tree[layer[at[i + 1]]].last
    <2>1. ASSUME NEW i \in 1..n, ~Joins(at, i)
          PROVE  next[up[i]].first = tree[layer[at[i] + 1]].first
                 /\ next[up[i]].last = tree[layer[at[i + 1]]].last
        BY <1>6, <1>11, <2>1
    <2>2. QED
        BY <1>7, <2>1
<1>15. ASSUME NEW c \in DOMAIN next
       PROVE  \/ c \in DOMAIN tree /\ tree[c].parent # NoNode /\ next[c] = tree[c]
              \/ next[c].parent = NoNode /\ \E i \in 1..n : c = up[i]
              \/ \E i \in 1..n : /\ Joins(at, i) /\ next[c].parent = up[i]
                                 /\ \E p \in 1..L : Within(at, i, p) /\ c = layer[p]
    <2>1. ASSUME c \in DOMAIN tree, tree[c].parent = NoNode, \A i \in 1..n : c # up[i]
          PROVE  \E i \in 1..n : /\ Joins(at, i) /\ next[c].parent = up[i]
                                 /\ \E p \in 1..L : Within(at, i, p) /\ c = layer[p]
        <3>1. PICK p \in 1..L : c = layer[p]
            BY <1>2, <2>1
        <3>2. PICK i \in 1..n : Within(at, i, p)
            BY <1>2
        <3>3. Joins(at, i)
            <4>1. SUFFICES ASSUME ~Joins(at, i) PROVE FALSE
                OBVIOUS
            <4>2. p = at[i + 1]
                BY <1>11, <3>2, <4>1
            <4>3. QED
                BY <1>6, <2>1, <3>1, <4>1, <4>2
        <3>4. QED
            BY <1>10, <3>1, <3>2, <3>3
    <2>2. QED
        BY <1>5, <1>9, <1>13, <2>1
<1>16. \A i \in 1..n : Joins(at, i) => up[i] \notin DOMAIN tree /\ ~next[up[i]].leaf
    BY <1>7
<1>17. \A i \in 1..n : Joins(at, i) => \A p \in 1..L : Within(at, i, p) =>
            next[layer[p]].parent = up[i] /\ next[layer[p]].order = p - at[i] - 1
    BY <1>10
<1>18. QED
    BY Zenon, <1>1, <1>9, <1>12, <1>13, <1>14, <1>15, <1>16, <1>17 DEF Kinds

(* A node that had children keeps them.                                    *)
LEMMA ChildrenStay ==
    ASSUME NEW tree, NEW layer, NEW n, NEW at, NEW up, NEW next, TreeType(tree),
           Kinds(tree, layer, n, at, up, next),
           NEW m \in DOMAIN tree, NEW list, IsChildren(tree, m, list)
    PROVE  IsChildren(next, m, list)
<1>1. m \in Nat /\ m # NoNode
    BY TreeAssumption DEF TreeType
<1>2. /\ \A c \in DOMAIN tree : c \in DOMAIN next
      /\ \A c \in DOMAIN tree : tree[c].parent # NoNode => next[c] = tree[c]
      /\ \A i \in 1..n : Joins(at, i) => up[i] \notin DOMAIN tree
      /\ \A c \in DOMAIN next :
          \/ c \in DOMAIN tree /\ tree[c].parent # NoNode /\ next[c] = tree[c]
          \/ next[c].parent = NoNode
          \/ \E i \in 1..n : Joins(at, i) /\ next[c].parent = up[i]
    BY DEF Kinds
<1>3. ChildSet(next, m) = ChildSet(tree, m)
    BY <1>1, <1>2 DEF ChildSet
<1>4. /\ list \in Seq(DOMAIN tree)
      /\ ToSet(list) = ChildSet(tree, m)
      /\ \A i \in 1..Len(list) : tree[list[i]].order = i - 1
    BY DEF IsChildren
<1>5. list \in Seq(DOMAIN next)
    <2>1. DOMAIN tree \subseteq DOMAIN next
        BY <1>2
    <2>2. QED
        BY <1>4, <2>1, Wider
<1>6. \A i \in 1..Len(list) : next[list[i]].order = i - 1
    <2>1. PICK L : L = Len(list)
        OBVIOUS
    <2>2. ToSet(list) = {list[i] : i \in 1..L}
        BY <1>4, <2>1, ListFacts
    <2>3. \A i \in 1..L : list[i] \in DOMAIN tree /\ tree[list[i]].parent = m
        BY <1>4, <2>2 DEF ChildSet
    <2>4. \A i \in 1..L : next[list[i]] = tree[list[i]]
        BY <1>1, <1>2, <2>3
    <2>5. QED
        BY <1>4, <2>1, <2>4
<1>7. QED
    BY <1>3, <1>4, <1>5, <1>6 DEF IsChildren

LEMMA CoversStay ==
    ASSUME NEW tree, NEW layer, NEW n, NEW at, NEW up, NEW next,
           Kinds(tree, layer, n, at, up, next),
           NEW m \in DOMAIN tree, NEW list, list \in Seq(DOMAIN tree),
           Covers(tree, m, list)
    PROVE  Covers(next, m, list)
<1>1. PICK L : L = Len(list)
    OBVIOUS
<1>2. L \in Nat /\ \A i \in 1..L : list[i] \in DOMAIN tree
    BY <1>1, ListFacts
<1>3. \A c \in DOMAIN tree : next[c].first = tree[c].first /\ next[c].last = tree[c].last
    BY DEF Kinds
<1>4. /\ L \in Nat \ {0, 1}
      /\ \A i \in 1..(L - 1) : tree[list[i]].last + 1 = tree[list[i + 1]].first
      /\ tree[m].first = tree[list[1]].first
      /\ tree[m].last = tree[list[L]].last
    BY <1>1 DEF Covers, Touch
<1>5. 1 \in 1..L /\ L \in 1..L
    BY <1>2, <1>4
<1>6. \A i \in 1..(L - 1) : i \in 1..L /\ i + 1 \in 1..L
    BY <1>2
<1>7. \A i \in 1..(L - 1) : next[list[i]].last + 1 = next[list[i + 1]].first
    BY <1>2, <1>3, <1>4, <1>6
<1>8. next[m].first = next[list[1]].first /\ next[m].last = next[list[L]].last
    BY <1>2, <1>3, <1>4, <1>5
<1>9. QED
    BY <1>1, <1>4, <1>7, <1>8 DEF Covers, Touch

GroupAt(layer, at, i) == [k \in 1..(at[i + 1] - at[i]) |-> layer[at[i] + k]]

(* A group that is joined makes up its new parent.                         *)
LEMMA GroupIsFamily ==
    ASSUME NEW tree, NEW layer, NEW n, NEW at, NEW up, NEW next, TreeType(next),
           Cut(layer, n, at), Places(tree, layer, n, at), Touch(tree, layer),
           \A c \in DOMAIN tree : tree[c].parent \in Inner(tree) \cup {NoNode},
           \A j, k \in 1..n : up[j] = up[k] => j = k,
           Kinds(tree, layer, n, at, up, next),
           NEW i \in 1..n, Joins(at, i)
    PROVE  Family(next, up[i], GroupAt(layer, at, i))
<1>1. PICK L : L = Len(layer)
    OBVIOUS
<1>2. PICK a \in Nat, b \in Nat : /\ a = at[i] /\ b = at[i + 1] /\ a + 1 < b /\ b <= L
                                  /\ L \in Nat
    BY <1>1 DEF Places, Joins
<1>3. PICK g : g = GroupAt(layer, at, i)
    OBVIOUS
<1>4. g = [k \in 1..(b - a) |-> layer[a + k]]
    BY <1>2, <1>3 DEF GroupAt
<1>5. \A k \in 1..(b - a) : a + k \in 1..L /\ Within(at, i, a + k)
    BY <1>2 DEF Within
<1>6. \A p \in 1..L : layer[p] \in DOMAIN tree
    BY <1>1 DEF Places
<1>7. \A c \in DOMAIN tree : /\ c \in DOMAIN next /\ next[c].first = tree[c].first
                             /\ next[c].last = tree[c].last
    BY DEF Kinds
<1>8. \A p \in 1..L : Within(at, i, p) =>
            next[layer[p]].parent = up[i] /\ next[layer[p]].order = p - a - 1
    BY Zenon, <1>1, <1>2 DEF Kinds
<1>9. \A k \in 1..(b - a) :
            /\ g[k] \in DOMAIN tree /\ g[k] \in DOMAIN next
            /\ next[g[k]].parent = up[i] /\ next[g[k]].order = k - 1
    BY <1>2, <1>4, <1>5, <1>6, <1>7, <1>8
<1>10. g \in Seq(DOMAIN next) /\ Len(g) = b - a
    <2>1. b - a \in Nat
        BY <1>2
    <2>2. g \in [1..(b - a) -> DOMAIN next]
        BY <1>4, <1>9
    <2>3. QED
        BY <2>1, <2>2, IsList
<1>11. ToSet(g) = {g[k] : k \in 1..(b - a)}
    BY <1>10, ListFacts
<1>12. ASSUME NEW c \in DOMAIN next, next[c].parent = up[i]
       PROVE  c \in ToSet(g)
    <2>1. up[i] # NoNode
        <3>1. up[i] \in DOMAIN next /\ DOMAIN next \subseteq Nat
            BY DEF Kinds, TreeType
        <3>2. QED
            BY <3>1, TreeAssumption
    <2>2. up[i] \notin DOMAIN tree
        BY DEF Kinds
    <2>3. \/ c \in DOMAIN tree /\ tree[c].parent = up[i] /\ tree[c].parent # NoNode
          \/ \E j \in 1..n : /\ up[i] = up[j]
                             /\ \E p \in 1..L : Within(at, j, p) /\ c = layer[p]
        BY <1>1, <1>12, <2>1 DEF Kinds
    <2>4. CASE \E j \in 1..n : /\ up[i] = up[j]
                               /\ \E p \in 1..L : Within(at, j, p) /\ c = layer[p]
        <3>1. PICK p \in 1..L : Within(at, i, p) /\ c = layer[p]
            BY <2>4
        <3>2. p - a \in 1..(b - a) /\ a + (p - a) = p
            BY <1>2, <3>1 DEF Within
        <3>3. g[p - a] = c
            BY <1>4, <3>1, <3>2
        <3>4. QED
            BY <1>11, <3>2, <3>3
    <2>5. ~(c \in DOMAIN tree /\ tree[c].parent = up[i] /\ tree[c].parent # NoNode)
        BY <2>2 DEF Inner
    <2>6. QED
        BY <2>3, <2>4, <2>5
<1>13. ToSet(g) = ChildSet(next, up[i])
    <2>1. \A c \in ToSet(g) : c \in DOMAIN next /\ next[c].parent = up[i]
        BY <1>9, <1>11
    <2>2. QED
        BY <1>12, <2>1 DEF ChildSet
<1>14. IsChildren(next, up[i], g)
    BY <1>9, <1>10, <1>13 DEF IsChildren
<1>15. Covers(next, up[i], g)
    <2>1. b - a \in Nat \ {0, 1}
        BY <1>2
    <2>2. \A p \in 1..(L - 1) : tree[layer[p]].last + 1 = tree[layer[p + 1]].first
        BY <1>1 DEF Touch
    <2>3. \A k \in 1..(b - a - 1) : next[g[k]].last + 1 = next[g[k + 1]].first
        <3>1. ASSUME NEW k \in 1..(b - a - 1)
              PROVE  next[g[k]].last + 1 = next[g[k + 1]].first
            <4>1. /\ k \in 1..(b - a) /\ k + 1 \in 1..(b - a)
                  /\ a + k \in 1..(L - 1) /\ (a + k) + 1 = a + (k + 1)
                BY <1>2
            <4>2. g[k] = layer[a + k] /\ g[k + 1] = layer[(a + k) + 1]
                BY <1>4, <4>1
            <4>3. tree[g[k]].last + 1 = tree[g[k + 1]].first
                BY <2>2, <4>1, <4>2
            <4>4. QED
                BY <1>7, <1>9, <4>1, <4>3
        <3>2. QED
            BY <3>1
    <2>4. /\ next[up[i]].first = tree[layer[a + 1]].first
          /\ next[up[i]].last = tree[layer[b]].last
        BY <1>2 DEF Kinds
    <2>5. /\ 1 \in 1..(b - a) /\ b - a \in 1..(b - a)
          /\ g[1] = layer[a + 1] /\ g[b - a] = layer[b]
        <3>1. 1 \in 1..(b - a) /\ b - a \in 1..(b - a) /\ a + (b - a) = b
            BY <1>2
        <3>2. QED
            BY <1>4, <3>1
    <2>6. /\ next[g[1]].first = tree[g[1]].first
          /\ next[g[b - a]].last = tree[g[b - a]].last
        BY <1>7, <1>9, <2>5
    <2>7. QED
        BY <1>10, <2>1, <2>3, <2>4, <2>5, <2>6 DEF Covers, Touch
<1>16. QED
    BY <1>3, <1>14, <1>15 DEF Family

(* One pass leaves a whole tree, and in up the nodes without a parent.     *)
LEMMA RaisedKeeps ==
    ASSUME NEW tree, NEW layer, NEW n, NEW at, NEW up, NEW next, NEW done,
           Whole(tree, done), LayerInv(tree, layer), Cut(layer, n, at),
           Raised(tree, layer, n, at, up, next), up = [i \in 1..n |-> up[i]]
    PROVE  Whole(next, done) /\ LayerInv(next, up) /\ Kinds(tree, layer, n, at, up, next)
<1>1. /\ TreeType(tree) /\ LeavesInv(tree, done)
      /\ \A m \in Inner(tree) : \E list : Family(tree, m, list)
      /\ \A c \in DOMAIN tree : tree[c].parent \in Inner(tree) \cup {NoNode}
    BY DEF Whole
<1>2. Places(tree, layer, n, at)
    BY PlacesOf
<1>3. Kinds(tree, layer, n, at, up, next)
    BY <1>1, <1>2, KindsOf
<1>4. /\ TreeType(next) /\ DOMAIN next = DOMAIN tree \cup {up[i] : i \in 1..n}
      /\ \A i, j \in 1..n : up[i] = up[j] => i = j
    BY Zenon DEF Raised
<1>5. PICK L \in Nat : L = Len(layer)
    BY <1>2 DEF Places
<1>6. \A c \in DOMAIN tree : /\ c \in DOMAIN next /\ next[c].first = tree[c].first
                             /\ next[c].last = tree[c].last /\ next[c].leaf = tree[c].leaf
    BY <1>3 DEF Kinds
<1>7. /\ \A i \in 1..n : up[i] \in DOMAIN next /\ next[up[i]].parent = NoNode
      /\ \A i \in 1..n : Joins(at, i) => up[i] \notin DOMAIN tree /\ ~next[up[i]].leaf
    BY <1>3 DEF Kinds
<1>8. \A c \in DOMAIN next : c \in DOMAIN tree \/ \E i \in 1..n : Joins(at, i) /\ c = up[i]
    <2>1. \A i \in 1..n : ~Joins(at, i) => up[i] \in DOMAIN tree
        <3>1. ASSUME NEW i \in 1..n, ~Joins(at, i)
              PROVE  up[i] \in DOMAIN tree
            <4>1. up[i] = layer[at[i + 1]]
                BY Zenon, <3>1 DEF Raised
            <4>2. at[i + 1] \in 1..L
                BY <1>2, <1>5 DEF Places
            <4>3. QED
                BY <1>2, <1>5, <4>1, <4>2 DEF Places
        <3>2. QED
            BY <3>1
    <2>2. QED
        BY <1>4, <2>1
<1>9. Inner(next) = Inner(tree) \cup {up[i] : i \in {j \in 1..n : Joins(at, j)}}
    BY <1>6, <1>7, <1>8 DEF Inner
<1>10. Leaves(next) = Leaves(tree)
    BY <1>6, <1>7, <1>8 DEF Leaves
<1>11. LeavesInv(next, done)
    <2>1. \A m \in Leaves(tree) : m \in DOMAIN tree
        BY DEF Leaves
    <2>2. {next[m].first : m \in Leaves(tree)} = {tree[m].first : m \in Leaves(tree)}
        BY <1>6, <2>1
    <2>3. QED
        BY <1>1, <1>6, <1>10, <2>1, <2>2 DEF LeavesInv
<1>12. \A m \in Inner(next) : \E list : Family(next, m, list)
    <2>1. ASSUME NEW m \in Inner(tree)
          PROVE  \E list : Family(next, m, list)
        <3>1. PICK list : Family(tree, m, list)
            BY <1>1
        <3>2. m \in DOMAIN tree /\ list \in Seq(DOMAIN tree)
            BY <3>1 DEF Family, IsChildren, Inner
        <3>3. IsChildren(next, m, list)
            BY <1>1, <1>3, <3>1, <3>2, ChildrenStay DEF Family
        <3>4. Covers(next, m, list)
            BY <1>3, <3>1, <3>2, CoversStay DEF Family
        <3>5. QED
            BY <3>3, <3>4 DEF Family
    <2>2. ASSUME NEW i \in 1..n, Joins(at, i)
          PROVE  \E list : Family(next, up[i], list)
        <3>1. Touch(tree, layer)
            BY DEF LayerInv
        <3>2. Family(next, up[i], GroupAt(layer, at, i))
            BY <1>1, <1>2, <1>3, <1>4, <2>2, <3>1, GroupIsFamily
        <3>3. QED
            BY <3>2
    <2>3. QED
        BY <1>9, <2>1, <2>2
<1>13. \A c \in DOMAIN next : next[c].parent \in Inner(next) \cup {NoNode}
    <2>1. ASSUME NEW c \in DOMAIN next
          PROVE  next[c].parent \in Inner(next) \cup {NoNode}
        <3>1. \/ c \in DOMAIN tree /\ tree[c].parent # NoNode /\ next[c] = tree[c]
              \/ next[c].parent = NoNode
              \/ \E i \in 1..n : Joins(at, i) /\ next[c].parent = up[i]
            BY <1>3 DEF Kinds
        <3>2. QED
            BY <1>1, <1>9, <3>1
    <2>2. QED
        BY <2>1
<1>14. Whole(next, done)
    BY <1>4, <1>11, <1>12, <1>13 DEF Whole
<1>15. /\ up \in Seq(DOMAIN next) /\ Len(up) = n /\ ToSet(up) = {up[i] : i \in 1..n}
       /\ n \in Nat
    <2>1. n \in Nat
        BY <1>2 DEF Places
    <2>2. up \in [1..n -> DOMAIN next]
        BY <1>7
    <2>3. up \in Seq(DOMAIN next) /\ Len(up) = n
        BY <2>1, <2>2, IsList
    <2>4. QED
        BY <2>1, <2>3, ListFacts
<1>16. ToSet(up) = ChildSet(next, NoNode)
    <2>1. \A i \in 1..n : up[i] \in ChildSet(next, NoNode)
        BY <1>7 DEF ChildSet
    <2>2. ASSUME NEW c \in DOMAIN next, next[c].parent = NoNode
          PROVE  \E i \in 1..n : c = up[i]
        <3>1. \/ next[c].parent # NoNode
              \/ \E i \in 1..n : c = up[i]
              \/ \E i \in 1..n : next[c].parent = up[i]
            BY <1>3 DEF Kinds
        <3>2. \A i \in 1..n : up[i] # NoNode
            BY <1>4, <1>7, TreeAssumption DEF TreeType
        <3>3. QED
            BY <2>2, <3>1, <3>2
    <2>3. QED
        BY <1>15, <2>1, <2>2 DEF ChildSet
<1>17. EachOnce(up)
    BY <1>4, <1>15 DEF EachOnce
<1>18. Touch(next, up)
    <2>1. ASSUME NEW i \in 1..(n - 1)
          PROVE  next[up[i]].last + 1 = next[up[i + 1]].first
        <3>1. i \in 1..n /\ i + 1 \in 1..n
            BY <1>15
        <3>2. /\ next[up[i]].last = tree[layer[at[i + 1]]].last
              /\ next[up[i + 1]].first = tree[layer[at[i + 1] + 1]].first
            BY <1>3, <3>1 DEF Kinds
        <3>3. at[i + 1] \in 1..(L - 1)
            <4>1. /\ at[i + 1] \in Nat /\ at[i] \in Nat /\ at[i] < at[i + 1]
                BY <1>2, <3>1 DEF Places
            <4>2. /\ at[(i + 1) + 1] \in Nat /\ at[i + 1] < at[(i + 1) + 1]
                  /\ at[(i + 1) + 1] <= L
                BY <1>2, <1>5, <3>1 DEF Places
            <4>3. QED
                BY <1>5, <4>1, <4>2
        <3>4. \A p \in 1..(L - 1) : tree[layer[p]].last + 1 = tree[layer[p + 1]].first
            BY <1>5 DEF LayerInv, Touch
        <3>5. QED
            BY <3>2, <3>3, <3>4
    <2>2. QED
        BY <1>15, <2>1 DEF Touch
<1>19. QED
    BY <1>3, <1>14, <1>15, <1>16, <1>17, <1>18 DEF LayerInv

(* The groups as lists.                                                    *)
Grouping(layer, groups, n, at) ==
    /\ DOMAIN groups = 1..n
    /\ \A i \in 1..n : /\ groups[i] = GroupAt(layer, at, i)
                       /\ Len(groups[i]) = 1 <=> ~Joins(at, i)
                       /\ Len(groups[i]) > 1 <=> Joins(at, i)
                       /\ Head(groups[i]) = layer[at[i] + 1]
                       /\ Last(groups[i]) = layer[at[i + 1]]
    /\ \A i \in 1..n : \A c : c \in ToSet(groups[i])
            <=> \E p \in 1..Len(layer) : Within(at, i, p) /\ c = layer[p]
    /\ \A i \in 1..n : \A p \in 1..Len(layer) : Within(at, i, p) =>
            PlaceIn(groups[i], layer[p]) = p - at[i]

LEMMA GroupingOf ==
    ASSUME NEW tree, NEW layer, NEW groups, NEW n, NEW at, Places(tree, layer, n, at),
           EachOnce(layer), InGroups(layer, groups, n, at)
    PROVE  Grouping(layer, groups, n, at)
<1>1. PICK L \in Nat : L = Len(layer)
    BY DEF Places
<1>2. \A i, j \in 1..L : layer[i] = layer[j] => i = j
    BY <1>1 DEF EachOnce
<1>3. DOMAIN groups = 1..n
    BY DEF InGroups
<1>4. ASSUME NEW i \in 1..n
      PROVE  /\ groups[i] = GroupAt(layer, at, i)
             /\ Len(groups[i]) = 1 <=> ~Joins(at, i)
             /\ Len(groups[i]) > 1 <=> Joins(at, i)
             /\ Head(groups[i]) = layer[at[i] + 1]
             /\ Last(groups[i]) = layer[at[i + 1]]
             /\ \A c : c \in ToSet(groups[i])
                    <=> \E p \in 1..L : Within(at, i, p) /\ c = layer[p]
             /\ \A p \in 1..L : Within(at, i, p) => PlaceIn(groups[i], layer[p]) = p - at[i]
    <2>1. PICK a \in Nat, b \in Nat : a = at[i] /\ b = at[i + 1] /\ a < b /\ b <= L
        BY <1>1 DEF Places
    <2>2. PICK g : g = groups[i]
        OBVIOUS
    <2>3. g = [k \in 1..(b - a) |-> layer[a + k]]
        BY <2>1, <2>2 DEF InGroups
    <2>4. /\ \A k \in 1..(b - a) : a + k \in 1..L
          /\ b - a \in Nat /\ 1 \in 1..(b - a) /\ b - a \in 1..(b - a) /\ a + (b - a) = b
        BY <1>1, <2>1
    <2>5. PICK T : \A p \in 1..L : layer[p] \in T
        <3>1. \A p \in 1..L : layer[p] \in {layer[q] : q \in 1..L}
            OBVIOUS
        <3>2. QED
            BY <3>1
    <2>6. g \in Seq(T) /\ Len(g) = b - a
        <3>1. g \in [1..(b - a) -> T]
            BY <2>3, <2>4, <2>5
        <3>2. QED
            BY <2>4, <3>1, IsList
    <2>7. Head(g) = layer[a + 1] /\ Last(g) = layer[b]
        <3>1. Head(g) = g[1]
            BY <2>3, <2>4, <2>6
        <3>2. Last(g) = g[b - a]
            BY <2>6 DEF Last
        <3>3. g[1] = layer[a + 1] /\ g[b - a] = layer[b]
            BY <2>3, <2>4
        <3>4. QED
            BY <3>1, <3>2, <3>3
    <2>8. ToSet(g) = {g[k] : k \in 1..(b - a)}
        BY <2>6, ListFacts
    <2>9. \A p \in 1..L : Within(at, i, p) => p - a \in 1..(b - a) /\ g[p - a] = layer[p]
        <3>1. ASSUME NEW p \in 1..L, Within(at, i, p)
              PROVE  p - a \in 1..(b - a) /\ g[p - a] = layer[p]
            <4>1. p - a \in 1..(b - a) /\ a + (p - a) = p
                BY <2>1, <3>1 DEF Within
            <4>2. QED
                BY <2>3, <4>1
        <3>2. QED
            BY <3>1
    <2>10. \A k \in 1..(b - a) : Within(at, i, a + k) /\ g[k] = layer[a + k]
        BY <2>1, <2>3 DEF Within
    <2>11. ASSUME NEW c
           PROVE  c \in ToSet(g) <=> \E p \in 1..L : Within(at, i, p) /\ c = layer[p]
        <3>1. ASSUME NEW p \in 1..L, Within(at, i, p), c = layer[p]
              PROVE  c \in ToSet(g)
            BY <2>8, <2>9, <3>1
        <3>2. ASSUME NEW k \in 1..(b - a), c = g[k]
              PROVE  \E p \in 1..L : Within(at, i, p) /\ c = layer[p]
            BY <2>4, <2>10, <3>2
        <3>3. QED
            BY <2>8, <3>1, <3>2
    <2>12. ASSUME NEW p \in 1..L, Within(at, i, p)
           PROVE  PlaceIn(g, layer[p]) = p - a
        <3>1. DOMAIN g = 1..(b - a)
            BY <2>3
        <3>2. p - a \in DOMAIN g /\ g[p - a] = layer[p]
            BY <2>9, <2>12, <3>1
        <3>3. \A k \in DOMAIN g : g[k] = layer[p] => k = p - a
            <4>1. ASSUME NEW k \in 1..(b - a), g[k] = layer[p]
                  PROVE  k = p - a
                <5>1. layer[a + k] = layer[p] /\ a + k \in 1..L
                    BY <2>4, <2>10, <4>1
                <5>2. a + k = p
                    BY <1>2, <5>1
                <5>3. QED
                    BY <2>1, <5>2
            <4>2. QED
                BY <3>1, <4>1
        <3>4. QED
            BY <3>2, <3>3 DEF PlaceIn
    <2>13. /\ Len(g) = 1 <=> ~Joins(at, i)
           /\ Len(g) > 1 <=> Joins(at, i)
        BY <2>1, <2>6 DEF Joins
    <2>14. g = GroupAt(layer, at, i)
        BY <2>1, <2>3 DEF GroupAt
    <2>15. QED
        BY <2>1, <2>2, <2>7, <2>11, <2>12, <2>13, <2>14
<1>5. QED
    BY <1>1, <1>3, <1>4 DEF Grouping

(* What goes up: the only node of a group, a parent the group had, or a    *)
(* node above top, which no tree has.                                      *)
Ups(previous, tree, layer, n, at, up, top) ==
    /\ up = [i \in 1..n |-> up[i]]
    /\ \A i \in 1..n : up[i] \in Nat
    /\ \A i \in 1..n : ~Joins(at, i) => up[i] = layer[at[i + 1]]
    /\ \A i \in 1..n : Joins(at, i) =>
            \/ /\ up[i] \in Inner(previous)
               /\ Children(previous, up[i]) = GroupAt(layer, at, i)
            \/ /\ up[i] = top + i
               /\ \A m \in Inner(previous) : Children(previous, m) # GroupAt(layer, at, i)
    /\ top \in Nat /\ \A c \in DOMAIN previous \cup DOMAIN tree : c <= top

(* The tree being planned has the rows of the published tree, and its      *)
(* parents the same children.                                              *)
Agrees(previous, tree) ==
    \A c \in DOMAIN tree \cap DOMAIN previous :
        /\ tree[c].leaf = previous[c].leaf
        /\ tree[c].first = previous[c].first /\ tree[c].last = previous[c].last
        /\ ~previous[c].leaf => IsChildren(tree, c, Children(previous, c))

LEMMA HighestIs ==
    ASSUME NEW S \in SUBSET Nat, IsFiniteSet(S)
    PROVE  Highest(S) \in Nat /\ \A x \in S : x <= Highest(S)
<1>1. S \cup {0} \in SUBSET Nat /\ IsFiniteSet(S \cup {0}) /\ S \cup {0} # {}
    BY FS_AddElement
<1>2. QED
    BY <1>1, MaxOfFinite DEF Highest

LEMMA AboveIs ==
    ASSUME NEW fan \in Nat \ {0, 1},
           NEW previous, NEW plan, NEW n, NEW at, TreeType(previous), TreeType(plan.nodes),
           Places(plan.nodes, plan.layer, n, at),
           Grouping(plan.layer, GroupsOf(fan, plan.layer), n, at)
    PROVE  Ups(previous, plan.nodes, plan.layer, n, at, Above(fan, previous, plan),
               Highest(DOMAIN previous \cup DOMAIN plan.nodes))
<1>1. PICK groups, layer, tree, top :
            /\ groups = GroupsOf(fan, plan.layer) /\ layer = plan.layer /\ tree = plan.nodes
            /\ top = Highest(DOMAIN previous \cup DOMAIN plan.nodes)
    OBVIOUS
<1>2. top \in Nat /\ \A c \in DOMAIN previous \cup DOMAIN tree : c <= top
    <2>1. /\ DOMAIN previous \cup DOMAIN tree \in SUBSET Nat
          /\ IsFiniteSet(DOMAIN previous \cup DOMAIN tree)
        BY <1>1, FS_Union DEF TreeType
    <2>2. QED
        BY <1>1, <2>1, HighestIs
<1>3. /\ n \in Nat /\ \A i \in 1..n : at[i] + 1 \in 1..Len(layer)
      /\ \A p \in 1..Len(layer) : layer[p] \in DOMAIN tree
      /\ \A i \in 1..n : ~Joins(at, i) => at[i] + 1 = at[i + 1]
    <2>1. /\ n \in Nat /\ Len(layer) \in Nat
          /\ \A p \in 1..Len(layer) : layer[p] \in DOMAIN tree
          /\ \A i \in 1..n : /\ at[i] \in Nat /\ at[i + 1] \in Nat
                             /\ at[i] < at[i + 1] /\ at[i + 1] <= Len(layer)
        BY <1>1 DEF Places
    <2>2. ASSUME NEW i \in 1..n
          PROVE  at[i] + 1 \in 1..Len(layer) /\ (~Joins(at, i) => at[i] + 1 = at[i + 1])
        <3>1. PICK a \in Nat, b \in Nat, L \in Nat :
                a = at[i] /\ b = at[i + 1] /\ L = Len(layer) /\ a < b /\ b <= L
            BY <2>1
        <3>2. a + 1 \in 1..L /\ (~(a + 1 < b) => a + 1 = b)
            BY <3>1
        <3>3. QED
            BY <3>1, <3>2 DEF Joins
    <2>3. QED
        BY <2>1, <2>2
<1>4. /\ DOMAIN groups = 1..n
      /\ \A i \in 1..n : /\ groups[i] = GroupAt(layer, at, i)
                         /\ Len(groups[i]) = 1 <=> ~Joins(at, i)
                         /\ Head(groups[i]) = layer[at[i] + 1]
    BY <1>1 DEF Grouping
<1> DEFINE Parent(i) == IF Reusable(previous, groups[i]) # {}
                        THEN CHOOSE m \in Reusable(previous, groups[i]) : TRUE
                        ELSE top + i
           f == [i \in 1..n |-> IF Len(groups[i]) = 1 THEN Head(groups[i]) ELSE Parent(i)]
<1>5. Above(fan, previous, plan) = <<>> \o f
    BY <1>1, <1>4 DEF Above, Listed
<1>6. \A i \in 1..n : ~Joins(at, i) => f[i] = layer[at[i + 1]] /\ f[i] \in Nat
    <2>1. ASSUME NEW i \in 1..n, ~Joins(at, i)
          PROVE  f[i] = layer[at[i + 1]] /\ f[i] \in Nat
        <3>1. f[i] = Head(groups[i])
            BY <1>4, <2>1
        <3>2. layer[at[i] + 1] \in Nat
            BY <1>1, <1>3 DEF TreeType
        <3>3. QED
            BY <1>3, <1>4, <2>1, <3>1, <3>2
    <2>2. QED
        BY <2>1
<1>7. \A i \in 1..n : Joins(at, i) =>
            /\ f[i] \in Nat
            /\ \/ f[i] \in Inner(previous) /\ Children(previous, f[i]) = GroupAt(layer, at, i)
               \/ /\ f[i] = top + i
                  /\ \A m \in Inner(previous) : Children(previous, m) # GroupAt(layer, at, i)
    <2>1. ASSUME NEW i \in 1..n, Joins(at, i)
          PROVE  /\ f[i] \in Nat
                 /\ \/ /\ f[i] \in Inner(previous)
                       /\ Children(previous, f[i]) = GroupAt(layer, at, i)
                    \/ /\ f[i] = top + i
                       /\ \A m \in Inner(previous) :
                            Children(previous, m) # GroupAt(layer, at, i)
        <3>1. f[i] = Parent(i)
            BY <1>4, <2>1
        <3>2. CASE Reusable(previous, groups[i]) # {}
            <4>1. f[i] \in Reusable(previous, groups[i])
                BY <3>1, <3>2
            <4>2. f[i] \in Inner(previous) /\ Children(previous, f[i]) = groups[i]
                BY <4>1 DEF Reusable, Inner
            <4>3. f[i] \in Nat
                BY <4>2 DEF Inner, TreeType
            <4>4. QED
                BY <1>4, <4>2, <4>3
        <3>3. CASE Reusable(previous, groups[i]) = {}
            <4>1. f[i] = top + i /\ f[i] \in Nat
                BY <1>2, <3>1, <3>3
            <4>2. \A m \in Inner(previous) : Children(previous, m) # groups[i]
                BY <3>3 DEF Reusable, Inner
            <4>3. QED
                BY <1>4, <4>1, <4>2
        <3>4. QED
            BY <3>2, <3>3
    <2>2. QED
        BY <2>1
<1>8. f = [i \in 1..n |-> f[i]]
    OBVIOUS
<1> HIDE DEF f
<1>9. \A i \in 1..n : f[i] \in Nat
    BY <1>6, <1>7
<1>10. <<>> \o f = f
    <2>1. f \in [1..n -> Nat]
        BY <1>8, <1>9
    <2>2. f \in Seq(Nat)
        BY <1>3, <2>1, IsList
    <2>3. QED
        BY <2>2
<1>11. Ups(previous, tree, layer, n, at, f, top)
    BY <1>2, <1>6, <1>7, <1>8, <1>9 DEF Ups
<1>12. QED
    BY <1>1, <1>5, <1>10, <1>11

(* A node that goes up is on no other place and not in the tree yet.       *)
LEMMA UpsFit ==
    ASSUME NEW previous, NEW tree, NEW layer, NEW n, NEW at, NEW up, NEW top,
           Agrees(previous, tree), EachOnce(layer),
           Cut(layer, n, at), Places(tree, layer, n, at),
           Ups(previous, tree, layer, n, at, up, top), TreeType(previous), TreeType(tree)
    PROVE  /\ \A i \in 1..n : Joins(at, i) => up[i] \notin DOMAIN tree
           /\ \A i, j \in 1..n : up[i] = up[j] => i = j
<1>1. PICK L \in Nat : L = Len(layer)
    BY DEF Places
<1>2. /\ n \in Nat
      /\ \A p \in 1..L : layer[p] \in DOMAIN tree /\ tree[layer[p]].parent = NoNode
      /\ \A i \in 1..n : /\ at[i] \in Nat /\ at[i + 1] \in Nat /\ at[i] < at[i + 1]
                         /\ at[i + 1] <= L
    BY <1>1 DEF Places
<1>3. \A i, j \in 1..L : layer[i] = layer[j] => i = j
    BY <1>1 DEF EachOnce
<1>4. \A i \in 1..n : at[i] + 1 \in 1..L /\ at[i + 1] \in 1..L
                      /\ Within(at, i, at[i] + 1) /\ Within(at, i, at[i + 1])
    <2>1. ASSUME NEW i \in 1..n
          PROVE  /\ at[i] + 1 \in 1..L /\ at[i + 1] \in 1..L
                 /\ Within(at, i, at[i] + 1) /\ Within(at, i, at[i + 1])
        BY <1>1, <1>2 DEF Within
    <2>2. QED
        BY <2>1
<1>5. \A i \in 1..n : GroupAt(layer, at, i)[1] = layer[at[i] + 1]
    <2>1. ASSUME NEW i \in 1..n
          PROVE  GroupAt(layer, at, i)[1] = layer[at[i] + 1]
        <3>1. 1 \in 1..(at[i + 1] - at[i])
            BY <1>2
        <3>2. QED
            BY <3>1 DEF GroupAt
    <2>2. QED
        BY <2>1
<1>6. /\ \A i \in 1..n : ~Joins(at, i) => up[i] = layer[at[i + 1]]
      /\ \A i \in 1..n : Joins(at, i) =>
            \/ /\ up[i] \in Inner(previous)
               /\ Children(previous, up[i]) = GroupAt(layer, at, i)
            \/ up[i] = top + i
      /\ top \in Nat /\ \A c \in DOMAIN previous \cup DOMAIN tree : c <= top
    BY DEF Ups
<1>7. DOMAIN previous \subseteq Nat /\ DOMAIN tree \subseteq Nat
    BY DEF TreeType
<1>8. \A i \in 1..n : up[i] = top + i => up[i] \notin DOMAIN previous /\ up[i] \notin DOMAIN tree
    BY <1>2, <1>6, <1>7
<1>9. \A i \in 1..n : up[i] \in Inner(previous) => up[i] \in DOMAIN previous /\ ~previous[up[i]].leaf
    BY DEF Inner
<1>10. ASSUME NEW i \in 1..n, Joins(at, i), up[i] \in DOMAIN tree
       PROVE  FALSE
    <2>1. up[i] \in Inner(previous) /\ Children(previous, up[i]) = GroupAt(layer, at, i)
        BY <1>6, <1>8, <1>10
    <2>2. PICK list : list = GroupAt(layer, at, i)
        OBVIOUS
    <2>3. IsChildren(tree, up[i], list)
        BY <1>9, <1>10, <2>1, <2>2 DEF Agrees
    <2>4. ToSet(list) = ChildSet(tree, up[i])
        BY <2>3 DEF IsChildren
    <2>5. list[1] \in ToSet(list)
        <3>1. 1 \in DOMAIN list
            BY <1>2, <2>2 DEF GroupAt
        <3>2. QED
            BY <3>1 DEF ToSet
    <2>6. layer[at[i] + 1] \in ChildSet(tree, up[i])
        BY <1>5, <2>2, <2>4, <2>5
    <2>7. tree[layer[at[i] + 1]].parent = up[i]
        BY <2>6 DEF ChildSet
    <2>8. tree[layer[at[i] + 1]].parent = NoNode
        BY <1>2, <1>4
    <2>9. QED
        BY <1>7, <1>10, <2>7, <2>8, TreeAssumption
<1>11. ASSUME NEW i \in 1..n, NEW j \in 1..n, up[i] = up[j]
       PROVE  i = j
    <2>1. ASSUME NEW p \in 1..L, Within(at, i, p), Within(at, j, p)
          PROVE  i = j
        BY <2>1, OneGroup DEF Within
    <2>2. CASE ~Joins(at, i) /\ ~Joins(at, j)
        <3>1. layer[at[i + 1]] = layer[at[j + 1]]
            BY <1>6, <1>11, <2>2
        <3>2. at[i + 1] = at[j + 1]
            BY <1>3, <1>4, <3>1
        <3>3. QED
            BY <1>4, <2>1, <3>2
    <2>3. ~(Joins(at, i) /\ ~Joins(at, j)) /\ ~(Joins(at, j) /\ ~Joins(at, i))
        BY <1>2, <1>4, <1>6, <1>10, <1>11
    <2>4. CASE Joins(at, i) /\ Joins(at, j)
        <3>1. ASSUME up[i] = top + i
              PROVE  i = j
            <4>1. up[i] \notin Inner(previous)
                BY <1>8, <1>9, <3>1
            <4>2. up[j] = top + j
                BY <1>6, <1>11, <2>4, <4>1
            <4>3. i \in Int /\ j \in Int /\ top \in Int
                BY <1>2, <1>6
            <4>4. top + i = top + j
                BY <1>11, <3>1, <4>2
            <4>5. QED
                BY <4>3, <4>4
        <3>2. ASSUME up[j] = top + j
              PROVE  i = j
            <4>1. up[j] \notin Inner(previous)
                BY <1>8, <1>9, <3>2
            <4>2. up[i] = top + i
                BY <1>6, <1>11, <2>4, <4>1
            <4>3. i \in Int /\ j \in Int /\ top \in Int
                BY <1>2, <1>6
            <4>4. top + i = top + j
                BY <1>11, <3>2, <4>2
            <4>5. QED
                BY <4>3, <4>4
        <3>3. CASE up[i] # top + i /\ up[j] # top + j
            <4>1. GroupAt(layer, at, i) = GroupAt(layer, at, j)
                BY <1>6, <1>11, <2>4, <3>3
            <4>2. layer[at[i] + 1] = layer[at[j] + 1]
                BY <1>5, <4>1
            <4>3. at[i] + 1 = at[j] + 1
                BY <1>3, <1>4, <4>2
            <4>4. QED
                BY <1>4, <2>1, <4>3
        <3>4. QED
            BY <3>1, <3>2, <3>3
    <2>5. QED
        BY <2>2, <2>3, <2>4
<1>12. QED
    BY <1>10, <1>11

(* All that is known when a pass begins.                                   *)
Setting(previous, tree, layer, groups, n, at, up, top) ==
    /\ TreeType(previous) /\ TreeType(tree)
    /\ \A m \in Inner(previous) : \E list : Family(previous, m, list)
    /\ Agrees(previous, tree) /\ LayerInv(tree, layer) /\ EachOnce(layer)
    /\ Cut(layer, n, at) /\ Places(tree, layer, n, at) /\ Grouping(layer, groups, n, at)
    /\ Ups(previous, tree, layer, n, at, up, top)
    /\ \A i \in 1..n : Joins(at, i) => up[i] \notin DOMAIN tree
    /\ \A i, j \in 1..n : up[i] = up[j] => i = j

(* A parent that is kept had exactly the group for its children.           *)
LEMMA KeptParent ==
    ASSUME NEW previous, NEW tree, NEW layer, NEW groups, NEW n, NEW at, NEW up, NEW top,
           Setting(previous, tree, layer, groups, n, at, up, top),
           NEW i \in 1..n, Joins(at, i), up[i] \in DOMAIN previous
    PROVE  /\ up[i] \in Inner(previous) /\ Children(previous, up[i]) = GroupAt(layer, at, i)
           /\ previous[up[i]].first = tree[layer[at[i] + 1]].first
           /\ previous[up[i]].last = tree[layer[at[i + 1]]].last
<1>1. /\ TreeType(previous) /\ TreeType(tree) /\ Agrees(previous, tree)
      /\ \A m \in Inner(previous) : \E list : Family(previous, m, list)
      /\ Places(tree, layer, n, at) /\ Ups(previous, tree, layer, n, at, up, top)
    BY DEF Setting
<1>2. up[i] \in Inner(previous) /\ Children(previous, up[i]) = GroupAt(layer, at, i)
    <2>1. n \in Nat /\ DOMAIN previous \subseteq Nat
        BY <1>1 DEF Places, TreeType
    <2>2. top \in Nat /\ \A c \in DOMAIN previous : c <= top
        BY <1>1 DEF Ups
    <2>3. up[i] # top + i
        BY <2>1, <2>2
    <2>4. QED
        BY <1>1, <2>3 DEF Ups
<1>3. PICK list : Family(previous, up[i], list)
    BY <1>1, <1>2
<1>4. list = GroupAt(layer, at, i)
    <2>1. Children(previous, up[i]) = list
        BY <1>3, ChildrenIs DEF Family
    <2>2. QED
        BY <1>2, <2>1
<1>5. PICK a \in Nat, b \in Nat, L \in Nat :
        a = at[i] /\ b = at[i + 1] /\ a < b /\ b <= L /\ L = Len(layer)
    BY <1>1 DEF Places
<1>6. list = [k \in 1..(b - a) |-> layer[a + k]]
    BY <1>4, <1>5 DEF GroupAt
<1>7. /\ 1 \in 1..(b - a) /\ b - a \in 1..(b - a) /\ a + (b - a) = b
      /\ a + 1 \in 1..L /\ b \in 1..L
    <2>1. a < b /\ b <= L
        BY <1>5
    <2>2. QED
        BY <2>1
<1>8. list[1] = layer[a + 1] /\ list[b - a] = layer[b]
    BY <1>6, <1>7
<1>9. list \in Seq(DOMAIN previous)
    BY <1>3 DEF Family, IsChildren
<1>10. DOMAIN list = 1..Len(list) /\ Len(list) \in Nat
    BY <1>9, ListFacts
<1>11. Len(list) = b - a
    BY <1>5, <1>6, <1>7, <1>10
<1>12. list[1] \in DOMAIN previous /\ list[b - a] \in DOMAIN previous
    BY <1>7, <1>9, <1>11, ListFacts
<1>13. list[1] \in DOMAIN tree /\ list[b - a] \in DOMAIN tree
    BY <1>1, <1>5, <1>7, <1>8 DEF Places
<1>14. /\ tree[list[1]].first = previous[list[1]].first
       /\ tree[list[b - a]].last = previous[list[b - a]].last
    BY <1>1, <1>12, <1>13 DEF Agrees
<1>15. /\ previous[up[i]].first = previous[list[1]].first
       /\ previous[up[i]].last = previous[list[b - a]].last
    BY <1>3, <1>11 DEF Family, Covers
<1>16. QED
    BY <1>2, <1>5, <1>8, <1>14, <1>15

JoinsAll(r, tree, layer, at, i) ==
    /\ r \in Row /\ r.parent = NoNode /\ ~r.leaf
    /\ r.first = tree[layer[at[i] + 1]].first
    /\ r.last = tree[layer[at[i + 1]]].last

LEMMA ParentRowIs ==
    ASSUME NEW previous, NEW tree, NEW layer, NEW groups, NEW n, NEW at, NEW up, NEW top,
           Setting(previous, tree, layer, groups, n, at, up, top),
           NEW i \in 1..n, Joins(at, i), NEW r,
           r = ParentRow(previous, tree, groups[i], up[i])
    PROVE  JoinsAll(r, tree, layer, at, i)
<1>1. /\ TreeType(previous) /\ TreeType(tree)
      /\ Places(tree, layer, n, at) /\ Grouping(layer, groups, n, at)
    BY DEF Setting
<1>2. CASE up[i] \in DOMAIN previous
    <2>1. PICK p \in Row : p = previous[up[i]]
        BY <1>1, <1>2 DEF TreeType
    <2>2. r = [p EXCEPT !.parent = NoNode]
        BY <1>2, <2>1 DEF ParentRow
    <2>3. r \in Row /\ r.parent = NoNode /\ r.leaf = p.leaf /\ r.first = p.first /\ r.last = p.last
        BY <2>1, <2>2 DEF Row
    <2>4. /\ up[i] \in Inner(previous)
          /\ p.first = tree[layer[at[i] + 1]].first
          /\ p.last = tree[layer[at[i + 1]]].last
        BY <1>2, <2>1, KeptParent
    <2>5. ~p.leaf
        BY <2>1, <2>4 DEF Inner
    <2>6. QED
        BY <2>3, <2>4, <2>5 DEF JoinsAll
<1>3. CASE up[i] \notin DOMAIN previous
    <2>1. PICK first, last : /\ first = tree[layer[at[i] + 1]].first
                             /\ last = tree[layer[at[i + 1]]].last
        OBVIOUS
    <2>2. first \in Nat /\ last \in Nat
        <3>1. at[i] + 1 \in 1..Len(layer) /\ at[i + 1] \in 1..Len(layer)
            <4>1. /\ at[i] \in Nat /\ at[i + 1] \in Nat /\ at[i] < at[i + 1]
                  /\ at[i + 1] <= Len(layer) /\ Len(layer) \in Nat
                BY <1>1 DEF Places
            <4>2. QED
                BY <4>1
        <3>2. layer[at[i] + 1] \in DOMAIN tree /\ layer[at[i + 1]] \in DOMAIN tree
            BY <1>1, <3>1 DEF Places
        <3>3. tree[layer[at[i] + 1]] \in Row /\ tree[layer[at[i + 1]]] \in Row
            BY <1>1, <3>2 DEF TreeType
        <3>4. QED
            BY <2>1, <3>3 DEF Row
    <2>3. Head(groups[i]) = layer[at[i] + 1] /\ Last(groups[i]) = layer[at[i + 1]]
        BY <1>1 DEF Grouping
    <2>4. r = [parent |-> NoNode, order |-> 0, leaf |-> FALSE, first |-> first, last |-> last]
        BY <1>3, <2>1, <2>3 DEF ParentRow
    <2>5. QED
        BY <2>1, <2>2, <2>4 DEF Row, JoinsAll
<1>4. QED
    BY <1>2, <1>3 DEF JoinsAll

(* What Grouped makes of the nodes. *)
LEMMA GroupedRaises ==
    ASSUME NEW previous, NEW tree, NEW layer, NEW groups, NEW n, NEW at, NEW up, NEW top,
           Setting(previous, tree, layer, groups, n, at, up, top),
           NEW next, next = WithParents(previous, tree, groups, up)
    PROVE  /\ Raised(tree, layer, n, at, up, next)
           /\ \A i \in 1..n : Joins(at, i) =>
                next[up[i]] = ParentRow(previous, tree, groups[i], up[i])
<1>1. /\ TreeType(previous) /\ TreeType(tree) /\ LayerInv(tree, layer) /\ EachOnce(layer)
      /\ Cut(layer, n, at) /\ Places(tree, layer, n, at) /\ Grouping(layer, groups, n, at)
      /\ Ups(previous, tree, layer, n, at, up, top)
      /\ \A i \in 1..n : Joins(at, i) => up[i] \notin DOMAIN tree
      /\ \A i, j \in 1..n : up[i] = up[j] => i = j
    BY DEF Setting
<1> DEFINE joined == Plural(groups)
           GroupOf(m) == CHOOSE i \in joined : m \in ToSet(groups[i])
           Under(m) == CHOOSE i \in joined : up[i] = m
           Node(m) == IF m \notin DOMAIN tree
                      THEN ParentRow(previous, tree, groups[Under(m)], m)
                      ELSE IF \E i \in joined : m \in ToSet(groups[i])
                      THEN Numbered(tree[m], groups[GroupOf(m)], m, up[GroupOf(m)])
                      ELSE tree[m]
<1>2. DOMAIN groups = 1..n /\ \A i : i \in joined <=> i \in 1..n /\ Joins(at, i)
    BY <1>1 DEF Grouping, Plural
<1>3. next = [m \in DOMAIN tree \cup ToSet(up) |-> Node(m)]
    BY DEF WithParents
<1> HIDE DEF joined
<1> USE <1>2
<1>4. ToSet(up) = {up[i] : i \in 1..n}
    BY <1>1 DEF Ups, ToSet
<1>5. DOMAIN next = DOMAIN tree \cup {up[i] : i \in 1..n}
    BY <1>3, <1>4
<1>6. PICK L \in Nat : L = Len(layer)
    BY <1>1 DEF Places
<1>7. \A i, j \in 1..L : layer[i] = layer[j] => i = j
    BY <1>1, <1>6 DEF EachOnce
<1>8. /\ \A p \in 1..L : layer[p] \in DOMAIN tree
      /\ \A i \in 1..n : /\ at[i] \in Nat /\ at[i + 1] \in Nat /\ at[i] < at[i + 1]
                         /\ at[i + 1] <= L
    BY <1>1, <1>6 DEF Places
<1>9. /\ \A i \in 1..n : \A c : c \in ToSet(groups[i])
            <=> \E p \in 1..L : Within(at, i, p) /\ c = layer[p]
      /\ \A i \in 1..n : \A p \in 1..L : Within(at, i, p) =>
            PlaceIn(groups[i], layer[p]) = p - at[i]
    BY <1>1, <1>6 DEF Grouping
<1>10. ASSUME NEW i \in joined
       PROVE  next[up[i]] = ParentRow(previous, tree, groups[i], up[i])
    <2>1. Under(up[i]) = i
        BY <1>1
    <2>2. up[i] \in DOMAIN next /\ up[i] \notin DOMAIN tree
        BY <1>1, <1>5
    <2> HIDE DEF Under
    <2>3. QED
        BY <1>3, <1>5, <2>1, <2>2
<1>11. ASSUME NEW i \in 1..n, NEW j \in 1..n, NEW p \in 1..L, Within(at, i, p),
              layer[p] \in ToSet(groups[j])
       PROVE  i = j
    <2>1. PICK q \in 1..L : Within(at, j, q) /\ layer[p] = layer[q]
        BY <1>9, <1>11
    <2>2. p = q
        BY <1>7, <2>1
    <2>3. QED
        BY <1>1, <1>11, <2>1, <2>2, OneGroup DEF Within
<1>12. ASSUME NEW i \in joined, NEW p \in 1..L, Within(at, i, p)
       PROVE  next[layer[p]] = Numbered(tree[layer[p]], groups[i], layer[p], up[i])
    <2>1. layer[p] \in ToSet(groups[i])
        BY <1>9, <1>12
    <2>2. GroupOf(layer[p]) = i
        BY <1>11, <1>12, <2>1
    <2>3. layer[p] \in DOMAIN tree
        BY <1>8
    <2> HIDE DEF GroupOf
    <2>4. Node(layer[p]) = Numbered(tree[layer[p]], groups[i], layer[p], up[i])
        BY <2>1, <2>2, <2>3
    <2>5. QED
        BY <1>3, <2>3, <2>4
<1>13. ASSUME NEW c \in DOMAIN tree, \A i \in joined : c \notin ToSet(groups[i])
       PROVE  next[c] = tree[c]
    <2> HIDE DEF GroupOf, Under
    <2>1. QED
        BY <1>3, <1>13
<1> HIDE DEF GroupOf, Under, Node
<1>14. ASSUME NEW i \in joined, NEW p \in 1..L, Within(at, i, p)
       PROVE  /\ next[layer[p]] \in Row
              /\ next[layer[p]] = [tree[layer[p]] EXCEPT !.parent = up[i], !.order = p - at[i] - 1]
    <2>1. PICK r \in Row : r = tree[layer[p]]
        BY <1>1, <1>8 DEF TreeType
    <2>2. PlaceIn(groups[i], layer[p]) = p - at[i] /\ p - at[i] \in Nat \ {0}
        BY <1>8, <1>9, <1>14 DEF Within
    <2>3. up[i] \in Nat
        BY <1>1 DEF Ups
    <2>4. PICK list, m : list = groups[i] /\ m = layer[p]
        OBVIOUS
    <2>5. PICK parent \in Nat, order \in Nat : parent = up[i] /\ order = p - at[i] - 1
        BY <2>2, <2>3
    <2>6. next[m] = Numbered(r, list, m, parent)
        BY <1>12, <1>14, <2>1, <2>4, <2>5
    <2>7. PlaceIn(list, m) - 1 = order
        BY <1>8, <2>2, <2>4, <2>5
    <2>8. /\ next[m] \in Row
          /\ next[m] = [r EXCEPT !.parent = parent, !.order = order]
        <3>1. PICK new : new = Numbered(r, list, m, parent)
            OBVIOUS
        <3>2. new \in Row /\ new = [r EXCEPT !.parent = parent, !.order = order]
            BY <2>7, <3>1 DEF Numbered, Row
        <3>3. QED
            BY <2>6, <3>1, <3>2
    <2>9. QED
        BY <2>1, <2>4, <2>5, <2>8
<1>15. \A i \in 1..n : ~Joins(at, i) => up[i] = layer[at[i + 1]] /\ next[up[i]] = tree[up[i]]
    <2>1. ASSUME NEW i \in 1..n, ~Joins(at, i)
          PROVE  up[i] = layer[at[i + 1]] /\ next[up[i]] = tree[up[i]]
        <3>1. up[i] = layer[at[i + 1]]
            BY <1>1, <2>1 DEF Ups
        <3>2. at[i + 1] \in 1..L /\ Within(at, i, at[i + 1])
            BY <1>8 DEF Within
        <3>3. \A j \in joined : up[i] \notin ToSet(groups[j])
            BY <1>11, <2>1, <3>1, <3>2
        <3>4. up[i] \in DOMAIN tree
            BY <1>8, <3>1, <3>2
        <3>5. QED
            BY <1>13, <3>1, <3>3, <3>4
    <2>2. QED
        BY <2>1
<1>16. \A c \in DOMAIN tree \ ToSet(layer) : next[c] = tree[c]
    <2>1. ASSUME NEW c \in DOMAIN tree, c \notin ToSet(layer)
          PROVE  \A i \in joined : c \notin ToSet(groups[i])
        <3>1. \A p \in 1..L : layer[p] \in ToSet(layer)
            BY <1>1, <1>6, ListFacts DEF LayerInv
        <3>2. QED
            BY <1>9, <2>1, <3>1
    <2>2. QED
        BY <1>13, <2>1
<1>17. ASSUME NEW i \in joined
       PROVE  /\ next[up[i]] \in Row
              /\ next[up[i]].parent = NoNode /\ ~next[up[i]].leaf
              /\ next[up[i]].first = tree[layer[at[i] + 1]].first
              /\ next[up[i]].last = tree[layer[at[i + 1]]].last
    <2>1. PICK r : r = ParentRow(previous, tree, groups[i], up[i])
        OBVIOUS
    <2>2. next[up[i]] = r
        BY <1>10, <2>1
    <2>3. i \in 1..n /\ Joins(at, i)
        OBVIOUS
    <2>4. JoinsAll(r, tree, layer, at, i)
        BY <2>1, <2>3, ParentRowIs
    <2>5. QED
        BY <2>2, <2>4 DEF JoinsAll
<1>18. \A c \in DOMAIN next : next[c] \in Row
    <2>1. ASSUME NEW c \in DOMAIN tree
          PROVE  next[c] \in Row
        <3>1. CASE \E i \in joined : c \in ToSet(groups[i])
            <4>1. PICK i \in joined : c \in ToSet(groups[i])
                BY <3>1
            <4>2. PICK p \in 1..L : Within(at, i, p) /\ c = layer[p]
                BY <1>9, <4>1
            <4>3. QED
                BY <1>14, <4>2
        <3>2. CASE \A i \in joined : c \notin ToSet(groups[i])
            BY <1>1, <1>13, <3>2 DEF TreeType
        <3>3. QED
            BY <3>1, <3>2
    <2>2. \A i \in 1..n : ~Joins(at, i) => up[i] \in DOMAIN tree
        BY <1>1, <1>8, <1>15
    <2>3. QED
        BY <1>5, <1>17, <2>1, <2>2
<1>19. TreeType(next)
    <2>1. DOMAIN next \in SUBSET Nat
        <3>1. DOMAIN tree \subseteq Nat
            BY <1>1 DEF TreeType
        <3>2. \A i \in 1..n : up[i] \in Nat
            BY <1>1 DEF Ups
        <3>3. QED
            BY <1>5, <3>1, <3>2
    <2>2. IsFiniteSet(DOMAIN next)
        <3>1. IsFiniteSet({up[i] : i \in 1..n})
            <4>1. n \in Nat
                BY <1>1 DEF Places
            <4>2. \A i, j \in 1..n : up[i] = up[j] => i = j
                BY <1>1
            <4>3. PICK S : S = {up[i] : i \in 1..n}
                OBVIOUS
            <4>4. /\ \A i \in 1..n : up[i] \in S
                  /\ \A s \in S : \E i \in 1..n : up[i] = s
                BY <4>3
            <4>5. IsFiniteSet(S)
                BY <4>1, <4>2, <4>4, AsManyAsPlaces
            <4>6. QED
                BY <4>3, <4>5
        <3>2. IsFiniteSet(DOMAIN tree)
            BY <1>1 DEF TreeType
        <3>3. PICK S, T : S = DOMAIN tree /\ T = {up[i] : i \in 1..n}
            OBVIOUS
        <3>4. IsFiniteSet(S \cup T)
            BY <3>1, <3>2, <3>3, FS_Union
        <3>5. QED
            BY <1>5, <3>3, <3>4
    <2>3. next = [c \in DOMAIN next |-> next[c]]
        BY <1>3
    <2>4. QED
        BY <1>18, <2>1, <2>2, <2>3 DEF TreeType
<1>20. \A i \in 1..n : Joins(at, i) => \A p \in 1..Len(layer) : Within(at, i, p) =>
            next[layer[p]] = [tree[layer[p]] EXCEPT !.parent = up[i], !.order = p - at[i] - 1]
    BY <1>6, <1>14
<1>21. \A i \in 1..n : Joins(at, i) =>
            /\ up[i] \notin DOMAIN tree
            /\ next[up[i]].parent = NoNode /\ ~next[up[i]].leaf
            /\ next[up[i]].first = tree[layer[at[i] + 1]].first
            /\ next[up[i]].last = tree[layer[at[i + 1]]].last
    BY <1>1, <1>17
<1>22. Raised(tree, layer, n, at, up, next)
    BY Zenon, <1>1, <1>5, <1>15, <1>16, <1>19, <1>20, <1>21 DEF Raised
<1>23. QED
    BY <1>10, <1>22

(* Every new parent is summarised, by its children, and no other.          *)
Summarised(previous, tree, summaries) ==
    /\ DOMAIN summaries = Inner(tree) \ DOMAIN previous
    /\ \A m \in DOMAIN summaries : IsChildren(tree, m, summaries[m])
    /\ summaries = [m \in DOMAIN summaries |-> summaries[m]]

(* What a pass keeps. *)
PlanInv(fan, previous, done, plan) ==
    /\ Whole(plan.nodes, done)
    /\ LayerInv(plan.nodes, plan.layer)
    /\ Agrees(previous, plan.nodes)
    /\ Summarised(previous, plan.nodes, plan.summaries)
    /\ Narrow(fan, plan.nodes)

LEMMA SummariesStay ==
    ASSUME NEW previous, NEW tree, NEW layer, NEW groups, NEW n, NEW at, NEW up, NEW top,
           Setting(previous, tree, layer, groups, n, at, up, top),
           NEW next, Kinds(tree, layer, n, at, up, next),
           Inner(next) = Inner(tree) \cup {up[i] : i \in {j \in 1..n : Joins(at, j)}},
           \A i \in 1..n : Joins(at, i) => IsChildren(next, up[i], groups[i]),
           NEW summaries, Summarised(previous, tree, summaries)
    PROVE  Summarised(previous, next, WithSummaries(previous, summaries, groups, up))
<1>1. /\ TreeType(tree) /\ Grouping(layer, groups, n, at)
      /\ \A i \in 1..n : Joins(at, i) => up[i] \notin DOMAIN tree
      /\ \A i, j \in 1..n : up[i] = up[j] => i = j
    BY DEF Setting
<1> DEFINE made == {i \in Plural(groups) : up[i] \notin DOMAIN previous}
           Under(m) == CHOOSE i \in made : up[i] = m
           new == WithSummaries(previous, summaries, groups, up)
<1>2. \A i : i \in made <=> i \in 1..n /\ Joins(at, i) /\ up[i] \notin DOMAIN previous
    BY <1>1 DEF Grouping, Plural
<1>3. new = [m \in DOMAIN summaries \cup {up[i] : i \in made} |->
                IF m \in DOMAIN summaries THEN summaries[m] ELSE groups[Under(m)]]
    BY DEF WithSummaries
<1>4. \A i \in made : Under(up[i]) = i
    BY <1>1, <1>2
<1> HIDE DEF made, Under, new
<1>5. /\ DOMAIN summaries = Inner(tree) \ DOMAIN previous
      /\ \A m \in DOMAIN summaries : IsChildren(tree, m, summaries[m])
    BY DEF Summarised
<1>6. DOMAIN new = DOMAIN summaries \cup {up[i] : i \in made}
    BY <1>3
<1>7. DOMAIN new = Inner(next) \ DOMAIN previous
    BY <1>2, <1>5, <1>6
<1>8. ASSUME NEW m \in DOMAIN summaries
      PROVE  IsChildren(next, m, new[m])
    <2>1. new[m] = summaries[m] /\ IsChildren(tree, m, summaries[m]) /\ m \in DOMAIN tree
        BY <1>3, <1>5, <1>6 DEF Inner
    <2>2. PICK list : list = summaries[m]
        OBVIOUS
    <2>3. IsChildren(next, m, list)
        BY <1>1, <2>1, <2>2, ChildrenStay
    <2>4. QED
        BY <2>1, <2>2, <2>3
<1>9. ASSUME NEW i \in made
      PROVE  IsChildren(next, up[i], new[up[i]])
    <2>1. up[i] \notin DOMAIN summaries /\ up[i] \in DOMAIN new
        BY <1>1, <1>2, <1>5, <1>6 DEF Inner
    <2>2. new[up[i]] = groups[i]
        BY <1>3, <1>4, <1>6, <2>1
    <2>3. QED
        BY <1>2, <2>2
<1>10. \A m \in DOMAIN new : IsChildren(next, m, new[m])
    BY <1>6, <1>8, <1>9
<1>11. new = [m \in DOMAIN new |-> new[m]]
    BY <1>3
<1>12. QED
    BY <1>7, <1>10, <1>11 DEF Summarised, new

(* The parents a pass kept have in it the children they had.               *)
LEMMA AgreesStay ==
    ASSUME NEW previous, NEW tree, NEW layer, NEW groups, NEW n, NEW at, NEW up, NEW top,
           Setting(previous, tree, layer, groups, n, at, up, top),
           NEW next, TreeType(next), Kinds(tree, layer, n, at, up, next),
           DOMAIN next = DOMAIN tree \cup {up[i] : i \in {j \in 1..n : Joins(at, j)}},
           \A i \in 1..n : Joins(at, i) => IsChildren(next, up[i], groups[i])
    PROVE  Agrees(previous, next)
<1>1. /\ TreeType(tree) /\ TreeType(previous) /\ Agrees(previous, tree)
      /\ Grouping(layer, groups, n, at)
    BY DEF Setting
<1>2. ASSUME NEW c \in DOMAIN tree, c \in DOMAIN previous
      PROVE  /\ next[c].leaf = previous[c].leaf
             /\ next[c].first = previous[c].first /\ next[c].last = previous[c].last
             /\ ~previous[c].leaf => IsChildren(next, c, Children(previous, c))
    <2>1. /\ next[c].leaf = tree[c].leaf
          /\ next[c].first = tree[c].first /\ next[c].last = tree[c].last
        BY DEF Kinds
    <2>2. /\ tree[c].leaf = previous[c].leaf
          /\ tree[c].first = previous[c].first /\ tree[c].last = previous[c].last
          /\ ~previous[c].leaf => IsChildren(tree, c, Children(previous, c))
        BY <1>1, <1>2 DEF Agrees
    <2>3. PICK list : list = Children(previous, c)
        OBVIOUS
    <2>4. ~previous[c].leaf => IsChildren(next, c, list)
        BY <1>1, <2>2, <2>3, ChildrenStay
    <2>5. QED
        BY <2>1, <2>2, <2>3, <2>4
<1>3. ASSUME NEW i \in 1..n, Joins(at, i), up[i] \in DOMAIN previous
      PROVE  /\ next[up[i]].leaf = previous[up[i]].leaf
             /\ next[up[i]].first = previous[up[i]].first
             /\ next[up[i]].last = previous[up[i]].last
             /\ IsChildren(next, up[i], Children(previous, up[i]))
    <2>1. /\ up[i] \in Inner(previous) /\ Children(previous, up[i]) = GroupAt(layer, at, i)
          /\ previous[up[i]].first = tree[layer[at[i] + 1]].first
          /\ previous[up[i]].last = tree[layer[at[i + 1]]].last
        BY <1>3, KeptParent
    <2>2. /\ ~next[up[i]].leaf
          /\ next[up[i]].first = tree[layer[at[i] + 1]].first
          /\ next[up[i]].last = tree[layer[at[i + 1]]].last
        BY <1>3 DEF Kinds
    <2>3. groups[i] = GroupAt(layer, at, i)
        BY <1>1 DEF Grouping
    <2>4. next[up[i]].leaf = previous[up[i]].leaf
        <3>1. next[up[i]] \in Row
            BY <1>3 DEF TreeType
        <3>2. previous[up[i]] \in Row /\ ~previous[up[i]].leaf
            BY <1>1, <1>3, <2>1 DEF TreeType, Inner
        <3>3. next[up[i]].leaf \in BOOLEAN /\ previous[up[i]].leaf \in BOOLEAN
            BY <3>1, <3>2 DEF Row
        <3>4. QED
            BY <2>2, <3>2, <3>3
    <2>5. QED
        BY <1>3, <2>1, <2>2, <2>3, <2>4
<1>4. QED
    BY <1>2, <1>3 DEF Agrees

(* Nothing of tree is lost in next. *)
Extended(tree, next) ==
    /\ Inner(tree) \subseteq Inner(next)
    /\ \A m \in DOMAIN tree : /\ m \in DOMAIN next
                              /\ next[m].first = tree[m].first /\ next[m].leaf = tree[m].leaf
    /\ \A m \in DOMAIN tree : \A list :
            IsChildren(tree, m, list) => IsChildren(next, m, list)

(* What a pass made, with the cuts that it made.                           *)
Made(fan, previous, plan, result, n, at) ==
    /\ Exact(fan, plan.layer, n, at)
    /\ Len(result.layer) = n
    /\ \A i \in 1..n : ~Joins(at, i) => result.layer[i] = plan.layer[at[i + 1]]
    /\ \A i \in 1..n : Joins(at, i) =>
            /\ IsChildren(result.nodes, result.layer[i], GroupAt(plan.layer, at, i))
            /\ result.layer[i] \notin DOMAIN plan.nodes
            /\ result.nodes[result.layer[i]].first = plan.nodes[plan.layer[at[i] + 1]].first
            /\ (\E m \in Inner(previous) : Children(previous, m) = GroupAt(plan.layer, at, i))
                  => /\ result.layer[i] \in Inner(previous)
                     /\ Children(previous, result.layer[i]) = GroupAt(plan.layer, at, i)
    /\ Inner(result.nodes)
          = Inner(plan.nodes) \cup {result.layer[i] : i \in {j \in 1..n : Joins(at, j)}}
    /\ Extended(plan.nodes, result.nodes)

LEMMA GroupedKeeps ==
    ASSUME NEW fan \in Nat \ {0, 1},
           NEW previous, NEW plan, NEW done, TreeType(previous),
           \A m \in Inner(previous) : \E list : Family(previous, m, list),
           PlanInv(fan, previous, done, plan), Len(plan.layer) > fan
    PROVE  /\ PlanInv(fan, previous, done, Grouped(fan, previous, plan))
           /\ Len(Grouped(fan, previous, plan).layer) < Len(plan.layer)
           /\ \E n, at : Made(fan, previous, plan, Grouped(fan, previous, plan), n, at)
<1>1. PICK tree, layer, summaries, groups, up, top, next, new :
            /\ tree = plan.nodes /\ layer = plan.layer /\ summaries = plan.summaries
            /\ groups = GroupsOf(fan, plan.layer) /\ up = Above(fan, previous, plan)
            /\ top = Highest(DOMAIN previous \cup DOMAIN plan.nodes)
            /\ next = WithParents(previous, plan.nodes, groups, up)
            /\ new = WithSummaries(previous, plan.summaries, groups, up)
    OBVIOUS
<1>2. Grouped(fan, previous, plan) = [nodes |-> next, layer |-> up, summaries |-> new]
    BY <1>1 DEF Grouped
<1>3. /\ Whole(tree, done) /\ LayerInv(tree, layer)
      /\ Agrees(previous, tree) /\ Summarised(previous, tree, summaries)
      /\ Narrow(fan, tree)
    BY <1>1 DEF PlanInv
<1>4. TreeType(tree) /\ layer \in Seq(DOMAIN tree) /\ EachOnce(layer)
    BY <1>3 DEF Whole, LayerInv
<1>5. PICK n, at : /\ Cut(layer, n, at) /\ InGroups(layer, groups, n, at)
                   /\ Exact(fan, layer, n, at) /\ n < Len(layer)
    BY <1>1, <1>4, GroupsCut
<1>6. Places(tree, layer, n, at)
    BY <1>3, <1>5, PlacesOf
<1>7. Grouping(layer, groups, n, at)
    BY <1>4, <1>5, <1>6, GroupingOf
<1>8. Ups(previous, tree, layer, n, at, up, top)
    BY <1>1, <1>4, <1>6, <1>7, AboveIs
<1>9. /\ \A i \in 1..n : Joins(at, i) => up[i] \notin DOMAIN tree
      /\ \A i, j \in 1..n : up[i] = up[j] => i = j
    BY <1>3, <1>4, <1>5, <1>6, <1>8, UpsFit
<1>10. Setting(previous, tree, layer, groups, n, at, up, top)
    BY <1>3, <1>4, <1>5, <1>6, <1>7, <1>8, <1>9 DEF Setting
<1>11. next = WithParents(previous, tree, groups, up)
    BY <1>1
<1>12. Raised(tree, layer, n, at, up, next)
    BY <1>10, <1>11, GroupedRaises
<1>13. up = [i \in 1..n |-> up[i]]
    BY <1>8 DEF Ups
<1>14. Whole(next, done) /\ LayerInv(next, up) /\ Kinds(tree, layer, n, at, up, next)
    BY <1>3, <1>5, <1>12, <1>13, RaisedKeeps
<1>15. TreeType(next)
    BY <1>14 DEF Whole
<1>16. DOMAIN next = DOMAIN tree \cup {up[i] : i \in {j \in 1..n : Joins(at, j)}}
    <2>1. DOMAIN next = DOMAIN tree \cup {up[i] : i \in 1..n}
        BY Zenon, <1>12 DEF Raised
    <2>2. ASSUME NEW i \in 1..n, ~Joins(at, i)
          PROVE  up[i] \in DOMAIN tree
        <3>1. up[i] = layer[at[i + 1]]
            BY <1>8, <2>2 DEF Ups
        <3>2. at[i + 1] \in 1..Len(layer)
            <4>1. /\ at[i] \in Nat /\ at[i + 1] \in Nat /\ at[i] < at[i + 1]
                  /\ at[i + 1] <= Len(layer) /\ Len(layer) \in Nat
                BY <1>6 DEF Places
            <4>2. QED
                BY <4>1
        <3>3. QED
            BY <1>6, <3>1, <3>2 DEF Places
    <2>3. QED
        BY <2>1, <2>2
<1>17. Inner(next) = Inner(tree) \cup {up[i] : i \in {j \in 1..n : Joins(at, j)}}
    BY <1>14, <1>16 DEF Inner, Kinds
<1>18. \A i \in 1..n : Joins(at, i) => IsChildren(next, up[i], groups[i])
    <2>1. ASSUME NEW i \in 1..n, Joins(at, i)
          PROVE  IsChildren(next, up[i], groups[i])
        <3>1. /\ Touch(tree, layer)
              /\ \A c \in DOMAIN tree : tree[c].parent \in Inner(tree) \cup {NoNode}
            BY <1>3 DEF LayerInv, Whole
        <3>2. Family(next, up[i], GroupAt(layer, at, i))
            BY <1>5, <1>6, <1>9, <1>14, <1>15, <2>1, <3>1, GroupIsFamily
        <3>3. groups[i] = GroupAt(layer, at, i)
            BY <1>7 DEF Grouping
        <3>4. QED
            BY <3>2, <3>3 DEF Family
    <2>2. QED
        BY <2>1
<1>19. Agrees(previous, next)
    BY <1>10, <1>14, <1>15, <1>16, <1>18, AgreesStay
<1>20. Summarised(previous, next, new)
    BY <1>1, <1>3, <1>10, <1>14, <1>17, <1>18, SummariesStay
<1>21. Len(up) = n
    <2>1. n \in Nat
        BY <1>6 DEF Places
    <2>2. up \in [1..n -> Nat]
        BY <1>8 DEF Ups
    <2>3. QED
        BY <2>1, <2>2, IsList
<1>22. PICK result : result = Grouped(fan, previous, plan)
    OBVIOUS
<1>23. result.nodes = next /\ result.layer = up
    BY <1>2, <1>22
<1>24. \A i \in 1..n : ~Joins(at, i) => up[i] = layer[at[i + 1]]
    BY <1>8 DEF Ups
<1>25. ASSUME NEW i \in 1..n, Joins(at, i)
       PROVE  /\ IsChildren(next, up[i], GroupAt(layer, at, i))
              /\ up[i] \notin DOMAIN tree
              /\ next[up[i]].first = tree[layer[at[i] + 1]].first
              /\ (\E m \in Inner(previous) : Children(previous, m) = GroupAt(layer, at, i))
                    => /\ up[i] \in Inner(previous)
                       /\ Children(previous, up[i]) = GroupAt(layer, at, i)
    <2>1. IsChildren(next, up[i], GroupAt(layer, at, i))
        BY <1>7, <1>18, <1>25 DEF Grouping
    <2>2. next[up[i]].first = tree[layer[at[i] + 1]].first
        BY <1>14 DEF Kinds
    <2>3. (\E m \in Inner(previous) : Children(previous, m) = GroupAt(layer, at, i))
              => /\ up[i] \in Inner(previous)
                 /\ Children(previous, up[i]) = GroupAt(layer, at, i)
        BY <1>8, <1>25 DEF Ups
    <2>4. QED
        BY <1>9, <1>25, <2>1, <2>2, <2>3
<1>26. \A m \in DOMAIN tree : /\ m \in DOMAIN next
                              /\ next[m].first = tree[m].first /\ next[m].leaf = tree[m].leaf
    BY <1>14 DEF Kinds
<1>27. ASSUME NEW m \in DOMAIN tree, NEW list, IsChildren(tree, m, list)
       PROVE  IsChildren(next, m, list)
    BY <1>4, <1>14, <1>27, ChildrenStay
<1>28. Made(fan, previous, plan, result, n, at)
    <2>1. Extended(tree, next)
        BY <1>17, <1>26, <1>27 DEF Extended
    <2>2. QED
        BY <1>1, <1>5, <1>17, <1>21, <1>23, <1>24, <1>25, <2>1 DEF Made
<1>29. Narrow(fan, next)
    <2>1. ASSUME NEW m \in Inner(tree)
          PROVE  \E list : IsChildren(next, m, list) /\ Len(list) <= fan
        <3>1. PICK list : IsChildren(tree, m, list) /\ Len(list) <= fan
            BY <1>3 DEF Narrow
        <3>2. QED
            BY <1>27, <3>1 DEF Inner
    <2>2. ASSUME NEW i \in 1..n, Joins(at, i)
          PROVE  \E list : IsChildren(next, up[i], list) /\ Len(list) <= fan
        <3>1. PICK size \in Nat : size = at[i + 1] - at[i] /\ size <= fan
            <4>1. at[i] \in Nat /\ at[i + 1] \in Nat /\ at[i] < at[i + 1]
                BY <1>6 DEF Places
            <4>2. at[i + 1] <= at[i] + fan
                BY <1>5 DEF Exact
            <4>3. QED
                BY <4>1, <4>2
        <3>2. Len(GroupAt(layer, at, i)) = size
            BY <3>1 DEF GroupAt
        <3>3. IsChildren(next, up[i], GroupAt(layer, at, i))
            BY <1>25, <2>2
        <3>4. QED
            BY <3>1, <3>2, <3>3
    <2>3. QED
        BY <1>17, <2>1, <2>2 DEF Narrow
<1>30. PlanInv(fan, previous, done, Grouped(fan, previous, plan))
    BY <1>1, <1>2, <1>14, <1>19, <1>20, <1>29 DEF PlanInv
<1>31. QED
    BY <1>1, <1>2, <1>5, <1>21, <1>22, <1>28, <1>30

(* One pass after the other. *)
Passes(fan, r, previous, start, A) ==
    /\ r \in [0..Len(start.layer) -> A]
    /\ r[0] = start
    /\ \A k \in 1..Len(start.layer) : r[k] = Pass(fan, previous, r[k - 1])
    /\ Layered(fan, previous, start) = r[Len(start.layer)]

LEMMA LayeredTraced ==
    ASSUME NEW fan \in Nat \ {0, 1},
           NEW previous, NEW A, NEW start \in A, NEW S, start.layer \in Seq(S),
           \A plan \in A : Pass(fan, previous, plan) \in A
    PROVE  \E r : Passes(fan, r, previous, start, A)
<1> DEFINE n == Len(start.layer)
           step == [p \in A \X (1..n) |-> Pass(fan, previous, p[1])]
           Folds(iter) ==
                iter = [t \in SUBSET DOMAIN start.layer |->
                        IF t = {} THEN start
                        ELSE Pass(fan, previous, iter[t \ {Max(t)}])]
<1>1. n \in Nat /\ DOMAIN start.layer = 1..n /\ start \in A
    BY ListFacts
<1>2. step \in [A \X (1..n) -> A]
    BY DEF step
<1>3. Layered(fan, previous, start) = (CHOOSE iter : Folds(iter))[1..n]
    BY <1>1 DEF Layered, FoldLeft, MapThenFoldSet
<1>4. \A a \in A : \A k \in 1..n : step[<<a, k>>] = Pass(fan, previous, a)
    OBVIOUS
<1>5. \A t \in SUBSET (1..n) : t # {} => Max(t) \in 1..n
    BY <1>1, MaxInRange
<1> HIDE DEF n, step
<1>6. PICK iter : Folded(iter, n, A, start, step)
    BY <1>1, <1>2, FoldExists
<1>7. Folds(iter)
    <2>1. \A t \in SUBSET (1..n) : t \ {Max(t)} \in SUBSET (1..n)
        OBVIOUS
    <2>2. \A t \in SUBSET (1..n) : iter[t] \in A
        BY <1>6 DEF Folded
    <2>3. ASSUME NEW t \in SUBSET (1..n)
          PROVE  iter[t] = IF t = {} THEN start
                           ELSE Pass(fan, previous, iter[t \ {Max(t)}])
        <3>1. CASE t = {}
            BY <1>6, <3>1 DEF Folded
        <3>2. CASE t # {}
            <4>1. iter[t] = step[<<iter[t \ {Max(t)}], Max(t)>>]
                BY <1>6, <3>2 DEF Folded
            <4>2. QED
                BY <1>4, <1>5, <2>1, <2>2, <3>2, <4>1
        <3>3. QED
            BY <3>1, <3>2
    <2>4. iter = [t \in SUBSET (1..n) |-> iter[t]]
        BY <1>6 DEF Folded
    <2>5. QED
        BY <1>1, <2>3, <2>4
<1>8. PICK f : f = CHOOSE g : Folds(g)
    OBVIOUS
<1>9. Folds(f)
    <2> HIDE DEF Folds
    <2>1. QED
        BY <1>7, <1>8
<1>10. Follows(f, n, A, start, step)
    <2>1. f[{}] = start
        BY <1>9
    <2>2. ASSUME NEW t \in SUBSET (1..n), t # {}, f[t \ {Max(t)}] \in A
          PROVE  f[t] = step[<<f[t \ {Max(t)}], Max(t)>>]
        <3>1. f[t] = Pass(fan, previous, f[t \ {Max(t)}])
            BY <1>1, <1>9, <2>2
        <3>2. QED
            BY <1>4, <1>5, <2>2, <3>1
    <2>3. QED
        BY <2>1, <2>2 DEF Follows
<1> HIDE DEF Folds
<1>11. PICK r : Traced(r, n, A, start, step) /\ r[n] = f[1..n]
    <2>1. LeadsTo(f, n, A, start, step)
        BY <1>1, <1>2, <1>10, FoldTraced
    <2>2. QED
        BY <2>1 DEF LeadsTo
<1>12. /\ r \in [0..n -> A] /\ r[0] = start
       /\ \A k \in 1..n : r[k] = step[<<r[k - 1], k>>]
    BY <1>11 DEF Traced
<1>13. ASSUME NEW k \in 1..n PROVE r[k] = Pass(fan, previous, r[k - 1])
    <2>1. k - 1 \in 0..n
        BY <1>1
    <2>2. r[k - 1] \in A
        BY <1>12, <2>1
    <2>3. QED
        BY <1>4, <1>12, <2>2
<1>14. Layered(fan, previous, start) = r[n]
    BY <1>3, <1>8, <1>11
<1>15. QED
    BY <1>12, <1>13, <1>14 DEF n, Passes

Plans == [nodes : UNION {[S -> Row] : S \in SUBSET Nat}, layer : Seq(Nat),
          summaries : UNION {[S -> Seq(Nat)] : S \in SUBSET Nat}]

LEMMA PlanTyped ==
    ASSUME NEW fan \in Nat \ {0, 1},
           NEW previous, NEW done, NEW tree, NEW layer, NEW summaries, NEW plan,
           plan = [nodes |-> tree, layer |-> layer, summaries |-> summaries],
           PlanInv(fan, previous, done, plan)
    PROVE  plan \in Plans
<1>1. Whole(tree, done) /\ LayerInv(tree, layer) /\ Summarised(previous, tree, summaries)
    BY DEF PlanInv
<1>2. DOMAIN tree \in SUBSET Nat /\ tree \in [DOMAIN tree -> Row]
    BY <1>1 DEF Whole, TreeType
<1>3. layer \in Seq(Nat)
    BY <1>1, <1>2, Wider DEF LayerInv
<1>4. summaries \in [DOMAIN summaries -> Seq(Nat)] /\ DOMAIN summaries \in SUBSET Nat
    <2>1. DOMAIN summaries \in SUBSET Nat
        BY <1>1, <1>2 DEF Summarised, Inner
    <2>2. ASSUME NEW m \in DOMAIN summaries
          PROVE  summaries[m] \in Seq(Nat)
        <3>1. PICK list : list = summaries[m]
            OBVIOUS
        <3>2. list \in Seq(DOMAIN tree)
            BY <1>1, <3>1 DEF Summarised, IsChildren
        <3>3. list \in Seq(Nat)
            BY <1>2, <3>2, Wider
        <3>4. QED
            BY <3>1, <3>3
    <2>3. summaries = [m \in DOMAIN summaries |-> summaries[m]]
        BY <1>1 DEF Summarised
    <2>4. QED
        BY <2>1, <2>2, <2>3
<1>5. tree \in UNION {[S -> Row] : S \in SUBSET Nat}
    BY <1>2
<1>6. summaries \in UNION {[S -> Seq(Nat)] : S \in SUBSET Nat}
    BY <1>4
<1>7. QED
    BY <1>3, <1>5, <1>6 DEF Plans

(* The plans on the way. *)
Kept(fan, previous, done) == {p \in Plans : PlanInv(fan, previous, done, p)}

(* What a pass does with such a plan.                                      *)
LEMMA PassKeeps ==
    ASSUME NEW fan \in Nat \ {0, 1},
           NEW previous, NEW done, TreeType(previous),
           \A m \in Inner(previous) : \E list : Family(previous, m, list),
           NEW p \in Kept(fan, previous, done)
    PROVE  /\ p.layer \in Seq(Nat) /\ Len(p.layer) \in Nat
           /\ Pass(fan, previous, p) \in Kept(fan, previous, done)
           /\ Len(p.layer) <= fan => Pass(fan, previous, p) = p
           /\ Len(p.layer) > fan =>
                /\ Len(Pass(fan, previous, p).layer) < Len(p.layer)
                /\ \E n, at : Made(fan, previous, p, Pass(fan, previous, p), n, at)
<1> DEFINE A == Kept(fan, previous, done)
<1>1. p \in Plans /\ PlanInv(fan, previous, done, p)
    BY DEF Kept
<1>2. p.layer \in Seq(Nat) /\ Len(p.layer) \in Nat
    <2>1. p.layer \in Seq(Nat)
        BY <1>1 DEF Plans
    <2>2. QED
        BY <2>1, ListFacts
<1>3. CASE Len(p.layer) <= fan
    BY <1>2, <1>3 DEF Pass
<1>4. CASE ~(Len(p.layer) <= fan)
    <2>1. Len(p.layer) > fan
        BY <1>2, <1>4
    <2>2. /\ PlanInv(fan, previous, done, Grouped(fan, previous, p))
          /\ Len(Grouped(fan, previous, p).layer) < Len(p.layer)
          /\ \E n, at : Made(fan, previous, p, Grouped(fan, previous, p), n, at)
        BY <1>1, <2>1, GroupedKeeps
    <2>3. Pass(fan, previous, p) = Grouped(fan, previous, p)
        BY <1>4 DEF Pass
    <2>4. PICK tree, layer, summaries :
            Grouped(fan, previous, p)
                = [nodes |-> tree, layer |-> layer, summaries |-> summaries]
        BY DEF Grouped
    <2>5. Grouped(fan, previous, p) \in Plans
        BY <2>2, <2>4, PlanTyped
    <2>6. Grouped(fan, previous, p) \in Kept(fan, previous, done)
        BY <2>2, <2>5 DEF Kept
    <2>7. QED
        BY <1>2, <1>4, <2>2, <2>3, <2>6
<1>5. QED
    BY <1>3, <1>4

LEMMA PassesExist ==
    ASSUME NEW fan \in Nat \ {0, 1},
           NEW previous, NEW done, NEW start \in Plans, TreeType(previous),
           \A m \in Inner(previous) : \E list : Family(previous, m, list),
           PlanInv(fan, previous, done, start)
    PROVE  \E r : Passes(fan, r, previous, start, Kept(fan, previous, done))
<1>1. start \in Kept(fan, previous, done)
    BY DEF Kept
<1>2. start.layer \in Seq(Nat)
    BY <1>1, PassKeeps
<1>3. \A p \in Kept(fan, previous, done) : Pass(fan, previous, p) \in Kept(fan, previous, done)
    BY PassKeeps
<1>4. QED
    BY <1>1, <1>2, <1>3, LayeredTraced

(* The passes keep what one pass keeps, and leave few enough at the top.   *)
LEMMA LayeredIs ==
    ASSUME NEW fan \in Nat \ {0, 1},
           NEW previous, NEW start \in Plans, NEW done, TreeType(previous),
           \A m \in Inner(previous) : \E list : Family(previous, m, list),
           PlanInv(fan, previous, done, start),
           NEW r, Passes(fan, r, previous, start, Kept(fan, previous, done))
    PROVE  /\ Layered(fan, previous, start) \in Kept(fan, previous, done)
           /\ Len(Layered(fan, previous, start).layer) <= fan
<1> DEFINE A == Kept(fan, previous, done)
<1>1. start \in A
    BY DEF Kept
<1>2. \A p \in A : Len(p.layer) \in Nat
    BY PassKeeps
<1>3. ASSUME NEW p \in A
      PROVE  /\ Len(p.layer) > fan => Len(Pass(fan, previous, p).layer) < Len(p.layer)
             /\ Len(p.layer) <= fan => Pass(fan, previous, p) = p
    BY PassKeeps
<1> HIDE DEF A
<1>4. /\ r \in [0..Len(start.layer) -> A] /\ r[0] = start
      /\ \A k \in 1..Len(start.layer) : r[k] = Pass(fan, previous, r[k - 1])
      /\ Layered(fan, previous, start) = r[Len(start.layer)]
    BY DEF Passes, A
<1>5. PICK N \in Nat : N = Len(start.layer)
    BY <1>1, <1>2
<1> DEFINE holds == {k \in Nat : k <= N =>
                        \/ Len(r[k].layer) <= fan
                        \/ Len(r[k].layer) <= N - k}
<1>6. 0 \in holds
    BY <1>4, <1>5
<1>7. ASSUME NEW k \in 1..N, k - 1 \in holds
      PROVE  k \in holds
    <2>1. k - 1 \in 0..N /\ k \in 0..N /\ k \in Nat
        OBVIOUS
    <2>2. PICK p \in A, q \in A : p = r[k - 1] /\ q = r[k] /\ q = Pass(fan, previous, p)
        BY <1>4, <1>5, <2>1
    <2>3. PICK m \in Nat, l \in Nat : m = Len(p.layer) /\ l = Len(q.layer)
        BY <1>2
    <2>4. (m > fan => l < m) /\ (m <= fan => l = m)
        BY <1>3, <2>2, <2>3
    <2>5. m <= fan \/ m <= N - (k - 1)
        BY <1>7, <2>1, <2>2, <2>3
    <2>6. l <= fan \/ l <= N - k
        BY <2>4, <2>5
    <2>7. QED
        BY <2>1, <2>2, <2>3, <2>6
<1> HIDE DEF holds
<1>8. N \in holds
    <2>1. holds \in SUBSET Nat
        BY DEF holds
    <2>2. 0..N \subseteq holds
        BY <1>6, <1>7, <2>1, UpTo
    <2>3. QED
        BY <2>2
<1>9. r[N] \in A
    BY <1>4, <1>5
<1>10. Len(r[N].layer) \in Nat
    BY <1>2, <1>9
<1>11. Len(r[N].layer) <= fan
    BY <1>8, <1>10 DEF holds
<1>12. QED
    BY <1>4, <1>5, <1>9, <1>11 DEF A

-----------------------------------------------------------------------------
(* The tree: the plan *)

TopsInv(fan, tree, list) ==
    /\ IsChildren(tree, NoNode, list) /\ Touch(tree, list) /\ Len(list) <= fan

(* The last layer is numbered: the tops, and all else as it was.           *)
LEMMA NumberedTops ==
    ASSUME NEW fan \in Nat \ {0, 1},
           NEW tree, NEW layer, NEW done, Whole(tree, done), LayerInv(tree, layer),
           Len(layer) <= fan, NEW next, next = Number(tree, layer, NoNode)
    PROVE  /\ Whole(next, done) /\ TopsInv(fan, next, layer) /\ Inner(next) = Inner(tree)
           /\ \A m \in DOMAIN tree : \A list :
                IsChildren(tree, m, list) => IsChildren(next, m, list)
           /\ \A c \in DOMAIN tree : /\ next[c].first = tree[c].first
                                     /\ next[c].last = tree[c].last /\ next[c].leaf = tree[c].leaf
           /\ DOMAIN next = DOMAIN tree
<1>1. /\ TreeType(tree) /\ LeavesInv(tree, done)
      /\ \A m \in Inner(tree) : \E list : Family(tree, m, list)
      /\ \A c \in DOMAIN tree : tree[c].parent \in Inner(tree) \cup {NoNode}
    BY DEF Whole
<1>2. /\ layer \in Seq(DOMAIN tree) /\ ToSet(layer) = ChildSet(tree, NoNode)
      /\ EachOnce(layer) /\ Touch(tree, layer)
    BY DEF LayerInv
<1>3. PICK L \in Nat : L = Len(layer)
    BY <1>2, ListFacts
<1>4. /\ DOMAIN layer = 1..L /\ \A p \in 1..L : layer[p] \in DOMAIN tree
      /\ ToSet(layer) = {layer[p] : p \in 1..L}
    BY <1>2, <1>3, ListFacts
<1>5. \A p, q \in 1..L : layer[p] = layer[q] => p = q
    BY <1>2, <1>3 DEF EachOnce
<1>6. \A c \in DOMAIN tree : tree[c].parent = NoNode <=> c \in ToSet(layer)
    BY <1>2 DEF ChildSet
<1>7. DOMAIN next = DOMAIN tree /\ next = [c \in DOMAIN tree |-> next[c]]
    BY DEF Number
<1>8. \A c \in DOMAIN tree : tree[c].parent # NoNode => next[c] = tree[c]
    BY <1>6 DEF Number
<1>9. ASSUME NEW p \in 1..L
      PROVE  /\ next[layer[p]] \in Row
             /\ next[layer[p]].parent = NoNode /\ next[layer[p]].order = p - 1
             /\ next[layer[p]].first = tree[layer[p]].first
             /\ next[layer[p]].last = tree[layer[p]].last
             /\ next[layer[p]].leaf = tree[layer[p]].leaf
    <2>1. PICK r \in Row, c \in DOMAIN tree : c = layer[p] /\ r = tree[c]
        BY <1>1, <1>4 DEF TreeType
    <2>2. PlaceIn(layer, c) = p
        BY <1>4, <1>5, <2>1 DEF PlaceIn
    <2>3. next[c] = Numbered(r, layer, c, NoNode)
        BY <1>4, <2>1 DEF Number
    <2>4. PICK order \in Nat : order = p - 1
        OBVIOUS
    <2>5. next[c] = [r EXCEPT !.parent = NoNode, !.order = order]
        BY <2>2, <2>3, <2>4 DEF Numbered
    <2>6. PICK new : new = next[c]
        OBVIOUS
    <2>7. /\ new \in Row /\ new.parent = NoNode /\ new.order = order
          /\ new.first = r.first /\ new.last = r.last /\ new.leaf = r.leaf
        BY <2>5, <2>6 DEF Row
    <2>8. QED
        BY <2>1, <2>4, <2>6, <2>7
<1>10. \A c \in DOMAIN tree : tree[c].parent = NoNode => \E p \in 1..L : c = layer[p]
    BY <1>4, <1>6
<1>11. \A c \in DOMAIN tree : /\ next[c] \in Row /\ next[c].parent = tree[c].parent
                              /\ next[c].first = tree[c].first
                              /\ next[c].last = tree[c].last /\ next[c].leaf = tree[c].leaf
    <2>1. ASSUME NEW c \in DOMAIN tree
          PROVE  /\ next[c] \in Row /\ next[c].parent = tree[c].parent
                 /\ next[c].first = tree[c].first
                 /\ next[c].last = tree[c].last /\ next[c].leaf = tree[c].leaf
        <3>1. CASE tree[c].parent = NoNode
            BY <1>9, <1>10, <3>1
        <3>2. CASE tree[c].parent # NoNode
            BY <1>1, <1>8, <3>2 DEF TreeType
        <3>3. QED
            BY <3>1, <3>2
    <2>2. QED
        BY <2>1
<1>12. TreeType(next)
    BY <1>1, <1>7, <1>11 DEF TreeType
<1> DEFINE at == [i \in 1..(L + 1) |-> i - 1]
<1>13. \A i \in 1..L : ~Joins(at, i) /\ at[i] + 1 = i /\ at[i + 1] = i
    <2>1. ASSUME NEW i \in 1..L
          PROVE  ~Joins(at, i) /\ at[i] + 1 = i /\ at[i + 1] = i
        <3>1. at[i] = i - 1 /\ at[i + 1] = i
            OBVIOUS
        <3>2. QED
            BY <3>1 DEF Joins
    <2>2. QED
        BY <2>1
<1> HIDE DEF at
<1>14. Kinds(tree, layer, L, at, layer, next)
    <2>1. \A c \in DOMAIN tree : /\ c \in DOMAIN next /\ next[c].first = tree[c].first
                                 /\ next[c].last = tree[c].last /\ next[c].leaf = tree[c].leaf
        BY <1>7, <1>11
    <2>2. \A i \in 1..L : layer[i] \in DOMAIN next /\ next[layer[i]].parent = NoNode
        BY <1>4, <1>7, <1>9
    <2>3. \A i \in 1..L : next[layer[i]].first = tree[layer[at[i] + 1]].first
                          /\ next[layer[i]].last = tree[layer[at[i + 1]]].last
        BY <1>9, <1>13
    <2>4. \A c \in DOMAIN next :
          \/ c \in DOMAIN tree /\ tree[c].parent # NoNode /\ next[c] = tree[c]
          \/ next[c].parent = NoNode /\ \E i \in 1..L : c = layer[i]
        BY <1>7, <1>8, <1>10, <1>11
    <2>5. QED
        BY <1>8, <1>13, <2>1, <2>2, <2>3, <2>4 DEF Kinds
<1>15. \A m \in DOMAIN tree : \A list :
            IsChildren(tree, m, list) => IsChildren(next, m, list)
    BY <1>1, <1>14, ChildrenStay
<1>16. Inner(next) = Inner(tree) /\ Leaves(next) = Leaves(tree)
    BY <1>7, <1>11 DEF Inner, Leaves
<1>17. LeavesInv(next, done)
    <2>1. \A m \in Leaves(tree) : m \in DOMAIN tree
        BY DEF Leaves
    <2>2. {next[m].first : m \in Leaves(tree)} = {tree[m].first : m \in Leaves(tree)}
        BY <1>11, <2>1
    <2>3. QED
        BY <1>1, <1>11, <1>16, <2>1, <2>2 DEF LeavesInv
<1>18. ASSUME NEW m \in Inner(next)
       PROVE  \E list : Family(next, m, list)
    <2>1. PICK list : Family(tree, m, list)
        BY <1>1, <1>16
    <2>2. m \in DOMAIN tree /\ list \in Seq(DOMAIN tree)
        BY <1>16, <2>1 DEF Family, IsChildren, Inner
    <2>3. IsChildren(next, m, list)
        BY <1>15, <2>1, <2>2 DEF Family
    <2>4. Covers(next, m, list)
        BY <1>14, <2>1, <2>2, CoversStay DEF Family
    <2>5. QED
        BY <2>3, <2>4 DEF Family
<1>19. \A c \in DOMAIN next : next[c].parent \in Inner(next) \cup {NoNode}
    BY <1>1, <1>7, <1>11, <1>16
<1>20. Whole(next, done)
    BY <1>12, <1>17, <1>18, <1>19 DEF Whole
<1>21. TopsInv(fan, next, layer)
    <2>1. ChildSet(next, NoNode) = ChildSet(tree, NoNode)
        BY <1>7, <1>11 DEF ChildSet
    <2>2. \A p \in 1..L : next[layer[p]].order = p - 1
        BY <1>9
    <2>3. IsChildren(next, NoNode, layer)
        BY <1>2, <1>3, <1>7, <2>1, <2>2 DEF IsChildren
    <2>4. \A p \in 1..(L - 1) : p \in 1..L /\ p + 1 \in 1..L
        OBVIOUS
    <2>5. \A p \in 1..(L - 1) : next[layer[p]].last + 1 = next[layer[p + 1]].first
        BY <1>2, <1>3, <1>9, <2>4 DEF Touch
    <2>6. QED
        BY <1>3, <2>3, <2>5 DEF TopsInv, Touch
<1>22. QED
    BY <1>7, <1>11, <1>15, <1>16, <1>20, <1>21

(* Leaves for done chunks, with the rows that the published tree has.      *)
FreshLeaves(leaves, previous, done) ==
    /\ TreeType(leaves) /\ LeavesInv(leaves, done)
    /\ \A c \in DOMAIN leaves : leaves[c].leaf
    /\ \A c \in DOMAIN leaves \cap DOMAIN previous :
            /\ previous[c].leaf
            /\ leaves[c].first = previous[c].first /\ leaves[c].last = previous[c].last

(* The first layer: the leaf of each chunk, in order. *)
LeafOrder(tree, done, layer) ==
    /\ Len(layer) = done
    /\ \A i \in 1..done : layer[i] \in Leaves(tree) /\ tree[layer[i]].first = i

LEMMA StartInv ==
    ASSUME NEW fan \in Nat \ {0, 1},
           NEW leaves, NEW previous, NEW done \in Nat, FreshLeaves(leaves, previous, done)
    PROVE  /\ PlanInv(fan, previous, done, Start(leaves)) /\ Start(leaves) \in Plans
           /\ LeafOrder(leaves, done, Start(leaves).layer)
           /\ LeafOrder(Start(leaves).nodes, done, Start(leaves).layer)
           /\ DOMAIN Start(leaves).summaries = {}
<1>1. /\ TreeType(leaves) /\ LeavesInv(leaves, done)
      /\ \A c \in DOMAIN leaves : leaves[c].leaf
      /\ \A c \in DOMAIN leaves \cap DOMAIN previous :
            /\ previous[c].leaf
            /\ leaves[c].first = previous[c].first /\ leaves[c].last = previous[c].last
    BY DEF FreshLeaves
<1> DEFINE tree == [c \in DOMAIN leaves |-> [leaves[c] EXCEPT !.parent = NoNode]]
           key == [c \in DOMAIN leaves |-> leaves[c].first]
           list == [i \in 1..done |-> CHOOSE c \in DOMAIN leaves : leaves[c].first = i]
<1>2. DOMAIN tree = DOMAIN leaves /\ tree = [c \in DOMAIN tree |-> tree[c]]
    OBVIOUS
<1>3. ASSUME NEW c \in DOMAIN leaves
      PROVE  /\ tree[c] \in Row /\ tree[c].parent = NoNode /\ tree[c].leaf
             /\ tree[c].leaf = leaves[c].leaf
             /\ tree[c].first = leaves[c].first /\ tree[c].last = leaves[c].last
             /\ leaves[c].first \in Nat
    <2>1. PICK r \in Row : r = leaves[c]
        BY <1>1 DEF TreeType
    <2>2. tree[c] = [r EXCEPT !.parent = NoNode]
        BY <2>1
    <2>3. r.leaf
        BY <1>1, <2>1
    <2>4. PICK new : new = tree[c]
        OBVIOUS
    <2>5. /\ new \in Row /\ new.parent = NoNode /\ new.leaf = r.leaf
          /\ new.first = r.first /\ new.last = r.last /\ r.first \in Nat
        BY <2>2, <2>4 DEF Row
    <2>6. QED
        BY <2>1, <2>3, <2>4, <2>5
<1>4. Leaves(leaves) = DOMAIN leaves
    BY <1>1 DEF Leaves
<1>5. /\ {leaves[c].first : c \in DOMAIN leaves} = 1..done
      /\ \A b, c \in DOMAIN leaves : leaves[b].first = leaves[c].first => b = c
      /\ \A c \in DOMAIN leaves : leaves[c].last = leaves[c].first
    BY <1>1, <1>4 DEF LeavesInv
<1>6. \A i \in 1..done : list[i] \in DOMAIN leaves /\ leaves[list[i]].first = i
    <2>1. ASSUME NEW i \in 1..done
          PROVE  list[i] \in DOMAIN leaves /\ leaves[list[i]].first = i
        <3>1. \E c \in DOMAIN leaves : leaves[c].first = i
            BY <1>5
        <3>2. QED
            BY <3>1
    <2>2. QED
        BY <2>1
<1>7. DOMAIN list = 1..done
    OBVIOUS
<1>8. list \in Seq(DOMAIN leaves) /\ Len(list) = done
    <2>1. list \in [1..done -> DOMAIN leaves]
        BY <1>6
    <2>2. QED
        BY <2>1, IsList
<1> HIDE DEF list
<1>9. ToSet(list) = DOMAIN leaves
    <2>1. ToSet(list) = {list[i] : i \in 1..done}
        BY <1>8, ListFacts
    <2>2. ASSUME NEW c \in DOMAIN leaves
          PROVE  \E i \in 1..done : c = list[i]
        <3>1. leaves[c].first \in 1..done
            BY <1>5
        <3>2. QED
            BY <1>5, <1>6, <3>1
    <2>3. QED
        BY <1>6, <2>1, <2>2
<1>10. Rising(key, list)
    <2>1. \A i \in 1..done : key[list[i]] = i
        BY <1>6
    <2> HIDE DEF key
    <2>2. QED
        BY <1>8, <2>1 DEF Rising
<1>11. SortedBy(key, DOMAIN leaves) = list
    <2> HIDE DEF key
    <2>1. QED
        BY <1>8, <1>9, <1>10, SortedIs
<1>12. Start(leaves) = [nodes |-> tree, layer |-> list, summaries |-> <<>>]
    BY <1>11 DEF Start
<1> HIDE DEF tree, key
<1>13. TreeType(tree)
    BY <1>1, <1>2, <1>3 DEF TreeType
<1>14. Inner(tree) = {} /\ Leaves(tree) = DOMAIN leaves
    BY <1>2, <1>3 DEF Inner, Leaves
<1>15. LeavesInv(tree, done)
    <2>1. {tree[c].first : c \in DOMAIN leaves} = {leaves[c].first : c \in DOMAIN leaves}
        BY <1>3
    <2>2. QED
        BY <1>3, <1>5, <1>14, <2>1 DEF LeavesInv
<1>16. Whole(tree, done)
    BY <1>2, <1>3, <1>13, <1>14, <1>15 DEF Whole
<1>17. LayerInv(tree, list)
    <2>1. ChildSet(tree, NoNode) = DOMAIN leaves
        BY <1>2, <1>3 DEF ChildSet
    <2>2. EachOnce(list)
        BY <1>6, <1>8 DEF EachOnce
    <2>3. Touch(tree, list)
        <3>1. \A i \in 1..(done - 1) : i \in 1..done /\ i + 1 \in 1..done
            OBVIOUS
        <3>2. \A i \in 1..done : tree[list[i]].first = i /\ tree[list[i]].last = i
            BY <1>3, <1>5, <1>6
        <3>3. QED
            BY <1>8, <3>1, <3>2 DEF Touch
    <2>4. QED
        BY <1>2, <1>8, <1>9, <2>1, <2>2, <2>3 DEF LayerInv
<1>18. Agrees(previous, tree)
    BY <1>1, <1>2, <1>3 DEF Agrees
<1>19. Summarised(previous, tree, <<>>)
    <2>1. DOMAIN <<>> = {} /\ <<>> = [m \in DOMAIN <<>> |-> <<>>[m]]
        OBVIOUS
    <2>2. QED
        BY <1>14, <2>1 DEF Summarised
<1>20. PlanInv(fan, previous, done, Start(leaves))
    BY <1>12, <1>14, <1>16, <1>17, <1>18, <1>19 DEF PlanInv, Narrow
<1>21. LeafOrder(leaves, done, list)
    BY <1>4, <1>6, <1>8 DEF LeafOrder
<1>22. LeafOrder(tree, done, list)
    BY <1>3, <1>6, <1>8, <1>14 DEF LeafOrder
<1>23. DOMAIN <<>> = {}
    OBVIOUS
<1>24. Start(leaves) \in Plans
    BY <1>12, <1>20, PlanTyped
<1>25. PICK start : start = Start(leaves)
    OBVIOUS
<1>26. start.nodes = tree /\ start.layer = list /\ start.summaries = <<>>
    BY <1>12, <1>25
<1>27. QED
    BY <1>20, <1>21, <1>22, <1>23, <1>24, <1>25, <1>26

(* WithNew gives each chunk its leaf.                                      *)
LEMMA WithNewIs ==
    ASSUME NEW previous, NEW was \in Nat, NEW count \in Nat, Whole(previous, was)
    PROVE  /\ FreshLeaves(WithNew(previous, was, count), previous, was + count)
           /\ \A c \in Leaves(previous) :
                    /\ c \in DOMAIN WithNew(previous, was, count)
                    /\ WithNew(previous, was, count)[c].first = previous[c].first
<1> DEFINE top == Highest(DOMAIN previous)
           new == (top + 1)..(top + count)
           leaves == WithNew(previous, was, count)
           old == Leaves(previous)
<1>1. TreeType(previous) /\ LeavesInv(previous, was)
    BY DEF Whole
<1>2. top \in Nat /\ \A c \in DOMAIN previous : c <= top
    BY <1>1, HighestIs DEF TreeType
<1>3. leaves = [n \in old \cup new |->
                    IF n \in DOMAIN previous THEN previous[n] ELSE Leaf(was + n - top)]
    BY DEF WithNew
<1> HIDE DEF top, leaves
<1>4. /\ DOMAIN previous \subseteq Nat /\ IsFiniteSet(DOMAIN previous)
      /\ \A c \in DOMAIN previous : previous[c] \in Row
      /\ old \subseteq DOMAIN previous /\ \A c \in old : previous[c].leaf
    BY <1>1 DEF TreeType, Leaves
<1>5. \A c \in new : c \in Nat /\ c \notin DOMAIN previous /\ was + c - top \in (was + 1)..(was + count)
    <2>1. ASSUME NEW c \in new
          PROVE  c \in Nat /\ c \notin DOMAIN previous
                 /\ was + c - top \in (was + 1)..(was + count)
        <3>1. c \in Int /\ top + 1 <= c /\ c <= top + count
            BY <1>2
        <3>2. c \notin DOMAIN previous
            BY <1>2, <1>4, <3>1
        <3>3. QED
            BY <1>2, <3>1, <3>2
    <2>2. QED
        BY <2>1
<1>6. DOMAIN leaves = old \cup new
    BY <1>3
<1>7. \A c \in old : leaves[c] = previous[c]
    BY <1>3, <1>4, <1>6
<1>8. \A c \in new : leaves[c] = Leaf(was + c - top)
    BY <1>3, <1>5, <1>6
<1>9. \A c \in new : /\ leaves[c] \in Row /\ leaves[c].leaf
                     /\ leaves[c].first = was + c - top /\ leaves[c].last = was + c - top
    <2>1. ASSUME NEW c \in new
          PROVE  /\ leaves[c] \in Row /\ leaves[c].leaf
                 /\ leaves[c].first = was + c - top /\ leaves[c].last = was + c - top
        <3>1. PICK f \in Nat : f = was + c - top
            BY <1>5
        <3>2. leaves[c] = Leaf(f)
            BY <1>8, <3>1
        <3>3. QED
            BY <3>1, <3>2 DEF Leaf, Row
    <2>2. QED
        BY <2>1
<1>10. TreeType(leaves)
    <2>1. \A c \in DOMAIN leaves : leaves[c] \in Row /\ c \in Nat
        BY <1>4, <1>5, <1>6, <1>7, <1>9
    <2>2. IsFiniteSet(old) /\ IsFiniteSet(new)
        BY <1>2, <1>4, FS_Subset, FS_Interval
    <2>3. IsFiniteSet(DOMAIN leaves)
        BY <1>6, <2>2, FS_Union
    <2>4. leaves = [c \in DOMAIN leaves |-> leaves[c]]
        BY <1>3
    <2>5. QED
        BY <2>1, <2>3, <2>4 DEF TreeType
<1>11. \A c \in DOMAIN leaves : leaves[c].leaf
    BY <1>4, <1>6, <1>7, <1>9
<1>12. /\ {previous[c].first : c \in old} = 1..was
       /\ \A b, c \in old : previous[b].first = previous[c].first => b = c
       /\ \A c \in old : previous[c].last = previous[c].first
    BY <1>1 DEF LeavesInv
<1> HIDE DEF old
<1>13. /\ \A c \in old : leaves[c].first \in 1..was
       /\ \A c \in new : leaves[c].first \in (was + 1)..(was + count)
    <2>1. \A c \in old : leaves[c].first \in 1..was
        BY <1>7, <1>12
    <2>2. \A c \in new : leaves[c].first \in (was + 1)..(was + count)
        BY <1>5, <1>9
    <2>3. QED
        BY <2>1, <2>2
<1>14. \A f \in 1..(was + count) : \E c \in DOMAIN leaves : leaves[c].first = f
    <2>1. ASSUME NEW f \in 1..was
          PROVE  \E c \in old : leaves[c].first = f
        BY <1>7, <1>12
    <2>2. ASSUME NEW f \in (was + 1)..(was + count)
          PROVE  \E c \in new : leaves[c].first = f
        <3>1. f - was + top \in new /\ was + (f - was + top) - top = f
            BY <1>2
        <3>2. QED
            BY <1>9, <3>1
    <2>3. \A f \in 1..(was + count) : f \in 1..was \/ f \in (was + 1)..(was + count)
        OBVIOUS
    <2>4. QED
        BY <1>6, <2>1, <2>2, <2>3
<1>15. \A b, c \in new : leaves[b].first = leaves[c].first => b = c
    <2>1. ASSUME NEW b \in new, NEW c \in new, leaves[b].first = leaves[c].first
          PROVE  b = c
        <3>1. was + b - top = was + c - top
            BY <1>9, <2>1
        <3>2. b \in Int /\ c \in Int
            BY <1>5
        <3>3. QED
            BY <1>2, <3>1, <3>2
    <2>2. QED
        BY <2>1
<1>16. \A b \in old : \A c \in new : leaves[b].first # leaves[c].first
    <2>1. \A i \in 1..was : \A j \in (was + 1)..(was + count) : i # j
        OBVIOUS
    <2> HIDE DEF new
    <2>2. QED
        BY <1>13, <2>1
<1>17. \A b, c \in DOMAIN leaves : leaves[b].first = leaves[c].first => b = c
    <2> HIDE DEF new
    <2>1. QED
        BY <1>6, <1>7, <1>12, <1>15, <1>16
<1>18. \A c \in DOMAIN leaves : leaves[c].last = leaves[c].first
                                /\ leaves[c].first \in 1..(was + count)
    <2>1. ASSUME NEW c \in old
          PROVE  leaves[c].last = leaves[c].first /\ leaves[c].first \in 1..(was + count)
        BY <1>7, <1>12, <1>13
    <2>2. ASSUME NEW c \in new
          PROVE  leaves[c].last = leaves[c].first /\ leaves[c].first \in 1..(was + count)
        BY <1>9, <1>13
    <2> HIDE DEF new
    <2>3. QED
        BY <1>6, <2>1, <2>2
<1>19. LeavesInv(leaves, was + count)
    <2>1. Leaves(leaves) = DOMAIN leaves
        BY <1>11 DEF Leaves
    <2>2. {leaves[c].first : c \in DOMAIN leaves} = 1..(was + count)
        BY <1>14, <1>18
    <2>3. QED
        BY <1>17, <1>18, <2>1, <2>2 DEF LeavesInv
<1>20. \A c \in DOMAIN leaves \cap DOMAIN previous : c \in old
    BY <1>5, <1>6
<1>21. FreshLeaves(leaves, previous, was + count)
    BY <1>4, <1>7, <1>10, <1>11, <1>19, <1>20 DEF FreshLeaves
<1>22. \A c \in old : c \in DOMAIN leaves /\ leaves[c].first = previous[c].first
    BY <1>6, <1>7
<1>23. QED
    BY <1>21, <1>22 DEF leaves, old

(* What a call plans: a whole tree, in which the parents of the published  *)
(* tree have the children they had, and all others are summarised.         *)
Proposed(fan, previous, done, p) ==
    /\ Whole(p.nodes, done)
    /\ Narrow(fan, p.nodes)
    /\ \E list : TopsInv(fan, p.nodes, list)
    /\ \A m \in Inner(p.nodes) : m \in DOMAIN previous =>
            /\ m \in Inner(previous)
            /\ \A list : IsChildren(previous, m, list) => IsChildren(p.nodes, m, list)
    /\ \A m \in Inner(p.nodes) : m \in DOMAIN p.summaries \/ m \in DOMAIN previous
    /\ \A m \in DOMAIN p.summaries : m \in Inner(p.nodes) /\ IsChildren(p.nodes, m, p.summaries[m])

LEMMA ProposalIs ==
    ASSUME NEW fan \in Nat \ {0, 1},
           NEW previous, NEW was \in Nat, NEW count \in Nat, Whole(previous, was)
    PROVE  Proposed(fan, previous, was + count, Proposal(fan, previous, was, count))
<1> DEFINE leaves == WithNew(previous, was, count)
           start == Start(leaves)
           plan == Layered(fan, previous, start)
           p == Proposal(fan, previous, was, count)
<1>1. PICK done \in Nat : done = was + count
    OBVIOUS
<1>2. FreshLeaves(leaves, previous, done)
    BY <1>1, WithNewIs
<1>3. PlanInv(fan, previous, done, start) /\ start \in Plans
    BY <1>2, StartInv
<1>4. TreeType(previous) /\ \A m \in Inner(previous) : \E list : Family(previous, m, list)
    BY DEF Whole
<1>5. p = [plan EXCEPT !.nodes = Number(plan.nodes, plan.layer, NoNode)]
    BY DEF Proposal, Plan
<1> HIDE DEF start
<1>6. /\ plan \in Plans
      /\ PlanInv(fan, previous, done, plan)
      /\ Len(plan.layer) <= fan
    <2>1. PICK r : Passes(fan, r, previous, start, Kept(fan, previous, done))
        BY <1>3, <1>4, PassesExist
    <2>2. QED
        BY <1>3, <1>4, <2>1, LayeredIs DEF Kept, plan
<1> HIDE DEF plan
<1>7. PICK tree, layer, summaries, next :
            /\ tree = plan.nodes /\ layer = plan.layer /\ summaries = plan.summaries
            /\ next = Number(tree, layer, NoNode)
    OBVIOUS
<1>8. p.nodes = next /\ p.summaries = summaries
    BY <1>5, <1>6, <1>7 DEF Plans
<1> HIDE DEF p
<1>9. /\ Whole(tree, done) /\ LayerInv(tree, layer)
      /\ Agrees(previous, tree) /\ Summarised(previous, tree, summaries)
      /\ Narrow(fan, tree)
    BY <1>6, <1>7 DEF PlanInv
<1>10. /\ Whole(next, done) /\ TopsInv(fan, next, layer) /\ Inner(next) = Inner(tree)
       /\ \A m \in DOMAIN tree : \A list :
                IsChildren(tree, m, list) => IsChildren(next, m, list)
    BY <1>6, <1>7, <1>9, NumberedTops
<1>11. ASSUME NEW m \in Inner(tree), m \in DOMAIN previous
       PROVE  /\ m \in Inner(previous)
              /\ \A list : IsChildren(previous, m, list) => IsChildren(next, m, list)
    <2>1. m \in DOMAIN tree /\ ~tree[m].leaf
        BY DEF Inner
    <2>2. ~previous[m].leaf /\ IsChildren(tree, m, Children(previous, m))
        BY Zenon, <1>9, <1>11, <2>1 DEF Agrees
    <2>3. m \in Inner(previous)
        BY <1>11, <2>2 DEF Inner
    <2>4. IsChildren(next, m, Children(previous, m))
        BY <1>10, <2>1, <2>2
    <2>5. QED
        BY <2>3, <2>4, ChildrenIs
<1>12. ASSUME NEW m \in Inner(tree)
       PROVE  m \in DOMAIN summaries \/ m \in DOMAIN previous
    BY Zenon, <1>9 DEF Summarised
<1>13. ASSUME NEW m \in DOMAIN summaries
       PROVE  m \in Inner(tree) /\ IsChildren(next, m, summaries[m])
    <2>1. m \in Inner(tree) /\ IsChildren(tree, m, summaries[m])
        BY Zenon, <1>9 DEF Summarised
    <2>2. QED
        BY <1>10, <2>1 DEF Inner
<1>14. Narrow(fan, next)
    <2>1. ASSUME NEW m \in Inner(tree)
          PROVE  \E list : IsChildren(next, m, list) /\ Len(list) <= fan
        <3>1. PICK list : IsChildren(tree, m, list) /\ Len(list) <= fan
            BY <1>9 DEF Narrow
        <3>2. QED
            BY <1>10, <3>1 DEF Inner
    <2>2. QED
        BY <1>10, <2>1 DEF Narrow
<1>15. QED
    BY <1>1, <1>8, <1>10, <1>11, <1>12, <1>13, <1>14 DEF Proposed, p

-----------------------------------------------------------------------------
(* The tree: its levels, and what one more leaf adds to them *)

(* A layer and one with at most one node more, which differ only in the    *)
(* last place.                                                             *)
Near(a, b) ==
    /\ Len(a) \in Nat /\ Len(b) \in Nat
    /\ Len(a) <= Len(b) /\ Len(b) <= Len(a) + 1
    /\ \A p \in 1..(Len(b) - 1) : b[p] = a[p]

(* All groups but the last one are cut alike, and full.                    *)
LEMMA SameCuts ==
    ASSUME NEW fan \in Nat \ {0, 1},
           NEW a, NEW b, NEW n, NEW m, NEW at, NEW bt,
           Exact(fan, a, n, at), Exact(fan, b, m, bt), Near(a, b)
    PROVE  /\ n <= m /\ m <= n + 1
           /\ \A i \in 1..(m - 1) :
                /\ i \in 1..n /\ at[i] = bt[i] /\ at[i + 1] = bt[i + 1]
                /\ bt[i] \in Nat /\ bt[i + 1] = bt[i] + fan
                /\ bt[i + 1] <= Len(b) - 1 /\ bt[i + 1] <= Len(a)
<1> DEFINE M == fan
<1>1. PICK K \in Nat, L \in Nat : K = Len(a) /\ L = Len(b)
    BY DEF Near
<1>2. K <= L /\ L <= K + 1
    BY <1>1 DEF Near
<1>3. /\ n \in Nat /\ \A i \in 1..n : at[i] = (i - 1) * M
      /\ at[n + 1] = K /\ K <= n * M /\ (n > 0 => (n - 1) * M < K)
    BY <1>1 DEF Exact
<1>4. /\ m \in Nat /\ \A i \in 1..m : bt[i] = (i - 1) * M
      /\ bt[m + 1] = L /\ L <= m * M /\ (m > 0 => (m - 1) * M < L)
    BY <1>1 DEF Exact
<1>5. M \in Nat
    OBVIOUS
<1> HIDE DEF M
<1>6. ASSUME NEW i \in 1..(m - 1)
      PROVE  /\ i \in 1..n /\ at[i] = bt[i] /\ at[i + 1] = bt[i + 1]
             /\ bt[i] \in Nat /\ bt[i + 1] = bt[i] + M
             /\ bt[i + 1] <= L - 1 /\ bt[i + 1] <= K
    <2>1. /\ i \in Nat /\ i \in 1..m /\ i + 1 \in 1..m /\ i <= m - 1 /\ m - 1 \in Nat
          /\ (i + 1) - 1 = i /\ i - 1 \in Nat /\ m > 0
        BY <1>4
    <2>2. PICK j \in Nat, k \in Nat, e \in Nat : j = (i - 1) * M /\ k = i * M /\ e = (m - 1) * M
        <3>1. (i - 1) * M \in Nat /\ i * M \in Nat /\ (m - 1) * M \in Nat
            BY <1>5, <2>1
        <3>2. QED
            BY <3>1
    <2>3. k = j + M
        BY <1>5, <2>1, <2>2
    <2>4. k <= e
        BY <1>5, <2>1, <2>2, TimesRises
    <2>5. e < L
        BY <1>4, <2>1, <2>2
    <2>6. k <= K /\ k <= L - 1
        BY <1>2, <2>4, <2>5
    <2>7. i <= n
        <3>1. SUFFICES ASSUME n + 1 <= i PROVE FALSE
            BY <1>3, <2>1
        <3>2. PICK f \in Nat, g \in Nat : f = n * M /\ g = (n + 1) * M
            <4>1. n * M \in Nat /\ (n + 1) * M \in Nat
                BY <1>3, <1>5
            <4>2. QED
                BY <4>1
        <3>3. g <= k
            BY <1>3, <1>5, <2>1, <2>2, <3>1, <3>2, TimesRises
        <3>4. g = f + M
            BY <1>3, <1>5, <3>2
        <3>5. M > 0
            BY DEF M
        <3>6. K <= f
            BY <1>3, <3>2
        <3>7. QED
            BY <1>5, <2>6, <3>3, <3>4, <3>5, <3>6
    <2>8. i \in 1..n
        BY <1>3, <2>1, <2>7
    <2>9. at[i] = j /\ bt[i] = j /\ bt[i + 1] = k
        <3>1. at[i] = (i - 1) * M
            BY <1>3, <2>8
        <3>2. bt[i] = (i - 1) * M
            BY <1>4, <2>1
        <3>3. bt[i + 1] = ((i + 1) - 1) * M
            BY <1>4, <2>1
        <3>4. QED
            BY <2>1, <2>2, <3>1, <3>2, <3>3
    <2>10. at[i + 1] = k
        <3>1. CASE i + 1 \in 1..n
            <4>1. at[i + 1] = ((i + 1) - 1) * M
                BY <1>3, <3>1
            <4>2. QED
                BY <2>1, <2>2, <4>1
        <3>2. CASE i = n
            BY <1>3, <2>2, <2>6, <3>2
        <3>3. QED
            BY <1>3, <2>8, <3>1, <3>2
    <2>11. QED
        BY <2>2, <2>3, <2>6, <2>8, <2>9, <2>10
<1>7. m <= n + 1
    <2>1. SUFFICES ASSUME n + 2 <= m PROVE FALSE
        BY <1>3, <1>4
    <2>2. m - 1 \in 1..(m - 1) /\ ~(m - 1 \in 1..n)
        BY <1>3, <1>4, <2>1
    <2>3. QED
        BY <1>6, <2>2
<1>8. n <= m
    <2>1. SUFFICES ASSUME m + 1 <= n PROVE FALSE
        BY <1>3, <1>4
    <2>2. m <= n - 1 /\ n - 1 \in Nat /\ n > 0
        BY <1>3, <1>4, <2>1
    <2>3. PICK f \in Nat, g \in Nat : f = m * M /\ g = (n - 1) * M
        <3>1. m * M \in Nat /\ (n - 1) * M \in Nat
            BY <1>4, <1>5, <2>2
        <3>2. QED
            BY <3>1
    <2>4. f <= g
        BY <1>4, <1>5, <2>2, <2>3, TimesRises
    <2>5. g < K /\ L <= f
        BY <1>3, <1>4, <2>2, <2>3
    <2>6. QED
        BY <1>2, <2>4, <2>5
<1>9. QED
    BY <1>1, <1>6, <1>7, <1>8 DEF M

(* A layer one node longer than the fan-out is cut in a full group and    *)
(* one of a single node.                                                   *)
LEMMA OneOver ==
    ASSUME NEW fan \in Nat \ {0, 1},
           NEW b, NEW m, NEW bt, Exact(fan, b, m, bt), Len(b) = fan + 1
    PROVE  m = 2 /\ Joins(bt, 1) /\ ~Joins(bt, 2)
<1> DEFINE M == fan
<1>1. M \in Nat /\ M >= 2
    OBVIOUS
<1>2. /\ m \in Nat /\ \A i \in 1..m : bt[i] = (i - 1) * M
      /\ bt[m + 1] = M + 1 /\ M + 1 <= m * M /\ (m > 0 => (m - 1) * M < M + 1)
    BY DEF Exact
<1> HIDE DEF M
<1>3. m >= 2
    <2>1. 0 * M = 0 /\ 1 * M = M
        BY <1>1
    <2>2. m # 0 /\ m # 1
        BY <1>1, <1>2, <2>1
    <2>3. QED
        BY <1>2, <2>2
<1>4. m <= 2
    <2>1. SUFFICES ASSUME 2 <= m - 1 PROVE FALSE
        BY <1>2
    <2>2. m - 1 \in Nat /\ m > 0
        BY <1>2, <2>1
    <2>3. 2 * M <= (m - 1) * M
        BY <1>1, <2>1, <2>2, TimesRises
    <2>4. PICK e \in Nat : e = (m - 1) * M
        BY <1>1, <2>2
    <2>5. 2 * M <= e /\ e < M + 1
        BY <1>2, <2>2, <2>3, <2>4
    <2>6. QED
        BY <1>1, <2>5
<1>5. m = 2
    BY <1>2, <1>3, <1>4
<1>6. bt[1] = 0 /\ bt[2] = M /\ bt[3] = M + 1
    <2>1. bt[1] = (1 - 1) * M /\ bt[2] = (2 - 1) * M /\ bt[2 + 1] = M + 1
        BY <1>2, <1>5
    <2>2. QED
        BY <1>1, <2>1
<1>7. QED
    BY <1>1, <1>5, <1>6 DEF Joins

(* The layer above a: parents of its groups, and what is in none.          *)
Linked(fan, tree, a, b) ==
    \E n, at : /\ Exact(fan, a, n, at) /\ Len(b) = n
               /\ \A i \in 1..n : ~Joins(at, i) => b[i] = a[at[i + 1]]
               /\ \A i \in 1..n : Joins(at, i) =>
                    /\ b[i] \in Inner(tree)
                    /\ IsChildren(tree, b[i], GroupAt(a, at, i))

(* A parent is known by its children. *)
LEMMA OneParent ==
    ASSUME NEW tree, NEW m, NEW n, NEW list, NEW L \in Nat \ {0}, Len(list) = L,
           IsChildren(tree, m, list), IsChildren(tree, n, list)
    PROVE  m = n
<1>1. list \in Seq(DOMAIN tree) /\ ToSet(list) = ChildSet(tree, m) /\ ToSet(list) = ChildSet(tree, n)
    BY DEF IsChildren
<1>2. ToSet(list) = {list[i] : i \in 1..L}
    BY <1>1, ListFacts
<1>3. list[1] \in ToSet(list)
    BY <1>2
<1>4. QED
    BY <1>1, <1>3 DEF ChildSet

(* A pass over nearly the same layer keeps the parents of all groups but   *)
(* the last one.                                                           *)
LEMMA NearUp ==
    ASSUME NEW fan \in Nat \ {0, 1},
           NEW previous, NEW done, Whole(previous, done),
           NEW plan, NEW result, NEW a, NEW up, NEW m, NEW bt,
           Near(a, plan.layer), Linked(fan, previous, a, up),
           Made(fan, previous, plan, result, m, bt)
    PROVE  /\ Near(up, result.layer)
           /\ \A i \in 1..(m - 1) : result.layer[i] \in DOMAIN previous
<1>1. PICK b, new : b = plan.layer /\ new = result.layer
    OBVIOUS
<1>2. PICK n, at :
            /\ Exact(fan, a, n, at) /\ Len(up) = n
            /\ \A i \in 1..n : Joins(at, i) =>
                    /\ up[i] \in Inner(previous)
                    /\ IsChildren(previous, up[i], GroupAt(a, at, i))
    BY DEF Linked
<1>3. /\ Exact(fan, b, m, bt) /\ Len(new) = m
      /\ \A i \in 1..m : Joins(bt, i) =>
            /\ (\E p \in Inner(previous) : Children(previous, p) = GroupAt(b, bt, i))
                    => /\ new[i] \in Inner(previous)
                       /\ Children(previous, new[i]) = GroupAt(b, bt, i)
    BY <1>1 DEF Made
<1>4. Near(a, b)
    BY <1>1
<1>5. PICK K \in Nat, L \in Nat : K = Len(a) /\ L = Len(b) /\ \A p \in 1..(L - 1) : b[p] = a[p]
    BY <1>4 DEF Near
<1>6. /\ n <= m /\ m <= n + 1
      /\ \A i \in 1..(m - 1) :
            /\ i \in 1..n /\ at[i] = bt[i] /\ at[i + 1] = bt[i + 1]
            /\ bt[i] \in Nat /\ bt[i + 1] = bt[i] + fan
            /\ bt[i + 1] <= L - 1
    BY <1>2, <1>3, <1>4, <1>5, SameCuts
<1>7. n \in Nat /\ m \in Nat
    BY <1>2, <1>3 DEF Exact
<1>8. ASSUME NEW i \in 1..(m - 1)
      PROVE  new[i] = up[i] /\ new[i] \in DOMAIN previous
    <2>1. i \in 1..n /\ i \in 1..m
        BY <1>6, <1>7
    <2>2. PICK j \in Nat : /\ j = at[i] /\ j = bt[i]
                           /\ j + fan = at[i + 1] /\ j + fan = bt[i + 1]
                           /\ j + fan <= L - 1
        BY <1>6
    <2>3. Joins(at, i) /\ Joins(bt, i)
        BY <2>2 DEF Joins
    <2>4. PICK G : G = [k \in 1..fan |-> a[j + k]]
        OBVIOUS
    <2>5. \A k \in 1..fan : b[j + k] = a[j + k]
        <3>1. \A k \in 1..fan : j + k \in 1..(L - 1)
            BY <2>2
        <3>2. QED
            BY <1>5, <3>1
    <2>6. (j + fan) - j = fan
        OBVIOUS
    <2>7. GroupAt(a, at, i) = G /\ GroupAt(b, bt, i) = G
        BY <2>2, <2>4, <2>5, <2>6 DEF GroupAt
    <2>8. up[i] \in Inner(previous) /\ IsChildren(previous, up[i], G)
        BY <1>2, <2>1, <2>3, <2>7
    <2>9. Children(previous, up[i]) = G
        BY <2>8, ChildrenIs
    <2>10. new[i] \in Inner(previous) /\ Children(previous, new[i]) = G
        BY <1>3, <2>1, <2>3, <2>7, <2>8, <2>9
    <2>11. PICK list : Family(previous, new[i], list)
        BY <2>10 DEF Whole
    <2>12. IsChildren(previous, new[i], G)
        BY <2>10, <2>11, ChildrenIs DEF Family
    <2>13. Len(G) = fan
        BY <2>4
    <2>14. fan \in Nat \ {0}
        OBVIOUS
    <2>15. new[i] = up[i]
        BY <2>8, <2>12, <2>13, <2>14, OneParent
    <2>16. QED
        BY <2>10, <2>15 DEF Inner
<1>9. Near(up, new)
    BY <1>2, <1>3, <1>6, <1>7, <1>8 DEF Near
<1>10. QED
    BY <1>1, <1>8, <1>9

(* A pass in which at most one parent is new.                              *)
LEMMA OneNew ==
    ASSUME NEW fan \in Nat \ {0, 1},
           NEW previous, NEW done, NEW plan, NEW result, NEW m, NEW bt,
           PlanInv(fan, previous, done, plan), PlanInv(fan, previous, done, result),
           Made(fan, previous, plan, result, m, bt), NEW last,
           \A i \in 1..m : Joins(bt, i) /\ result.layer[i] \notin DOMAIN previous => i = last
    PROVE  /\ IsFiniteSet(DOMAIN plan.summaries)
           /\ Cardinality(DOMAIN result.summaries) \in Nat
           /\ Cardinality(DOMAIN result.summaries) <= Cardinality(DOMAIN plan.summaries) + 1
<1> DEFINE before == DOMAIN plan.summaries
           after == DOMAIN result.summaries
           x == result.layer[last]
<1>1. before = Inner(plan.nodes) \ DOMAIN previous /\ after = Inner(result.nodes) \ DOMAIN previous
    BY DEF PlanInv, Summarised
<1>2. IsFiniteSet(before)
    <2>1. IsFiniteSet(DOMAIN plan.nodes)
        BY DEF PlanInv, Whole, TreeType
    <2>2. before \subseteq DOMAIN plan.nodes
        BY <1>1 DEF Inner
    <2> HIDE DEF before
    <2>3. QED
        BY <2>1, <2>2, FS_Subset
<1>3. Inner(result.nodes)
        = Inner(plan.nodes) \cup {result.layer[i] : i \in {j \in 1..m : Joins(bt, j)}}
    BY DEF Made
<1>4. after \subseteq before \cup {x}
    BY <1>1, <1>3
<1> HIDE DEF before, after, x
<1>5. /\ IsFiniteSet(before \cup {x})
      /\ Cardinality(before \cup {x}) = IF x \in before THEN Cardinality(before) ELSE Cardinality(before) + 1
    BY <1>2, FS_AddElement
<1>6. IsFiniteSet(after) /\ Cardinality(after) <= Cardinality(before \cup {x})
    BY <1>4, <1>5, FS_Subset
<1>7. Cardinality(after) \in Nat /\ Cardinality(before) \in Nat
    BY <1>2, <1>6, FS_CardinalityType
<1>8. Cardinality(after) <= Cardinality(before) + 1
    BY <1>5, <1>6, <1>7
<1>9. QED
    BY <1>2, <1>7, <1>8 DEF before, after

(* The parents above the first chunk. *)
Firsts(tree) == {n \in Inner(tree) : tree[n].first = 1}

(* The layers of a tree, from its leaves up: h passes made them, and each  *)
(* of these left a parent above the first chunk.                           *)
Levelled(fan, tree, done, h, levels) ==
    /\ h \in Nat
    /\ LeafOrder(tree, done, levels[0])
    /\ \A j \in 1..h : Linked(fan, tree, levels[j - 1], levels[j])
    /\ \A j \in 1..h : Len(levels[j - 1]) > fan
    /\ h <= Cardinality(Firsts(tree))

(* What is linked stays so in a tree that only grows.                      *)
LEMMA LinkedStays ==
    ASSUME NEW fan \in Nat \ {0, 1},
           NEW tree, NEW next, Extended(tree, next), NEW a, NEW b, Linked(fan, tree, a, b)
    PROVE  Linked(fan, next, a, b)
<1>1. PICK n, at :
            /\ Exact(fan, a, n, at) /\ Len(b) = n
            /\ \A i \in 1..n : ~Joins(at, i) => b[i] = a[at[i + 1]]
            /\ \A i \in 1..n : Joins(at, i) =>
                    /\ b[i] \in Inner(tree)
                    /\ IsChildren(tree, b[i], GroupAt(a, at, i))
    BY DEF Linked
<1>2. ASSUME NEW i \in 1..n, Joins(at, i)
      PROVE  b[i] \in Inner(next) /\ IsChildren(next, b[i], GroupAt(a, at, i))
    <2>1. b[i] \in Inner(tree) /\ b[i] \in DOMAIN tree /\ IsChildren(tree, b[i], GroupAt(a, at, i))
        BY <1>1, <1>2 DEF Inner
    <2>2. QED
        BY <2>1 DEF Extended
<1>3. QED
    BY <1>1, <1>2 DEF Linked

LEMMA FirstsGrow ==
    ASSUME NEW tree, NEW next, Extended(tree, next), TreeType(next)
    PROVE  /\ Firsts(tree) \subseteq Firsts(next)
           /\ IsFiniteSet(Firsts(next)) /\ IsFiniteSet(Firsts(tree))
           /\ Cardinality(Firsts(tree)) \in Nat /\ Cardinality(Firsts(next)) \in Nat
           /\ Cardinality(Firsts(tree)) <= Cardinality(Firsts(next))
<1>1. Firsts(tree) \subseteq Firsts(next)
    BY DEF Firsts, Extended, Inner
<1>2. IsFiniteSet(Firsts(next))
    <2>1. IsFiniteSet(DOMAIN next) /\ Firsts(next) \subseteq DOMAIN next
        BY DEF TreeType, Firsts, Inner
    <2>2. QED
        BY <2>1, FS_Subset
<1>3. IsFiniteSet(Firsts(tree)) /\ Cardinality(Firsts(tree)) <= Cardinality(Firsts(next))
    BY <1>1, <1>2, FS_Subset
<1>4. QED
    BY <1>1, <1>2, <1>3, FS_CardinalityType

LEMMA LevelledStays ==
    ASSUME NEW fan \in Nat \ {0, 1},
           NEW tree, NEW next, Extended(tree, next), TreeType(next),
           NEW done \in Nat, NEW h, NEW levels, Levelled(fan, tree, done, h, levels)
    PROVE  Levelled(fan, next, done, h, levels)
<1>1. /\ h \in Nat /\ LeafOrder(tree, done, levels[0])
      /\ \A j \in 1..h : Linked(fan, tree, levels[j - 1], levels[j])
      /\ \A j \in 1..h : Len(levels[j - 1]) > fan
      /\ h <= Cardinality(Firsts(tree))
    BY DEF Levelled
<1>2. LeafOrder(next, done, levels[0])
    BY <1>1 DEF LeafOrder, Leaves, Extended
<1>3. \A j \in 1..h : Linked(fan, next, levels[j - 1], levels[j])
    BY <1>1, LinkedStays
<1>4. h <= Cardinality(Firsts(next))
    <2>1. /\ Cardinality(Firsts(tree)) \in Nat /\ Cardinality(Firsts(next)) \in Nat
          /\ Cardinality(Firsts(tree)) <= Cardinality(Firsts(next))
        BY FirstsGrow
    <2>2. QED
        BY <1>1, <2>1
<1>5. QED
    BY <1>1, <1>2, <1>3, <1>4 DEF Levelled

(* The first group of a layer that is too long begins it and is joined.    *)
LEMMA FirstCut ==
    ASSUME NEW fan \in Nat \ {0, 1},
           NEW layer, NEW n, NEW at, Exact(fan, layer, n, at), Len(layer) > fan
    PROVE  /\ 1 \in 1..n /\ at[1] = 0 /\ Joins(at, 1)
<1> DEFINE M == fan
<1>1. M \in Nat /\ M >= 2
    OBVIOUS
<1>2. PICK L \in Nat : L = Len(layer)
    BY DEF Exact
<1>3. /\ n \in Nat /\ \A i \in 1..n : at[i] = (i - 1) * M
      /\ L <= n * M /\ L > M
    BY <1>2 DEF Exact
<1> HIDE DEF M
<1>4. n >= 2
    <2>1. 0 * M = 0 /\ 1 * M = M
        BY <1>1
    <2>2. n # 0 /\ n # 1
        BY <1>1, <1>2, <1>3, <2>1
    <2>3. QED
        BY <1>3, <2>2
<1>5. at[1] = 0 /\ at[2] = M
    <2>1. 1 \in 1..n /\ 2 \in 1..n
        BY <1>3, <1>4
    <2>2. at[1] = (1 - 1) * M /\ at[2] = (2 - 1) * M
        BY <1>3, <2>1
    <2>3. QED
        BY <1>1, <2>2
<1>6. QED
    BY <1>1, <1>3, <1>4, <1>5 DEF Joins

(* The plan so far has levels, and its layer is the highest.               *)
Growing(fan, plan, done) ==
    /\ Len(plan.layer) > 0 => plan.nodes[plan.layer[1]].first = 1
    /\ \E h, levels : Levelled(fan, plan.nodes, done, h, levels) /\ levels[h] = plan.layer

LEMMA Grows ==
    ASSUME NEW fan \in Nat \ {0, 1},
           NEW previous, NEW done \in Nat, NEW plan, NEW result, NEW n, NEW at,
           TreeType(result.nodes), Made(fan, previous, plan, result, n, at),
           Len(plan.layer) > fan, Growing(fan, plan, done)
    PROVE  Growing(fan, result, done)
<1>1. PICK tree, next, layer, up :
            /\ tree = plan.nodes /\ next = result.nodes
            /\ layer = plan.layer /\ up = result.layer
    OBVIOUS
<1>2. /\ Exact(fan, layer, n, at) /\ Len(up) = n
      /\ \A i \in 1..n : ~Joins(at, i) => up[i] = layer[at[i + 1]]
      /\ \A i \in 1..n : Joins(at, i) => IsChildren(next, up[i], GroupAt(layer, at, i))
      /\ \A i \in 1..n : Joins(at, i) =>
            /\ up[i] \notin DOMAIN tree
            /\ next[up[i]].first = tree[layer[at[i] + 1]].first
      /\ Inner(next) = Inner(tree) \cup {up[i] : i \in {j \in 1..n : Joins(at, j)}}
      /\ Extended(tree, next)
    BY <1>1 DEF Made
<1>3. 1 \in 1..n /\ at[1] = 0 /\ Joins(at, 1)
    BY <1>1, <1>2, FirstCut
<1>4. Len(layer) > 0
    <2>1. Len(layer) \in Nat
        BY <1>2 DEF Exact
    <2>2. QED
        BY <1>1, <2>1
<1>5. PICK x : x = up[1]
    OBVIOUS
<1>6. x \notin DOMAIN tree /\ next[x].first = 1
    <2>1. at[1] + 1 = 1
        BY <1>3
    <2>2. tree[layer[1]].first = 1
        BY <1>1, <1>4 DEF Growing
    <2>3. QED
        BY <1>2, <1>3, <1>5, <2>1, <2>2
<1>7. x \in Firsts(next)
    BY <1>2, <1>3, <1>5, <1>6 DEF Firsts
<1>8. PICK h, levels : Levelled(fan, tree, done, h, levels) /\ levels[h] = layer
    BY <1>1 DEF Growing
<1>9. Levelled(fan, next, done, h, levels)
    BY <1>1, <1>2, <1>8, LevelledStays
<1>10. h + 1 <= Cardinality(Firsts(next))
    <2>1. /\ Firsts(tree) \subseteq Firsts(next) /\ IsFiniteSet(Firsts(next))
          /\ IsFiniteSet(Firsts(tree))
          /\ Cardinality(Firsts(tree)) \in Nat /\ Cardinality(Firsts(next)) \in Nat
        BY <1>1, <1>2, FirstsGrow
    <2>2. x \notin Firsts(tree)
        BY <1>6 DEF Firsts, Inner
    <2>3. Cardinality(Firsts(tree) \cup {x}) = Cardinality(Firsts(tree)) + 1
        BY <2>1, <2>2, FS_AddElement
    <2>4. Cardinality(Firsts(tree) \cup {x}) <= Cardinality(Firsts(next))
        BY <1>7, <2>1, FS_Subset
    <2>5. h \in Nat /\ h <= Cardinality(Firsts(tree))
        BY <1>8 DEF Levelled
    <2>6. QED
        BY <2>1, <2>3, <2>4, <2>5
<1>11. Linked(fan, next, layer, up)
    BY <1>2 DEF Linked
<1> DEFINE more == [j \in 0..(h + 1) |-> IF j <= h THEN levels[j] ELSE up]
<1>12. Levelled(fan, next, done, h + 1, more)
    <2>1. /\ h \in Nat /\ LeafOrder(next, done, levels[0])
          /\ \A j \in 1..h : Linked(fan, next, levels[j - 1], levels[j])
          /\ \A j \in 1..h : Len(levels[j - 1]) > fan
        BY <1>9 DEF Levelled
    <2>2. more[0] = levels[0]
        BY <2>1
    <2>3. ASSUME NEW j \in 1..h
          PROVE  more[j] = levels[j] /\ more[j - 1] = levels[j - 1]
        BY <2>1
    <2>4. more[h + 1] = up /\ more[(h + 1) - 1] = layer
        BY <1>8, <2>1
    <2> HIDE DEF more
    <2>5. ASSUME NEW j \in 1..(h + 1)
          PROVE  Linked(fan, next, more[j - 1], more[j]) /\ Len(more[j - 1]) > fan
        <3>1. CASE j = h + 1
            BY <1>1, <1>11, <2>4, <3>1
        <3>2. CASE j \in 1..h
            BY <2>1, <2>3, <3>2
        <3>3. QED
            BY <2>1, <3>1, <3>2
    <2>6. h + 1 \in Nat
        BY <2>1
    <2>7. QED
        BY <1>10, <2>1, <2>2, <2>5, <2>6 DEF Levelled
<1>13. more[h + 1] = up
    BY <1>8 DEF Levelled
<1>14. QED
    BY <1>1, <1>5, <1>6, <1>12, <1>13 DEF Growing

(* The passes keep the levels.                                             *)
LEMMA LayeredGrows ==
    ASSUME NEW fan \in Nat \ {0, 1},
           NEW previous, NEW start \in Plans, NEW done \in Nat, TreeType(previous),
           \A m \in Inner(previous) : \E list : Family(previous, m, list),
           PlanInv(fan, previous, done, start), Growing(fan, start, done),
           NEW r, Passes(fan, r, previous, start, Kept(fan, previous, done))
    PROVE  Growing(fan, Layered(fan, previous, start), done)
<1> DEFINE A == Kept(fan, previous, done)
<1>1. start \in A
    BY DEF Kept
<1>2. ASSUME NEW p \in A, Growing(fan, p, done)
      PROVE  Growing(fan, Pass(fan, previous, p), done)
    <2>1. /\ Len(p.layer) \in Nat
          /\ Pass(fan, previous, p) \in A
          /\ Len(p.layer) <= fan => Pass(fan, previous, p) = p
          /\ Len(p.layer) > fan =>
                \E n, at : Made(fan, previous, p, Pass(fan, previous, p), n, at)
        BY PassKeeps
    <2>2. CASE Len(p.layer) <= fan
        BY <1>2, <2>1, <2>2
    <2>3. CASE Len(p.layer) > fan
        <3>1. PICK n, at : Made(fan, previous, p, Pass(fan, previous, p), n, at)
            BY <2>1, <2>3
        <3>2. TreeType(Pass(fan, previous, p).nodes)
            BY <2>1 DEF Kept, PlanInv, Whole
        <3>3. QED
            BY <1>2, <2>3, <3>1, <3>2, Grows
    <2>4. QED
        BY <2>1, <2>2, <2>3
<1>3. PICK N \in Nat : N = Len(start.layer)
    BY <1>1, PassKeeps
<1> HIDE DEF A
<1>4. /\ r \in [0..N -> A] /\ r[0] = start
      /\ \A k \in 1..N : r[k] = Pass(fan, previous, r[k - 1])
      /\ Layered(fan, previous, start) = r[N]
    BY <1>3 DEF Passes, A
<1> DEFINE holds == {k \in Nat : k <= N => Growing(fan, r[k], done)}
<1>5. 0 \in holds
    BY <1>4
<1>6. ASSUME NEW k \in 1..N, k - 1 \in holds
      PROVE  k \in holds
    <2>1. k - 1 \in 0..N /\ k \in Nat /\ k - 1 <= N
        OBVIOUS
    <2>2. PICK p \in A : p = r[k - 1] /\ Growing(fan, p, done)
        BY <1>4, <1>6, <2>1
    <2>3. r[k] = Pass(fan, previous, p)
        BY <1>4, <2>2
    <2>4. QED
        BY <1>2, <2>1, <2>2, <2>3
<1> HIDE DEF holds
<1>7. N \in holds
    <2>1. holds \in SUBSET Nat
        BY DEF holds
    <2>2. 0..N \subseteq holds
        BY <1>5, <1>6, <2>1, UpTo
    <2>3. QED
        BY <2>2
<1>8. QED
    BY <1>4, <1>7 DEF holds

(* Before the first pass there is one level.                               *)
LEMMA StartGrows ==
    ASSUME NEW fan \in Nat \ {0, 1},
           NEW start, NEW done \in Nat, NEW previous, PlanInv(fan, previous, done, start),
           LeafOrder(start.nodes, done, start.layer)
    PROVE  Growing(fan, start, done)
<1> DEFINE levels == [j \in {0} |-> start.layer]
<1>1. levels[0] = start.layer
    OBVIOUS
<1>2. 0 <= Cardinality(Firsts(start.nodes))
    <2>1. IsFiniteSet(DOMAIN start.nodes) /\ Firsts(start.nodes) \subseteq DOMAIN start.nodes
        BY DEF PlanInv, Whole, TreeType, Firsts, Inner
    <2>2. IsFiniteSet(Firsts(start.nodes))
        BY <2>1, FS_Subset
    <2>3. QED
        BY <2>2, FS_CardinalityType
<1> HIDE DEF levels
<1>3. Levelled(fan, start.nodes, done, 0, levels)
    BY <1>1, <1>2 DEF Levelled
<1>4. Len(start.layer) > 0 => start.nodes[start.layer[1]].first = 1
    BY DEF LeafOrder
<1>5. QED
    BY <1>1, <1>3, <1>4 DEF Growing

(* The plan of a tree with one leaf more, after k passes: either nearly    *)
(* the layer that the tree had, or done with.                              *)
Closing(fan, plan, k, h, levels) ==
    \/ /\ k <= h
       /\ Near(levels[k], plan.layer)
       /\ Cardinality(DOMAIN plan.summaries) <= k
    \/ /\ Len(plan.layer) <= fan
       /\ Cardinality(DOMAIN plan.summaries) <= h + 1

(* One pass more.                                                          *)
LEMMA Closer ==
    ASSUME NEW fan \in Nat \ {0, 1},
           NEW previous, NEW was, NEW done, Whole(previous, was),
           NEW h \in Nat, NEW levels, Levelled(fan, previous, was, h, levels),
           Len(levels[h]) <= fan,
           NEW plan \in Kept(fan, previous, done), NEW k \in Nat, Closing(fan, plan, k, h, levels)
    PROVE  Closing(fan, Pass(fan, previous, plan), k + 1, h, levels)
<1>1. TreeType(previous) /\ \A m \in Inner(previous) : \E list : Family(previous, m, list)
    BY DEF Whole
<1>2. PICK result : result = Pass(fan, previous, plan)
    OBVIOUS
<1>3. /\ Len(plan.layer) \in Nat
      /\ result \in Kept(fan, previous, done)
      /\ Len(plan.layer) <= fan => result = plan
      /\ Len(plan.layer) > fan => \E n, at : Made(fan, previous, plan, result, n, at)
    BY <1>1, <1>2, PassKeeps
<1>4. PlanInv(fan, previous, done, plan) /\ PlanInv(fan, previous, done, result)
    BY <1>3 DEF Kept
<1>5. fan \in Nat /\ fan >= 2
    OBVIOUS
<1>6. Cardinality(DOMAIN plan.summaries) \in Nat
    <2>1. DOMAIN plan.summaries \subseteq DOMAIN plan.nodes
        BY <1>4 DEF PlanInv, Summarised, Inner
    <2>2. IsFiniteSet(DOMAIN plan.nodes)
        BY <1>4 DEF PlanInv, Whole, TreeType
    <2>3. QED
        BY <2>1, <2>2, FS_Subset, FS_CardinalityType
<1>7. PICK c \in Nat : c = Cardinality(DOMAIN plan.summaries)
    BY <1>6
<1>8. CASE Len(plan.layer) <= fan
    <2>1. c <= h + 1
        BY <1>7 DEF Closing
    <2>2. QED
        BY <1>2, <1>3, <1>7, <1>8, <2>1 DEF Closing
<1>9. CASE Len(plan.layer) > fan
    <2>1. PICK m, bt : Made(fan, previous, plan, result, m, bt)
        BY <1>3, <1>9
    <2>2. k <= h /\ Near(levels[k], plan.layer) /\ c <= k
        BY <1>3, <1>5, <1>7, <1>9 DEF Closing
    <2>3. Exact(fan, plan.layer, m, bt) /\ m \in Nat /\ Len(result.layer) = m
        BY <2>1 DEF Made, Exact
    <2>4. CASE k < h
        <3>1. k + 1 \in 1..h /\ (k + 1) - 1 = k
            BY <2>4
        <3>2. Linked(fan, previous, levels[(k + 1) - 1], levels[k + 1])
            BY <3>1 DEF Levelled
        <3>3. Linked(fan, previous, levels[k], levels[k + 1])
            BY <3>1, <3>2
        <3>4. /\ Near(levels[k + 1], result.layer)
              /\ \A i \in 1..(m - 1) : result.layer[i] \in DOMAIN previous
            BY <2>1, <2>2, <3>3, NearUp
        <3>5. \A i \in 1..m : Joins(bt, i) /\ result.layer[i] \notin DOMAIN previous => i = m
            BY <2>3, <3>4
        <3>6. Cardinality(DOMAIN result.summaries) <= c + 1
              /\ Cardinality(DOMAIN result.summaries) \in Nat
            BY <1>4, <1>7, <2>1, <3>5, OneNew
        <3>7. k + 1 <= h /\ Cardinality(DOMAIN result.summaries) <= k + 1
            BY <2>2, <2>4, <3>6
        <3>8. QED
            BY <1>2, <3>4, <3>7 DEF Closing
    <2>5. CASE k = h
        <3>1. Len(plan.layer) = fan + 1
            <4>1. /\ Len(levels[k]) \in Nat
                  /\ Len(plan.layer) <= Len(levels[k]) + 1
                BY <2>2 DEF Near
            <4>2. QED
                BY <1>3, <1>5, <1>9, <2>5, <4>1
        <3>2. m = 2 /\ Joins(bt, 1) /\ ~Joins(bt, 2)
            BY <2>3, <3>1, OneOver
        <3>3. \A i \in 1..m : Joins(bt, i) /\ result.layer[i] \notin DOMAIN previous => i = 1
            <4>1. \A i \in 1..2 : i = 1 \/ i = 2
                OBVIOUS
            <4>2. QED
                BY <3>2, <4>1
        <3>4. Cardinality(DOMAIN result.summaries) <= c + 1
              /\ Cardinality(DOMAIN result.summaries) \in Nat
            BY <1>4, <1>7, <2>1, <3>3, OneNew
        <3>5. Cardinality(DOMAIN result.summaries) <= h + 1
            BY <2>2, <2>5, <3>4
        <3>6. Len(result.layer) <= fan
            BY <1>5, <2>3, <3>2
        <3>7. QED
            BY <1>2, <3>5, <3>6 DEF Closing
    <2>6. QED
        BY <2>2, <2>4, <2>5
<1>10. QED
    BY <1>3, <1>5, <1>8, <1>9

(* A whole tree has levels up to its tops. *)
Shaped(fan, tree, done) ==
    \E h, levels : Levelled(fan, tree, done, h, levels) /\ Len(levels[h]) <= fan

(* What a call plans has levels.                                           *)
LEMMA ProposalShaped ==
    ASSUME NEW fan \in Nat \ {0, 1},
           NEW previous, NEW was \in Nat, NEW count \in Nat, Whole(previous, was)
    PROVE  Shaped(fan, Proposal(fan, previous, was, count).nodes, was + count)
<1> DEFINE leaves == WithNew(previous, was, count)
           start == Start(leaves)
           plan == Layered(fan, previous, start)
           p == Proposal(fan, previous, was, count)
<1>1. PICK done \in Nat : done = was + count
    OBVIOUS
<1>2. FreshLeaves(leaves, previous, done)
    BY <1>1, WithNewIs
<1>3. /\ PlanInv(fan, previous, done, start) /\ start \in Plans
      /\ LeafOrder(start.nodes, done, start.layer)
    BY <1>2, StartInv
<1>4. TreeType(previous) /\ \A m \in Inner(previous) : \E list : Family(previous, m, list)
    BY DEF Whole
<1>5. p = [plan EXCEPT !.nodes = Number(plan.nodes, plan.layer, NoNode)]
    BY DEF Proposal, Plan
<1> HIDE DEF start
<1>6. Growing(fan, start, done)
    BY <1>3, StartGrows
<1>7. PICK r : Passes(fan, r, previous, start, Kept(fan, previous, done))
    BY <1>3, <1>4, PassesExist
<1>8. plan \in Kept(fan, previous, done) /\ Len(plan.layer) <= fan
    BY <1>3, <1>4, <1>7, LayeredIs
<1>9. Growing(fan, plan, done)
    BY <1>3, <1>4, <1>6, <1>7, LayeredGrows
<1> HIDE DEF plan
<1>10. PICK tree, layer, next :
            tree = plan.nodes /\ layer = plan.layer /\ next = Number(tree, layer, NoNode)
    OBVIOUS
<1>11. p.nodes = next
    BY <1>5, <1>8, <1>10 DEF Kept, Plans
<1> HIDE DEF p
<1>12. Whole(tree, done) /\ LayerInv(tree, layer)
    BY <1>8, <1>10 DEF Kept, PlanInv
<1>13. /\ Whole(next, done) /\ Inner(next) = Inner(tree) /\ DOMAIN next = DOMAIN tree
       /\ \A m \in DOMAIN tree : \A list :
            IsChildren(tree, m, list) => IsChildren(next, m, list)
       /\ \A c \in DOMAIN tree : next[c].first = tree[c].first /\ next[c].leaf = tree[c].leaf
    BY <1>8, <1>10, <1>12, NumberedTops
<1>14. Extended(tree, next) /\ TreeType(next)
    BY <1>13 DEF Extended, Whole
<1>15. PICK h, levels : Levelled(fan, tree, done, h, levels) /\ levels[h] = layer
    BY <1>9, <1>10 DEF Growing
<1>16. Levelled(fan, next, done, h, levels)
    BY <1>14, <1>15, LevelledStays
<1>17. Shaped(fan, next, done)
    BY <1>8, <1>10, <1>15, <1>16 DEF Shaped
<1>18. QED
    BY <1>1, <1>11, <1>17 DEF p

(* One leaf more needs at most a parent at each level and one above.       *)
LEMMA FewSummaries ==
    ASSUME NEW fan \in Nat \ {0, 1},
           NEW previous, NEW was \in Nat, Whole(previous, was),
           NEW h \in Nat, NEW levels, Levelled(fan, previous, was, h, levels),
           Len(levels[h]) <= fan
    PROVE  /\ Cardinality(DOMAIN Proposal(fan, previous, was, 1).summaries) \in Nat
           /\ Cardinality(DOMAIN Proposal(fan, previous, was, 1).summaries) <= h + 1
<1> DEFINE leaves == WithNew(previous, was, 1)
           start == Start(leaves)
           plan == Layered(fan, previous, start)
           p == Proposal(fan, previous, was, 1)
<1>1. PICK done \in Nat : done = was + 1
    OBVIOUS
<1>2. /\ FreshLeaves(leaves, previous, done)
      /\ \A c \in Leaves(previous) : c \in DOMAIN leaves /\ leaves[c].first = previous[c].first
    BY <1>1, WithNewIs
<1>3. /\ PlanInv(fan, previous, done, start) /\ start \in Plans
      /\ LeafOrder(leaves, done, start.layer)
      /\ DOMAIN start.summaries = {}
    BY <1>2, StartInv
<1>4. TreeType(previous) /\ \A m \in Inner(previous) : \E list : Family(previous, m, list)
    BY DEF Whole
<1>5. p = [plan EXCEPT !.nodes = Number(plan.nodes, plan.layer, NoNode)]
    BY DEF Proposal, Plan
<1> HIDE DEF start, leaves
<1>6. PICK r : Passes(fan, r, previous, start, Kept(fan, previous, done))
    BY <1>3, <1>4, PassesExist
<1>7. plan \in Kept(fan, previous, done)
    BY <1>3, <1>4, <1>6, LayeredIs
<1>8. p.summaries = plan.summaries
    BY <1>5, <1>7 DEF Kept, Plans
<1> HIDE DEF p
<1>9. PICK a, b : a = levels[0] /\ b = start.layer
    OBVIOUS
<1>10. Near(a, b)
    <2>1. Len(a) = was /\ \A i \in 1..was : a[i] \in Leaves(previous) /\ previous[a[i]].first = i
        BY <1>9 DEF Levelled, LeafOrder
    <2>2. Len(b) = done /\ \A i \in 1..done : b[i] \in Leaves(leaves) /\ leaves[b[i]].first = i
        BY <1>3, <1>9 DEF LeafOrder
    <2>3. /\ \A c, d \in Leaves(leaves) : leaves[c].first = leaves[d].first => c = d
          /\ Leaves(leaves) = DOMAIN leaves
        BY <1>2 DEF FreshLeaves, LeavesInv, Leaves
    <2>4. ASSUME NEW i \in 1..was
          PROVE  b[i] = a[i]
        <3>1. i \in 1..done
            BY <1>1
        <3>2. a[i] \in DOMAIN leaves /\ leaves[a[i]].first = i
            BY <1>2, <2>1
        <3>3. QED
            BY <2>2, <2>3, <3>1, <3>2
    <2>5. QED
        BY <1>1, <2>1, <2>2, <2>4 DEF Near
<1>11. Closing(fan, start, 0, h, levels)
    <2>1. Cardinality(DOMAIN start.summaries) = 0
        BY <1>3, FS_EmptySet
    <2>2. QED
        BY <1>9, <1>10, <2>1 DEF Closing
<1> DEFINE A == Kept(fan, previous, done)
<1>12. start \in A
    BY <1>3 DEF Kept
<1>13. PICK N \in Nat : N = Len(start.layer)
    BY <1>4, <1>12, PassKeeps
<1>14. ASSUME NEW q \in A, NEW k \in Nat, Closing(fan, q, k, h, levels)
       PROVE  Closing(fan, Pass(fan, previous, q), k + 1, h, levels)
    BY <1>14, Closer
<1> HIDE DEF A
<1>15. /\ r \in [0..N -> A] /\ r[0] = start
       /\ \A k \in 1..N : r[k] = Pass(fan, previous, r[k - 1])
       /\ plan = r[N]
    BY <1>6, <1>13 DEF Passes, A
<1> HIDE DEF plan
<1> DEFINE holds == {k \in Nat : k <= N => Closing(fan, r[k], k, h, levels)}
<1>16. 0 \in holds
    BY <1>11, <1>15
<1>17. ASSUME NEW k \in 1..N, k - 1 \in holds
       PROVE  k \in holds
    <2>1. k - 1 \in 0..N /\ k - 1 \in Nat /\ k \in Nat /\ k - 1 <= N /\ (k - 1) + 1 = k
        OBVIOUS
    <2>2. PICK q \in A : q = r[k - 1] /\ Closing(fan, q, k - 1, h, levels)
        BY <1>15, <1>17, <2>1
    <2>3. r[k] = Pass(fan, previous, q)
        BY <1>15, <2>2
    <2>4. Closing(fan, Pass(fan, previous, q), (k - 1) + 1, h, levels)
        BY <1>14, <2>1, <2>2
    <2>5. QED
        BY <2>1, <2>3, <2>4
<1> HIDE DEF holds
<1>18. N \in holds
    <2>1. holds \in SUBSET Nat
        BY DEF holds
    <2>2. 0..N \subseteq holds
        BY <1>16, <1>17, <2>1, UpTo
    <2>3. QED
        BY <2>2
<1>19. Closing(fan, plan, N, h, levels)
    BY <1>15, <1>18 DEF holds
<1>20. Cardinality(DOMAIN plan.summaries) \in Nat
    <2>1. PlanInv(fan, previous, done, plan)
        BY <1>7 DEF Kept
    <2>2. DOMAIN plan.summaries \subseteq DOMAIN plan.nodes
        BY <2>1 DEF PlanInv, Summarised, Inner
    <2>3. IsFiniteSet(DOMAIN plan.nodes)
        BY <2>1 DEF PlanInv, Whole, TreeType
    <2>4. QED
        BY <2>2, <2>3, FS_Subset, FS_CardinalityType
<1>21. PICK c \in Nat : c = Cardinality(DOMAIN plan.summaries)
    BY <1>20
<1>22. c <= h + 1
    BY <1>19, <1>21 DEF Closing
<1>23. QED
    BY <1>8, <1>21, <1>22 DEF p

(* A pass takes from the layer at least what it adds to the summaries: each *)
(* new parent has two children or more.                                     *)
LEMMA Pairs ==
    ASSUME NEW fan \in Nat \ {0, 1}, NEW layer, NEW n, NEW at,
           Exact(fan, layer, n, at), Len(layer) > 0
    PROVE  \E k \in Nat : /\ k <= n /\ n + k <= Len(layer) /\ n > 0
                          /\ \A i \in 1..n : Joins(at, i) => i <= k
<1>1. PICK L \in Nat : L = Len(layer) /\ L > 0
    BY DEF Exact
<1>2. /\ n \in Nat /\ \A i \in 1..n : at[i] = (i - 1) * fan
      /\ at[n + 1] = L /\ L <= n * fan /\ (n > 0 => (n - 1) * fan < L)
    BY <1>1 DEF Exact
<1>3. n > 0
    <2>1. 0 * fan = 0
        OBVIOUS
    <2>2. QED
        BY <1>1, <1>2, <2>1
<1>4. n - 1 \in Nat /\ n \in 1..n
    BY <1>2, <1>3
<1>5. PICK e \in Nat : e = (n - 1) * fan
    BY <1>4
<1>6. (n - 1) * 2 <= e
    <2>1. 2 * (n - 1) <= fan * (n - 1)
        BY <1>4, TimesRises
    <2>2. 2 * (n - 1) = (n - 1) * 2 /\ fan * (n - 1) = (n - 1) * fan
        BY <1>4
    <2>3. QED
        BY <1>5, <2>1, <2>2
<1>7. e < L /\ at[n] = e
    BY <1>2, <1>3, <1>4, <1>5
<1>8. CASE Joins(at, n)
    <2>1. e + 1 < L
        BY <1>2, <1>7, <1>8 DEF Joins
    <2>2. n + n <= L
        BY <1>1, <1>2, <1>5, <1>6, <2>1
    <2>3. \A i \in 1..n : i <= n
        BY <1>2
    <2>4. PICK k \in Nat : k = n
        BY <1>2
    <2>5. k <= n /\ n + k <= Len(layer)
        BY <1>1, <2>2, <2>4
    <2>6. \A i \in 1..n : Joins(at, i) => i <= k
        BY <2>3, <2>4
    <2>7. QED
        BY <1>3, <2>5, <2>6
<1>9. CASE ~Joins(at, n)
    <2>1. n + (n - 1) <= L
        BY <1>1, <1>2, <1>5, <1>6, <1>7
    <2>2. \A i \in 1..n : Joins(at, i) => i # n
        BY <1>9
    <2>3. PICK k \in Nat : k = n - 1
        BY <1>4
    <2>4. k <= n /\ n + k <= L /\ \A i \in 1..n : i # n => i <= k
        BY <1>2, <2>1, <2>3
    <2>5. \A i \in 1..n : Joins(at, i) => i <= k
        BY <2>2, <2>4
    <2>6. QED
        BY <1>1, <1>3, <2>4, <2>5
<1>10. QED
    BY <1>8, <1>9

LEMMA Shrinks ==
    ASSUME NEW fan \in Nat \ {0, 1}, NEW previous, NEW done, NEW plan, NEW result,
           NEW n, NEW at,
           PlanInv(fan, previous, done, plan), PlanInv(fan, previous, done, result),
           Made(fan, previous, plan, result, n, at), Len(plan.layer) > 0
    PROVE  /\ Len(result.layer) \in Nat /\ Len(result.layer) > 0
           /\ Cardinality(DOMAIN result.summaries) + Len(result.layer)
                <= Cardinality(DOMAIN plan.summaries) + Len(plan.layer)
<1> DEFINE before == DOMAIN plan.summaries
           after == DOMAIN result.summaries
<1>1. before = Inner(plan.nodes) \ DOMAIN previous /\ after = Inner(result.nodes) \ DOMAIN previous
    BY DEF PlanInv, Summarised
<1>2. IsFiniteSet(before)
    <2>1. IsFiniteSet(DOMAIN plan.nodes)
        BY DEF PlanInv, Whole, TreeType
    <2>2. before \subseteq DOMAIN plan.nodes
        BY <1>1 DEF Inner
    <2> HIDE DEF before
    <2>3. QED
        BY <2>1, <2>2, FS_Subset
<1>3. /\ Exact(fan, plan.layer, n, at) /\ Len(result.layer) = n
      /\ Inner(result.nodes)
            = Inner(plan.nodes) \cup {result.layer[i] : i \in {j \in 1..n : Joins(at, j)}}
    BY DEF Made
<1>4. PICK k \in Nat : /\ k <= n /\ n + k <= Len(plan.layer) /\ n > 0
                       /\ \A i \in 1..n : Joins(at, i) => i <= k
    BY <1>3, Pairs
<1>5. n \in Nat /\ Len(plan.layer) \in Nat
    BY <1>3 DEF Exact
<1>6. PICK T : T = {result.layer[i] : i \in 1..k}
    OBVIOUS
<1>7. after \subseteq before \cup T
    <2>1. ASSUME NEW i \in 1..n, Joins(at, i)
          PROVE  result.layer[i] \in T
        <3>1. i \in 1..k
            BY <1>4, <2>1
        <3>2. QED
            BY <1>6, <3>1
    <2>2. QED
        BY <1>1, <1>3, <2>1
<1>8. IsFiniteSet(T) /\ Cardinality(T) = k
    <2>1. /\ \A i \in 1..k : result.layer[i] \in T
          /\ \A s \in T : \E i \in 1..k : result.layer[i] = s
        BY <1>6
    <2>2. \A i, j \in 1..n : result.layer[i] = result.layer[j] => i = j
        BY <1>3 DEF PlanInv, LayerInv, EachOnce
    <2>3. \A i, j \in 1..k : result.layer[i] = result.layer[j] => i = j
        BY <1>4, <1>5, <2>2
    <2>4. QED
        BY <2>1, <2>3, AsManyAsPlaces
<1> HIDE DEF before, after
<1>9. /\ IsFiniteSet(before \cup T) /\ Cardinality(before \cup T) \in Nat
      /\ Cardinality(before) \in Nat
      /\ Cardinality(before \cup T) <= Cardinality(before) + k
    <2>1. /\ IsFiniteSet(before \cup T)
          /\ Cardinality(before \cup T)
                = Cardinality(before) + Cardinality(T) - Cardinality(before \cap T)
        BY <1>2, <1>8, FS_Union
    <2>2. IsFiniteSet(before \cap T)
        BY <1>2, FS_Intersection
    <2>3. Cardinality(before) \in Nat /\ Cardinality(before \cap T) \in Nat
        BY <1>2, <2>2, FS_CardinalityType
    <2>4. Cardinality(before \cup T) \in Nat
        BY <2>1, FS_CardinalityType
    <2>5. QED
        BY <1>8, <2>1, <2>3, <2>4
<1>10. IsFiniteSet(after) /\ Cardinality(after) <= Cardinality(before \cup T)
    BY <1>7, <1>9, FS_Subset
<1>11. Cardinality(after) \in Nat
    BY <1>10, FS_CardinalityType
<1>12. Cardinality(after) + n <= Cardinality(before) + Len(plan.layer)
    BY <1>4, <1>5, <1>9, <1>10, <1>11
<1>13. QED
    BY <1>3, <1>4, <1>5, <1>12 DEF before, after

LEMMA SummariesCounted ==
    ASSUME NEW fan \in Nat \ {0, 1}, NEW previous, NEW done, NEW plan,
           PlanInv(fan, previous, done, plan)
    PROVE  Cardinality(DOMAIN plan.summaries) \in Nat
<1>1. DOMAIN plan.summaries \subseteq DOMAIN plan.nodes
    BY DEF PlanInv, Summarised, Inner
<1>2. IsFiniteSet(DOMAIN plan.nodes)
    BY DEF PlanInv, Whole, TreeType
<1>3. QED
    BY <1>1, <1>2, FS_Subset, FS_CardinalityType

(* The summaries of a plan and its layer, after any number of passes.      *)
Thrifty(plan, done) ==
    /\ Len(plan.layer) > 0
    /\ Cardinality(DOMAIN plan.summaries) + Len(plan.layer) <= done

(* Whatever the fan-out, a tree has fewer parents than leaves to summarise. *)
LEMMA FewerThanLeaves ==
    ASSUME NEW fan \in Nat \ {0, 1}, NEW previous, NEW was \in Nat, Whole(previous, was)
    PROVE  /\ Cardinality(DOMAIN Proposal(fan, previous, was, 1).summaries) \in Nat
           /\ Cardinality(DOMAIN Proposal(fan, previous, was, 1).summaries) <= was
<1> DEFINE leaves == WithNew(previous, was, 1)
           start == Start(leaves)
           plan == Layered(fan, previous, start)
           p == Proposal(fan, previous, was, 1)
<1>1. PICK done \in Nat : done = was + 1
    OBVIOUS
<1>2. FreshLeaves(leaves, previous, done)
    BY <1>1, WithNewIs
<1>3. /\ PlanInv(fan, previous, done, start) /\ start \in Plans
      /\ Len(start.layer) = done /\ DOMAIN start.summaries = {}
    BY <1>2, StartInv DEF LeafOrder
<1>4. TreeType(previous) /\ \A m \in Inner(previous) : \E list : Family(previous, m, list)
    BY DEF Whole
<1>5. p = [plan EXCEPT !.nodes = Number(plan.nodes, plan.layer, NoNode)]
    BY DEF Proposal, Plan
<1> HIDE DEF start, leaves
<1>6. PICK r : Passes(fan, r, previous, start, Kept(fan, previous, done))
    BY <1>3, <1>4, PassesExist
<1>7. plan \in Kept(fan, previous, done)
    BY <1>3, <1>4, <1>6, LayeredIs
<1>8. p.summaries = plan.summaries
    BY <1>5, <1>7 DEF Kept, Plans
<1> HIDE DEF p
<1> DEFINE A == Kept(fan, previous, done)
<1>9. start \in A
    BY <1>3 DEF Kept
<1>10. Thrifty(start, done)
    <2>1. Cardinality(DOMAIN start.summaries) = 0
        BY <1>3, FS_EmptySet
    <2>2. QED
        BY <1>1, <1>3, <2>1 DEF Thrifty
<1>11. ASSUME NEW q \in A, Thrifty(q, done)
       PROVE  Thrifty(Pass(fan, previous, q), done)
    <2>1. PICK result : result = Pass(fan, previous, q)
        OBVIOUS
    <2>2. /\ Len(q.layer) \in Nat /\ result \in Kept(fan, previous, done)
          /\ Len(q.layer) <= fan => result = q
          /\ Len(q.layer) > fan => \E n, at : Made(fan, previous, q, result, n, at)
        BY <1>4, <2>1, PassKeeps
    <2>3. CASE Len(q.layer) <= fan
        BY <1>11, <2>1, <2>2, <2>3
    <2>4. CASE Len(q.layer) > fan
        <3>1. PICK n, at : Made(fan, previous, q, result, n, at)
            BY <2>2, <2>4
        <3>2. PlanInv(fan, previous, done, q) /\ PlanInv(fan, previous, done, result)
            BY <2>2 DEF Kept
        <3>3. Len(q.layer) > 0 /\ Cardinality(DOMAIN q.summaries) + Len(q.layer) <= done
            BY <1>11 DEF Thrifty
        <3>4. /\ Len(result.layer) \in Nat /\ Len(result.layer) > 0
              /\ Cardinality(DOMAIN result.summaries) + Len(result.layer)
                    <= Cardinality(DOMAIN q.summaries) + Len(q.layer)
            BY <3>1, <3>2, <3>3, Shrinks
        <3>5. /\ Cardinality(DOMAIN result.summaries) \in Nat
              /\ Cardinality(DOMAIN q.summaries) \in Nat
            BY <3>2, SummariesCounted
        <3>6. Cardinality(DOMAIN result.summaries) + Len(result.layer) <= done
            BY <2>2, <3>3, <3>4, <3>5
        <3>7. QED
            BY <2>1, <3>4, <3>6 DEF Thrifty
    <2>5. QED
        BY <2>2, <2>3, <2>4
<1>12. PICK N \in Nat : N = Len(start.layer)
    BY <1>3
<1> HIDE DEF A
<1>13. /\ r \in [0..N -> A] /\ r[0] = start
       /\ \A k \in 1..N : r[k] = Pass(fan, previous, r[k - 1])
       /\ plan = r[N]
    BY <1>6, <1>12 DEF Passes, A
<1> HIDE DEF plan
<1> DEFINE holds == {k \in Nat : k <= N => Thrifty(r[k], done)}
<1>14. 0 \in holds
    BY <1>10, <1>13
<1>15. ASSUME NEW k \in 1..N, k - 1 \in holds
       PROVE  k \in holds
    <2>1. k - 1 \in 0..N /\ k \in Nat /\ k - 1 <= N
        OBVIOUS
    <2>2. PICK q \in A : q = r[k - 1] /\ Thrifty(q, done)
        BY <1>13, <1>15, <2>1
    <2>3. r[k] = Pass(fan, previous, q)
        BY <1>13, <2>2
    <2>4. QED
        BY <1>11, <2>1, <2>2, <2>3
<1> HIDE DEF holds
<1>16. N \in holds
    <2>1. holds \in SUBSET Nat
        BY DEF holds
    <2>2. 0..N \subseteq holds
        BY <1>14, <1>15, <2>1, UpTo
    <2>3. QED
        BY <2>2
<1>17. Thrifty(plan, done)
    BY <1>13, <1>16 DEF holds
<1>18. PlanInv(fan, previous, done, plan)
    BY <1>7 DEF Kept
<1>19. PICK c \in Nat : c = Cardinality(DOMAIN plan.summaries)
    BY <1>18, SummariesCounted
<1>20. PICK l \in Nat : l = Len(plan.layer)
    BY <1>4, <1>7, PassKeeps
<1>21. l > 0 /\ c + l <= done
    BY <1>17, <1>19, <1>20 DEF Thrifty
<1>22. c <= was
    BY <1>1, <1>21
<1>23. QED
    BY <1>8, <1>19, <1>22 DEF p

-----------------------------------------------------------------------------
(* The tree: the inductive invariant *)

(* The summary of each parent is told of the children it has. *)
ToldInv(tree, tales) ==
    \A n \in Inner(tree) : IsChildren(tree, n, tales[n])

TreeIInv ==
    /\ chunks \in Nat
    /\ indexed \in Nat
    /\ fanOut \in Nat \ {0, 1}
    /\ Whole(nodes, indexed) /\ Narrow(fanOut, nodes)
    /\ \E list : TopsInv(fanOut, nodes, list)
    /\ ToldInv(nodes, told)
    /\ Shaped(fanOut, nodes, indexed)

LEMMA NoTree ==
    ASSUME NEW fan \in Nat \ {0, 1}
    PROVE  /\ Whole(<<>>, 0) /\ Narrow(fan, <<>>)
           /\ TopsInv(fan, <<>>, <<>>) /\ ToldInv(<<>>, <<>>)
           /\ Shaped(fan, <<>>, 0)
<1>1. DOMAIN <<>> = {} /\ <<>> \in [{} -> Row]
    OBVIOUS
<1>2. TreeType(<<>>)
    BY <1>1, FS_EmptySet DEF TreeType
<1>3. Inner(<<>>) = {} /\ Leaves(<<>>) = {} /\ ChildSet(<<>>, NoNode) = {}
    BY <1>1 DEF Inner, Leaves, ChildSet
<1>4. LeavesInv(<<>>, 0)
    <2>1. 1..0 = {}
        OBVIOUS
    <2>2. QED
        BY <1>3, <2>1 DEF LeavesInv
<1>5. Whole(<<>>, 0)
    BY <1>1, <1>2, <1>3, <1>4 DEF Whole
<1>6. /\ <<>> \in Seq(DOMAIN <<>>) /\ Len(<<>>) = 0
      /\ ToSet(<<>>) = {}
    BY <1>1 DEF ToSet
<1>7. IsChildren(<<>>, NoNode, <<>>)
    <2>1. \A i \in 1..Len(<<>>) : FALSE
        BY <1>6
    <2>2. QED
        BY <1>3, <1>6, <2>1 DEF IsChildren
<1>8. Touch(<<>>, <<>>) /\ Len(<<>>) <= fan
    BY <1>6 DEF Touch
<1>9. Shaped(fan, <<>>, 0)
    <2> DEFINE levels == [j \in {0} |-> <<>>]
    <2>1. levels[0] = <<>>
        OBVIOUS
    <2> HIDE DEF levels
    <2>2. LeafOrder(<<>>, 0, levels[0])
        BY <1>6, <2>1 DEF LeafOrder
    <2>3. Cardinality(Firsts(<<>>)) = 0
        BY <1>3, FS_EmptySet DEF Firsts
    <2>4. Levelled(fan, <<>>, 0, 0, levels)
        BY <2>2, <2>3 DEF Levelled
    <2>5. Len(levels[0]) <= fan
        BY <1>6, <2>1
    <2>6. QED
        BY <2>4, <2>5 DEF Shaped
<1>10. QED
    BY <1>3, <1>5, <1>7, <1>8, <1>9 DEF TopsInv, ToldInv, Narrow

(* A tree that is published is whole, and its summaries are of the         *)
(* children its parents have.                                              *)
LEMMA Published ==
    ASSUME NEW fan \in Nat \ {0, 1},
           NEW previous, NEW was \in Nat, NEW limit, NEW tales, chunks \in Nat,
           Whole(previous, was), ToldInv(previous, tales),
           Payable(fan, previous, was, limit) # {},
           previous = <<>> \/ tales = told,
           Publish(fan, previous, was, limit)
    PROVE  /\ indexed' \in Nat /\ fanOut' = fan
           /\ Whole(nodes', indexed') /\ Narrow(fan, nodes')
           /\ \E list : TopsInv(fan, nodes', list)
           /\ ToldInv(nodes', told')
           /\ Shaped(fan, nodes', indexed')
<1> DEFINE payable == Payable(fan, previous, was, limit)
           count == Max(payable)
           p == Proposal(fan, previous, was, count)
<1>1. payable \subseteq 1..(chunks - was)
    BY DEF Payable
<1>2. payable \in SUBSET Nat /\ IsFiniteSet(payable)
    <2> HIDE DEF payable
    <2>1. PICK left \in Int : left = chunks - was
        OBVIOUS
    <2>2. IsFiniteSet(1..left)
        BY FS_Interval
    <2>3. payable \in SUBSET (1..left)
        BY <1>1, <2>1
    <2>4. IsFiniteSet(payable)
        BY <2>2, <2>3, FS_Subset
    <2>5. payable \in SUBSET Nat
        BY <2>3
    <2>6. QED
        BY <2>4, <2>5
<1>3. count \in Nat
    BY <1>2, MaxOfFinite
<1>4. /\ nodes' = p.nodes
      /\ told' = [n \in {m \in DOMAIN p.nodes : ~p.nodes[m].leaf} |->
                      IF n \in DOMAIN p.summaries THEN p.summaries[n] ELSE told[n]]
      /\ indexed' = was + count /\ fanOut' = fan
    BY DEF Publish
<1> HIDE DEF count, payable
<1>5. Proposed(fan, previous, was + count, p)
    BY <1>3, ProposalIs
<1>6. Shaped(fan, p.nodes, was + count)
    BY <1>3, ProposalShaped
<1> HIDE DEF p
<1>7. /\ Whole(nodes', indexed') /\ Narrow(fan, nodes')
      /\ \E list : TopsInv(fan, nodes', list)
    BY <1>4, <1>5 DEF Proposed
<1>8. Inner(p.nodes) = {m \in DOMAIN p.nodes : ~p.nodes[m].leaf}
    BY DEF Inner
<1>9. ASSUME NEW n \in Inner(p.nodes)
      PROVE  IsChildren(p.nodes, n, told'[n])
    <2>1. CASE n \in DOMAIN p.summaries
        <3>1. told'[n] = p.summaries[n]
            BY <1>4, <1>8, <2>1
        <3>2. QED
            BY <1>5, <2>1, <3>1 DEF Proposed
    <2>2. CASE n \notin DOMAIN p.summaries
        <3>1. told'[n] = told[n]
            BY <1>4, <1>8, <2>2
        <3>2. n \in DOMAIN previous
            BY <1>5, <2>2 DEF Proposed
        <3>3. tales = told
            BY <3>2
        <3>4. n \in Inner(previous)
            BY <1>5, <3>2 DEF Proposed
        <3>5. IsChildren(previous, n, told[n])
            BY <3>3, <3>4 DEF ToldInv
        <3>6. QED
            BY <1>5, <3>1, <3>2, <3>5 DEF Proposed
    <2>3. QED
        BY <2>1, <2>2
<1>10. QED
    BY <1>3, <1>4, <1>7, <1>9, <1>6 DEF ToldInv

(* Every state of every sequence of calls has a whole tree, whose parents  *)
(* have summaries of their children, and whose tops are few and in order.  *)
(* tree.py: plan_hierarchy; index.py: index.                               *)
THEOREM TreeInductive == TreeSpec => []TreeIInv
<1>1. TreeInit => TreeIInv
    <2> SUFFICES ASSUME TreeInit PROVE TreeIInv
        OBVIOUS
    <2>1. chunks = 0 /\ indexed = 0 /\ nodes = <<>> /\ told = <<>> /\ fanOut \in Nat \ {0, 1}
        BY TreeAssumption DEF TreeInit
    <2>2. QED
        BY <2>1, NoTree DEF TreeIInv
<1>2. TreeIInv /\ [TreeNext]_treeVars => TreeIInv'
    <2> SUFFICES ASSUME TreeIInv, [TreeNext]_treeVars PROVE TreeIInv'
        OBVIOUS
    <2>1. /\ chunks \in Nat /\ indexed \in Nat /\ fanOut \in Nat \ {0, 1}
          /\ Whole(nodes, indexed) /\ Narrow(fanOut, nodes)
          /\ \E list : TopsInv(fanOut, nodes, list)
          /\ ToldInv(nodes, told)
          /\ Shaped(fanOut, nodes, indexed)
        BY DEF TreeIInv
    <2>2. ASSUME Arrive PROVE TreeIInv'
        <3>1. /\ chunks' \in Nat /\ indexed' = indexed /\ nodes' = nodes /\ told' = told
              /\ fanOut' = fanOut
            BY <2>1, <2>2 DEF Arrive
        <3>2. QED
            BY <2>1, <3>1 DEF TreeIInv
    <2>3. ASSUME Clear PROVE TreeIInv'
        <3>1. /\ chunks' = 0 /\ indexed' = 0 /\ nodes' = <<>> /\ told' = <<>>
              /\ fanOut' \in Nat \ {0, 1}
            BY <2>3, TreeAssumption DEF Clear
        <3>2. QED
            BY <3>1, NoTree DEF TreeIInv
    <2>4. ASSUME NEW fan \in FanOuts, NEW limit \in Limits, Index(fan, limit)
          PROVE  TreeIInv'
        <3>0. fan \in Nat \ {0, 1}
            BY TreeAssumption
        <3>1. /\ Payable(fan, nodes, indexed, limit) # {}
              /\ Publish(fan, nodes, indexed, limit)
              /\ chunks' = chunks
            BY <2>4 DEF Index
        <3>2. /\ indexed' \in Nat /\ fanOut' = fan
              /\ Whole(nodes', indexed') /\ Narrow(fan, nodes')
              /\ \E list : TopsInv(fan, nodes', list)
              /\ ToldInv(nodes', told')
              /\ Shaped(fan, nodes', indexed')
            BY <2>1, <3>0, <3>1, Published
        <3>3. QED
            BY <2>1, <3>0, <3>1, <3>2 DEF TreeIInv
    <2>5. ASSUME NEW fan \in FanOuts, NEW limit \in Limits, Rebuild(fan, limit)
          PROVE  TreeIInv'
        <3>0. fan \in Nat \ {0, 1}
            BY TreeAssumption
        <3>1. /\ Payable(fan, <<>>, 0, limit) # {}
              /\ Publish(fan, <<>>, 0, limit)
              /\ chunks' = chunks
            BY <2>5 DEF Rebuild
        <3>2. /\ indexed' \in Nat /\ fanOut' = fan
              /\ Whole(nodes', indexed') /\ Narrow(fan, nodes')
              /\ \E list : TopsInv(fan, nodes', list)
              /\ ToldInv(nodes', told')
              /\ Shaped(fan, nodes', indexed')
            BY <2>1, <3>0, <3>1, NoTree, Published
        <3>3. QED
            BY <2>1, <3>0, <3>1, <3>2 DEF TreeIInv
    <2>6. ASSUME UNCHANGED treeVars PROVE TreeIInv'
        <3>1. /\ chunks' = chunks /\ indexed' = indexed /\ nodes' = nodes /\ told' = told
              /\ fanOut' = fanOut
            BY <2>6 DEF treeVars
        <3>2. QED
            BY <2>1, <3>1 DEF TreeIInv
    <2>7. QED
        BY <2>2, <2>3, <2>4, <2>5, <2>6 DEF TreeNext
<1>3. QED
    BY <1>1, <1>2, PTL DEF TreeSpec

(* The leaves of a whole tree are as many as the chunks it covers.         *)
LEMMA LeavesCounted ==
    ASSUME NEW tree, NEW done \in Nat, LeavesInv(tree, done)
    PROVE  Cardinality(Leaves(tree)) = done
<1> DEFINE list == [i \in 1..done |-> CHOOSE n \in Leaves(tree) : tree[n].first = i]
<1>0. {tree[n].first : n \in Leaves(tree)} = 1..done
    BY Zenon DEF LeavesInv
<1>1. ASSUME NEW i \in 1..done
      PROVE  list[i] \in Leaves(tree) /\ tree[list[i]].first = i
    <2>1. \E n \in Leaves(tree) : tree[n].first = i
        BY <1>0
    <2>2. QED
        BY <2>1
<1>2. \A n \in Leaves(tree) : tree[n].first \in 1..done
    BY <1>0
<1> HIDE DEF list
<1>3. \A n \in Leaves(tree) : \E i \in 1..done : list[i] = n
    BY <1>1, <1>2 DEF LeavesInv
<1>4. \A i, j \in 1..done : list[i] = list[j] => i = j
    BY <1>1
<1>5. QED
    BY <1>1, <1>3, <1>4, AsManyAsPlaces

(* The tree is whole: navigation from its tops reaches each indexed chunk  *)
(* once, in order, whatever calls with whatever fan-outs made it.          *)
(* tree.py: plan_hierarchy.                                                *)
THEOREM TreeIsAlwaysWhole == TreeSpec => []TreeIsWhole
<1>1. TreeIInv => TreeIsWhole
    <2> SUFFICES ASSUME TreeIInv PROVE TreeIsWhole
        OBVIOUS
    <2>1. indexed \in Nat /\ Whole(nodes, indexed) /\ Narrow(fanOut, nodes)
        BY DEF TreeIInv
    <2>2. InnerNodes = Inner(nodes)
        BY DEF InnerNodes, Inner
    <2>3. ASSUME NEW list
          PROVE  Adjacent(list) <=> Touch(nodes, list)
        BY DEF Adjacent, Touch
    <2>4. Len(Tops(nodes)) <= fanOut /\ Adjacent(Tops(nodes))
        <3>1. PICK list : TopsInv(fanOut, nodes, list)
            BY DEF TreeIInv
        <3>2. Tops(nodes) = list
            BY <3>1, ChildrenIs DEF TopsInv, Tops
        <3>3. QED
            BY <2>3, <3>1, <3>2 DEF TopsInv
    <2>5. \A n \in DOMAIN nodes : nodes[n].parent \in InnerNodes \cup {NoNode}
        BY <2>1, <2>2 DEF Whole
    <2>6. ASSUME NEW n \in InnerNodes, NEW list, list = Children(nodes, n)
          PROVE  /\ Len(list) \in 2..fanOut
                 /\ Adjacent(list)
                 /\ nodes[n].first = nodes[Head(list)].first
                 /\ nodes[n].last = nodes[Last(list)].last
        <3>1. PICK found : Family(nodes, n, found)
            BY <2>1, <2>2 DEF Whole
        <3>2. found = list
            BY <2>6, <3>1, ChildrenIs DEF Family
        <3>3. Covers(nodes, n, list)
            BY <3>1, <3>2 DEF Family
        <3>4. Head(list) = list[1] /\ Last(list) = list[Len(list)]
            BY DEF Last
        <3>5. Len(list) \in 2..fanOut /\ Touch(nodes, list)
            <4>1. PICK few : IsChildren(nodes, n, few) /\ Len(few) <= fanOut
                BY <2>1, <2>2 DEF Narrow
            <4>2. few = list
                BY <2>6, <4>1, ChildrenIs
            <4>3. fanOut \in Nat
                BY DEF TreeIInv
            <4>4. Len(list) \in Nat \ {0, 1} /\ Touch(nodes, list)
                BY <3>3 DEF Covers
            <4>5. Len(list) <= fanOut
                BY <4>1, <4>2
            <4>6. PICK l : l = Len(list)
                OBVIOUS
            <4>7. l \in 2..fanOut
                BY <4>3, <4>4, <4>5, <4>6
            <4>8. QED
                BY <4>4, <4>6, <4>7
        <3>6. /\ nodes[n].first = nodes[Head(list)].first
              /\ nodes[n].last = nodes[Last(list)].last
            BY <3>3, <3>4 DEF Covers
        <3>7. QED
            BY <2>3, <3>5, <3>6
    <2>7. {nodes[n].first : n \in Leaves(nodes)} = 1..indexed
        BY <2>1 DEF Whole, LeavesInv
    <2>8. Cardinality(Leaves(nodes)) = indexed
        BY <2>1, LeavesCounted DEF Whole
    <2>9. QED
        BY <2>4, <2>5, <2>6, <2>7, <2>8 DEF TreeIsWhole
<1>2. QED
    BY <1>1, TreeInductive, PTL

(* A parent is kept with its summary only under the very children that     *)
(* the summary was made of.  tree.py: reusable in plan_hierarchy.          *)
THEOREM SummariesAlwaysDescribe == TreeSpec => []SummariesDescribeChildren
<1>1. TreeIInv => SummariesDescribeChildren
    <2> SUFFICES ASSUME TreeIInv PROVE SummariesDescribeChildren
        OBVIOUS
    <2>1. InnerNodes = Inner(nodes)
        BY DEF InnerNodes, Inner
    <2>2. ASSUME NEW n \in InnerNodes
          PROVE  told[n] = Children(nodes, n)
        <3>1. IsChildren(nodes, n, told[n])
            BY <2>1 DEF TreeIInv, ToldInv
        <3>2. QED
            BY <3>1, ChildrenIs
    <2>3. QED
        BY <2>2 DEF SummariesDescribeChildren
<1>2. QED
    BY <1>1, TreeInductive, PTL

(* Under the fan-out of the published tree, a leaf, a parent at each level *)
(* and one above are paid for.                                             *)
LEMMA SameFanOutBuys ==
    ASSUME TreeIInv,
           NEW limit \in Limits, indexed < chunks, limit > Levels + 1
    PROVE  Payable(fanOut, nodes, indexed, limit) # {}
<1>1. /\ chunks \in Nat /\ indexed \in Nat /\ fanOut \in Nat \ {0, 1}
      /\ Whole(nodes, indexed) /\ Shaped(fanOut, nodes, indexed)
    BY DEF TreeIInv
<1>2. PICK h, levels :
        /\ Levelled(fanOut, nodes, indexed, h, levels)
        /\ Len(levels[h]) <= fanOut
    BY <1>1 DEF Shaped
<1>3. h \in Nat /\ h <= Cardinality(Firsts(nodes))
    BY <1>2 DEF Levelled
<1>4. Levels = Cardinality(Firsts(nodes))
    BY DEF Levels, Firsts, Inner, InnerNodes
<1>5. Levels \in Nat
    <2>1. IsFiniteSet(DOMAIN nodes) /\ Firsts(nodes) \subseteq DOMAIN nodes
        BY <1>1 DEF Whole, TreeType, Firsts, Inner
    <2>2. QED
        BY <1>4, <2>1, FS_Subset, FS_CardinalityType
<1>6. PICK c \in Nat : /\ c = Cardinality(DOMAIN Proposal(fanOut, nodes, indexed, 1).summaries)
                       /\ c <= h + 1
    BY <1>1, <1>2, <1>3, FewSummaries
<1>7. limit \in Nat
    BY TreeAssumption
<1>8. 1 + c <= limit
    BY <1>3, <1>4, <1>5, <1>6, <1>7
<1>9. 1 \in 1..(chunks - indexed)
    BY <1>1
<1>10. 1 \in Payable(fanOut, nodes, indexed, limit)
    BY <1>6, <1>8, <1>9 DEF Payable
<1>11. QED
    BY <1>10

(* Under any fan-out, at worst every leaf but one has a parent to          *)
(* summarise.                                                              *)
LEMMA AnyFanOutBuys ==
    ASSUME TreeIInv,
           NEW fan \in FanOuts, NEW limit \in Limits, indexed < chunks, limit > indexed
    PROVE  Payable(fan, nodes, indexed, limit) # {}
<1>1. chunks \in Nat /\ indexed \in Nat /\ Whole(nodes, indexed)
    BY DEF TreeIInv
<1>2. fan \in Nat \ {0, 1} /\ limit \in Nat
    BY TreeAssumption
<1>3. PICK c \in Nat : /\ c = Cardinality(DOMAIN Proposal(fan, nodes, indexed, 1).summaries)
                       /\ c <= indexed
    BY <1>1, <1>2, FewerThanLeaves
<1>4. 1 + c <= limit /\ 1 \in 1..(chunks - indexed)
    BY <1>1, <1>2, <1>3
<1>5. 1 \in Payable(fan, nodes, indexed, limit)
    BY <1>3, <1>4 DEF Payable
<1>6. QED
    BY <1>5

(* Indexing goes on with a limit above the number of indexed chunks,       *)
(* whatever the fan-out is and was, and under that of the published tree   *)
(* with a limit that pays for a leaf, a parent at each level and one       *)
(* above.  index.py: the loop that lowers count until leaves and summaries *)
(* fit.                                                                    *)
THEOREM BudgetAlwaysBuys == TreeSpec => []BudgetBuysProgress
<1>1. TreeIInv => BudgetBuysProgress
    BY SameFanOutBuys, AnyFanOutBuys DEF BudgetBuysProgress
<1>2. QED
    BY <1>1, TreeInductive, PTL
=============================================================================
