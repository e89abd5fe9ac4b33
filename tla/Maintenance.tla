----------------------------- MODULE Maintenance -----------------------------
(***************************************************************************)
(* One store file, the processes that open it, and the two operations that *)
(* rewrite it: migrate() from schema 1, which an older SDK wrote, and      *)
(* rebuild_search_index().  SQLite's writer lock excludes other writers    *)
(* from BEGIN IMMEDIATE to COMMIT, and a crash leaves the committed file.  *)
(*                                                                         *)
(* A message is its sequence number.  fts and map give the message of each *)
(* row of message_fts and of lexical_message_meta.                         *)
(***************************************************************************)
EXTENDS Integers, FiniteSetsExt

CONSTANTS
    Processes,      \* programs that use the file
    Paths,          \* backup paths, each in a directory of its own
    NoProcess,      \* nobody holds the writer lock
    Gone,           \* a table that is not there
    MaxSeq,         \* bound on sequence numbers
    MaxRevision     \* bound on history_revision

ASSUME MaintenanceAssumption ==
    /\ NoProcess \notin Processes
    /\ MaxSeq \in Nat
    /\ MaxRevision \in Nat

VARIABLES
    disk,       \* the committed store
    backups,    \* what is at each backup path
    writer,     \* the process in a write transaction
    pc,         \* where each process is
    path,       \* the backup path of the maintenance under way
    replaced    \* history: the store that the maintenance with each path replaced

vars == <<disk, backups, writer, pc, path, replaced>>

(* What a path of the file system holds, when it is not a store: nothing,  *)
(* an empty file, or a database without tables.                            *)
File(kind) == [schema |-> 0, kind |-> kind]
NoFile == File("none")
EmptyFile == File("empty")
NoTables == File("no tables")
IsStore(s) == s.schema # 0

-----------------------------------------------------------------------------
(* The search tables. *)

Rows(table) == IF table = Gone THEN {} ELSE DOMAIN table
Top(table) == Max(Rows(table) \cup {0})

(* A table that gives every message a row of its own, and no other. *)
Complete(table, messages) ==
    /\ table # Gone
    /\ {table[r] : r \in Rows(table)} = messages
    /\ Cardinality(Rows(table)) = Cardinality(messages)

InOrder(messages) ==
    [r \in 1..Cardinality(messages) |->
        CHOOSE m \in messages : Cardinality({n \in messages : n <= m}) = r]

(* preserve_rebuild_rowids: the first complete table keeps its numbers. *)
Rowids(s) ==
    CASE Complete(s.fts, s.messages) -> s.fts
      [] ~Complete(s.fts, s.messages) /\ Complete(s.map, s.messages) -> s.map
      [] OTHER -> InOrder(s.messages)

(* Variant: the revision of the search tables is not looked at. *)
CurrentBySchema(s) == s.schema = 2 /\ s.map # Gone

(* assert_search_metadata *)
Current(s) == s.schema = 2 /\ s.revision = s.searchRevision /\ s.map # Gone

(* validate_search_metadata, without and with the map *)
ValidFts(s) == Complete(s.fts, s.messages)
ValidMap(s) == s.map = s.fts

NewStore == [schema |-> 2, messages |-> {}, next |-> 1, revision |-> 0,
             searchRevision |-> 0, fts |-> <<>>, map |-> <<>>, damaged |-> FALSE]

(* The store a migrate() or a rebuild leaves: the map is filled from fts.  *)
Migrated(s) == [s EXCEPT !.schema = 2, !.map = s.fts, !.searchRevision = s.revision]
Rebuilt(s) == [s EXCEPT !.fts = Rowids(s), !.map = Rowids(s),
                        !.searchRevision = s.revision, !.damaged = FALSE]

Added(s, table) ==
    LET new == Top(s.fts) + 1 IN
        [r \in DOMAIN table \cup {new} |-> IF r = new THEN s.next ELSE table[r]]

(* One batch of ingest() or import_history(): here, one message. *)
AfterWrite(s) ==
    [s EXCEPT !.messages = @ \cup {s.next}, !.next = @ + 1, !.revision = @ + 1,
              !.searchRevision = @ + 1, !.fts = Added(s, @), !.map = Added(s, @)]

AfterClear(s) ==
    [s EXCEPT !.messages = {}, !.revision = @ + 1, !.searchRevision = @ + 1,
              !.fts = <<>>, !.map = <<>>, !.damaged = FALSE]

(* The older SDK knows neither the map nor its revision. *)
AfterOldWrite(s) ==
    [s EXCEPT !.messages = @ \cup {s.next}, !.next = @ + 1, !.revision = @ + 1,
              !.fts = Added(s, @)]
AfterOldClear(s) ==
    [s EXCEPT !.messages = {}, !.revision = @ + 1, !.fts = <<>>]

-----------------------------------------------------------------------------
OldStore == [schema |-> 1, messages |-> {1}, next |-> 2, revision |-> 1,
             searchRevision |-> 0, fts |-> <<1>>, map |-> Gone, damaged |-> FALSE]

MaintenanceInit ==
    /\ disk \in {NoFile, OldStore}
    /\ backups = [b \in Paths |-> NoFile]
    /\ writer = NoProcess
    /\ pc = [p \in Processes |-> "idle"]
    /\ path = Gone
    /\ replaced = [b \in Paths |-> NoFile]

At(p, here) == pc[p] = here
Goto(p, there) == pc' = [pc EXCEPT ![p] = there]
Committed(store) == disk' = store /\ UNCHANGED <<backups, replaced>>
NothingWritten == UNCHANGED <<disk, backups, replaced>>

-----------------------------------------------------------------------------
(* open() *)

(* What the file is, then the connection, which creates an empty file. *)
Open(p) ==
    /\ At(p, "idle")
    /\ IF disk = NoFile THEN Committed(EmptyFile) ELSE NothingWritten
    /\ Goto(p, IF disk \in {NoFile, EmptyFile} THEN "fresh" ELSE "resume")
    /\ UNCHANGED <<writer, path>>

(* PRAGMA journal_mode=WAL writes the first page of an empty file. *)
SetJournal(p) ==
    /\ At(p, "fresh")
    /\ writer = NoProcess
    /\ IF disk = EmptyFile THEN Committed(NoTables) ELSE NothingWritten
    /\ Goto(p, "initialise")
    /\ UNCHANGED <<writer, path>>

(* _init_fresh: a second row of store_meta is refused. *)
InitFresh(p) ==
    /\ At(p, "initialise")
    /\ writer = NoProcess
    /\ IF IsStore(disk)
          THEN NothingWritten /\ Goto(p, "idle")
          ELSE Committed(NewStore) /\ Goto(p, "open")
    /\ UNCHANGED <<writer, path>>

(* _resume_existing: it reads store_meta, which must be there, of this     *)
(* version, with a current map.                                            *)
ResumeExisting(p) ==
    /\ At(p, "resume")
    /\ Goto(p, IF IsStore(disk) /\ Current(disk) THEN "open" ELSE "idle")
    /\ NothingWritten
    /\ UNCHANGED <<writer, path>>

(* What a process with an open store does, and its aclose(). *)
Use(p) ==
    /\ At(p, "open")
    /\ writer = NoProcess
    /\ Current(disk)
    /\ disk.revision < MaxRevision
    /\ \/ disk.fts # Gone /\ disk.next <= MaxSeq /\ Committed(AfterWrite(disk))
       \/ disk.fts # Gone /\ Committed(AfterClear(disk))
    /\ UNCHANGED <<writer, pc, path>>

Close(p) ==
    /\ pc[p] \in {"open", "old"}
    /\ Goto(p, "idle")
    /\ NothingWritten
    /\ UNCHANGED <<writer, path>>

(* The older SDK opens stores of schema 1 only, and keeps them open. *)
OldOpen(p) ==
    /\ At(p, "idle")
    /\ disk.schema = 1
    /\ Goto(p, "old")
    /\ NothingWritten
    /\ UNCHANGED <<writer, path>>

OldUse(p) ==
    /\ At(p, "old")
    /\ writer = NoProcess
    /\ disk.fts # Gone
    /\ disk.revision < MaxRevision
    /\ \/ disk.next <= MaxSeq /\ Committed(AfterOldWrite(disk))
       \/ Committed(AfterOldClear(disk))
    /\ UNCHANGED <<writer, pc, path>>

(* A search table is lost, or loses a row. *)
Damage ==
    /\ disk.schema = 2
    /\ ~disk.damaged
    /\ writer = NoProcess
    /\ disk.fts # Gone /\ disk.map # Gone
    /\ \E broken \in {Gone} \cup {[r \in Rows(disk.fts) \ {lost} |-> disk.fts[r]] :
                                    lost \in Rows(disk.fts)} :
          \/ Committed([disk EXCEPT !.fts = broken, !.damaged = TRUE])
          \/ Committed([disk EXCEPT !.map = broken, !.damaged = TRUE])
    /\ UNCHANGED <<writer, pc, path>>

-----------------------------------------------------------------------------
(* _maintain_search_metadata *)

(* A rebuild runs on schema 2 and a migration on schema 1; a migrate() of a *)
(* store of schema 2 only validates it.                                    *)
Maintained(s) == IF s.schema = 2 THEN Rebuilt(s) ELSE Migrated(s)

Ended(p) == Goto(p, "idle") /\ writer' = NoProcess /\ path' = Gone

(* BEGIN IMMEDIATE, and the check of the version under it. *)
Begin(p) ==
    /\ At(p, "idle")
    /\ writer = NoProcess
    /\ IsStore(disk)
    /\ path' \in Paths
    /\ writer' = p
    /\ Goto(p, "reserve")
    /\ NothingWritten

(* Variant: a file that is already there is opened. *)
ReserveBackupOver(p) ==
    /\ At(p, "reserve")
    /\ backups' = [backups EXCEPT ![path] = EmptyFile]
    /\ Goto(p, "copy")
    /\ UNCHANGED <<disk, writer, path, replaced>>

(* os.open(backup, O_CREAT | O_EXCL) *)
ReserveBackup(p) ==
    /\ At(p, "reserve")
    /\ backups[path] = NoFile
    /\ backups' = [backups EXCEPT ![path] = EmptyFile]
    /\ Goto(p, "copy")
    /\ UNCHANGED <<disk, writer, path, replaced>>

(* VACUUM INTO, through a reader's connection. *)
CopyStore(p) ==
    /\ At(p, "copy")
    /\ backups' = [backups EXCEPT ![path] = disk]
    /\ Goto(p, "rewrite")
    /\ UNCHANGED <<disk, writer, path, replaced>>

(* The validations, the rewriting and COMMIT. *)
Commit(p) ==
    /\ At(p, "rewrite")
    /\ disk.schema = 2 \/ ValidFts(disk)
    /\ LET new == Maintained(disk) IN
          /\ ValidFts(new) /\ ValidMap(new) /\ Current(new)
          /\ disk' = new
    /\ replaced' = [replaced EXCEPT ![path] = disk]
    /\ Ended(p)
    /\ UNCHANGED backups

(* A refusal, an error or a cancellation: ROLLBACK.  The backup stays. *)
Fail(p) ==
    /\ writer = p
    /\ Ended(p)
    /\ NothingWritten

(* The process dies, wherever it is. *)
Die(p) ==
    /\ ~At(p, "idle")
    /\ IF writer = p THEN Ended(p) ELSE Goto(p, "idle") /\ UNCHANGED <<writer, path>>
    /\ NothingWritten

MaintenanceNext ==
    \/ Damage
    \/ \E p \in Processes :
          \/ Open(p) \/ SetJournal(p) \/ InitFresh(p) \/ ResumeExisting(p)
          \/ Use(p) \/ Close(p) \/ OldOpen(p) \/ OldUse(p)
          \/ Begin(p) \/ ReserveBackup(p) \/ CopyStore(p) \/ Commit(p)
          \/ Fail(p) \/ Die(p)

Spec == MaintenanceInit /\ [][MaintenanceNext]_vars

-----------------------------------------------------------------------------
(* A store that open(), search and the writers accept gives every message  *)
(* its row, and the same in both tables, unless its file was damaged from  *)
(* outside: whatever migrations, rebuilds, failures, crashes and writers   *)
(* of the older SDK, with handles from before a migration, did to it.      *)
(* search_metadata.py: assert_search_metadata, which never looks at rows.  *)
AcceptedIsExact ==
    IsStore(disk) /\ Current(disk) /\ ~disk.damaged
        => ValidFts(disk) /\ ValidMap(disk)

(* The backup of a maintenance that changed the store is, for good, the    *)
(* store as it was up to the commit: no message that another process wrote *)
(* meanwhile is missing in it, and no later call writes over it.           *)
(* store.py: _maintain_search_metadata.                                    *)
BackupIsWhatWasReplaced ==
    \A b \in Paths : replaced[b] # NoFile => backups[b] = replaced[b]
=============================================================================
