---------------------------- MODULE CatalogStore ----------------------------
(***************************************************************************)
(* The tables of a database across statements, failures and restarts:      *)
(* CREATE TABLE, DROP TABLE and INSERT as the executor runs them over      *)
(* StorageManager, catalog.meta and one file per table.                    *)
(*                                                                         *)
(* A statement that changes the catalog first changes memory and the table *)
(* file, then writes a new catalog.meta beside the old one and renames it; *)
(* the process may end in between.  The ids of files are not modelled: a   *)
(* session never uses one twice, so what the buffer pool holds for a table *)
(* is out of reach once its file is closed.                                *)
(*                                                                         *)
(* A row is the number of the CREATE TABLE it was inserted after.          *)
(***************************************************************************)
EXTENDS Integers, FiniteSets

CONSTANTS
    Tables, Schemas,
    NoTable,        \* in place of a schema: there is no such table
    MaxCreates,     \* bound: CREATE TABLE statements per table
    Faults          \* failing calls: subset of FaultKinds

\* open: fopen, fseek or ftell of a table file; readMeta: catalog.meta cannot be
\* opened or read; saveCreate, saveDrop: it cannot be written or renamed.
FaultKinds == {"open", "readMeta", "saveCreate", "saveDrop"}

ASSUME CatalogAssumption ==
    /\ NoTable \notin Schemas /\ MaxCreates \in Nat
    /\ {"unknown", "failed", "undropped"} \cap (Schemas \cup {NoTable}) = {}
    /\ Faults \subseteq FaultKinds

VARIABLES
    mem,    \* catalog: the Catalog; schemas, fileIds: StorageManager;
            \* open: the tables in PageManager; pool: their rows in the buffer pool
    disk,   \* meta: catalog.meta; files: the table files; rows: what is written in each
    stmt,   \* the statement in progress, "idle", or "down"
    told,   \* what the client was told last of each table
    births, \* CREATE TABLE statements seen by each table
    since,  \* the one after which the file of the table was last begun
    overlooked  \* of a table in a file that load() did not take, see Overlooked

vars == <<mem, disk, stmt, told, births, since, overlooked>>

\* "skipped": its entry and its file are on disk and this process runs without
\* it; "forgotten": a save of such a process has overwritten the entry;
\* "recreated": CREATE TABLE was given its name meanwhile; "no": none of these.
Overlooked == {"no", "skipped", "forgotten", "recreated"}

NoTables == [t \in Tables |-> NoTable]
NoRows == [t \in Tables |-> {}]

Statement(op, t) == [op |-> op, table |-> t]
Idle == Statement("idle", NoTable)
Down == Statement("down", NoTable)

Unloaded == [catalog |-> NoTables, schemas |-> NoTables, fileIds |-> {}, open |-> {},
             pool |-> NoRows]

Init ==
    /\ mem = Unloaded
    /\ disk = [meta |-> NoTables, files |-> {}, rows |-> NoRows]
    /\ stmt = Down
    /\ told = NoTables
    /\ births = [t \in Tables |-> 0]
    /\ since = [t \in Tables |-> 0]
    /\ overlooked = [t \in Tables |-> "no"]

\* S where the calls of this kind may fail, nothing where they do not.
IfFails(kind, S) == IF kind \in Faults THEN S ELSE {}

Tell(t, answer) == told' = [told EXCEPT ![t] = answer]

-----------------------------------------------------------------------------
\* Opening a table file.

\* The files of T are there, and empty: DiskManager::openFile creates a file it
\* cannot open, also one that exists and could not be opened just then.
Emptied(T) ==
    [disk EXCEPT !.files = @ \cup T,
                 !.rows = [t \in Tables |-> IF t \in T THEN {} ELSE @[t]]]

\* Mutated form: a table whose file is missing is loaded all the same.
LoadableAll(meta) == {t \in Tables : meta[t] # NoTable}

\* openTableFile finds the file.
Loadable(meta) == {t \in disk.files : meta[t] # NoTable}

-----------------------------------------------------------------------------
\* CREATE TABLE

\* Mutated form: the file of a dropped table is closed and left on disk.
RemovedNot(t) == disk

\* dropTableFile, fs::remove.
Removed(t) == [disk EXCEPT !.files = @ \ {t}, !.rows[t] = {}]

\* catalog_.createTable, then onCreateTable up to its call of saveCatalogMeta: a
\* file that is there already, or open already, is taken as it is.
CreateTable(t, s) ==
    /\ stmt = Idle /\ mem.catalog[t] = NoTable /\ births[t] < MaxCreates
    /\ births' = [births EXCEPT ![t] = @ + 1]
    /\ since' = [since EXCEPT ![t] = IF overlooked[t] = "no" THEN births[t] + 1 ELSE @]
    /\ overlooked' = [overlooked EXCEPT ![t] = IF @ = "no" THEN @ ELSE "recreated"]
    /\ \/ /\ mem' = [mem EXCEPT !.catalog[t] = s, !.schemas[t] = s,
                                !.fileIds = @ \cup {t}, !.open = @ \cup {t}]
          /\ \/ t \in disk.files /\ UNCHANGED disk
             \/ /\ t \notin mem.open /\ (t \in disk.files => "open" \in Faults)
                /\ disk' = Emptied({t})
          /\ stmt' = Statement("create", t)
          /\ Tell(t, "unknown")
       \/ /\ "open" \in Faults /\ t \notin mem.open
          /\ mem' = [mem EXCEPT !.schemas[t] = s]
          /\ disk' \in {disk, Emptied({t})}
          /\ Tell(t, "failed")
          /\ UNCHANGED stmt

\* Mutated form: the identifier of the closed file is kept.
DropTableKeepsId(t) ==
    /\ stmt = Idle /\ mem.catalog[t] # NoTable
    /\ mem' = [mem EXCEPT !.schemas[t] = NoTable, !.open = @ \ {t}, !.pool[t] = {}]
    /\ disk' = Removed(t)
    /\ stmt' = Statement("drop", t)
    /\ Tell(t, "unknown")
    /\ overlooked' = [overlooked EXCEPT ![t] = "no"]
    /\ UNCHANGED <<births, since>>

\* DROP TABLE: onDropTable up to its call of saveCatalogMeta.
DropTable(t) ==
    /\ stmt = Idle /\ mem.catalog[t] # NoTable
    /\ mem' = [mem EXCEPT !.schemas[t] = NoTable, !.fileIds = @ \ {t}, !.open = @ \ {t},
                          !.pool[t] = {}]
    /\ disk' = Removed(t)
    /\ stmt' = Statement("drop", t)
    /\ Tell(t, "unknown")
    /\ overlooked' = [overlooked EXCEPT ![t] = "no"]
    /\ UNCHANGED <<births, since>>

-----------------------------------------------------------------------------
\* saveCatalogMeta, and what the executor makes of its answer.

\* Mutated form: the temporary file is written, and never renamed.
SavedNot == disk

\* catalog.meta is replaced at once by all of schemas_.
Saved == [disk EXCEPT !.meta = mem.schemas]

SaveSucceeds ==
    LET t == stmt.table
    IN  /\ stmt.op \in {"create", "drop"}
        /\ disk' = Saved
        /\ stmt' = Idle
        /\ \/ /\ stmt.op = "create"
              /\ Tell(t, mem.catalog[t])
              /\ UNCHANGED mem
           \/ /\ stmt.op = "drop"
              /\ mem' = [mem EXCEPT !.catalog[t] = NoTable]
              /\ Tell(t, NoTable)
        /\ overlooked' = [u \in Tables |->
                             IF overlooked[u] = "skipped" /\ mem.schemas[u] = NoTable
                             THEN "forgotten" ELSE overlooked[u]]
        /\ UNCHANGED <<births, since>>

\* The executor takes a table it failed to create out of the catalog, and leaves
\* one it failed to drop there.
SaveFails ==
    LET t == stmt.table
    IN  /\ \/ /\ stmt.op = "create" /\ "saveCreate" \in Faults
              /\ mem' = [mem EXCEPT !.catalog[t] = NoTable]
              /\ Tell(t, "failed")
           \/ /\ stmt.op = "drop" /\ "saveDrop" \in Faults
              /\ Tell(t, "undropped")
              /\ UNCHANGED mem
        /\ stmt' = Idle
        /\ UNCHANGED <<disk, births, since, overlooked>>

-----------------------------------------------------------------------------
\* Rows, and the life of the process.

Usable(t) == mem.catalog[t] # NoTable /\ t \in mem.fileIds

InsertRow(t) ==
    /\ stmt = Idle /\ Usable(t)
    /\ mem' = [mem EXCEPT !.pool[t] = @ \cup {births[t]}]
    /\ UNCHANGED <<disk, stmt, told, births, since, overlooked>>

WrittenBack(T) ==
    [disk EXCEPT !.rows = [t \in Tables |-> IF t \in T THEN @[t] \cup mem.pool[t] ELSE @[t]]]

\* The buffer pool evicts the pages of a table.
Evict(t) ==
    /\ stmt = Idle /\ t \in mem.open
    /\ disk' = WrittenBack({t})
    /\ UNCHANGED <<mem, stmt, told, births, since, overlooked>>

\* The end of main: the buffer pool is flushed, the files are closed.
Quit ==
    /\ stmt = Idle
    /\ disk' = WrittenBack(mem.open)
    /\ mem' = Unloaded
    /\ stmt' = Down
    /\ UNCHANGED <<told, births, since, overlooked>>

\* Also what an exception of fs::remove does: nobody catches it.
Crash ==
    /\ stmt # Down
    /\ mem' = Unloaded
    /\ stmt' = Down
    /\ UNCHANGED <<disk, told, births, since, overlooked>>

\* load(): schemas_ is what is read of catalog.meta, nothing when it cannot be
\* read, and main goes on all the same.  A table whose file is missing or does
\* not open stays in schemas_ only.  An answer that never came is learnt by
\* asking, unless the table is skipped.
Start ==
    /\ stmt = Down /\ stmt' = Idle
    /\ \E read \in {disk.meta} \cup IfFails("readMeta", {NoTables}) :
       \E skipped \in SUBSET IfFails("open", Loadable(read)) :
       \E emptied \in SUBSET IfFails("open", Loadable(read)) :
          LET opened == Loadable(read) \ skipped
          IN  /\ mem' = [catalog |-> [t \in Tables |->
                                        IF t \in opened THEN read[t] ELSE NoTable],
                         schemas |-> read, fileIds |-> opened, open |-> opened,
                         pool |-> NoRows]
              /\ disk' = Emptied(emptied)
              /\ overlooked' = [t \in Tables |->
                                   CASE t \in opened -> "no"
                                     [] t \in Loadable(disk.meta) \ opened -> "skipped"
                                     [] OTHER -> overlooked[t]]
    /\ told' = [t \in Tables |-> IF told[t] = "unknown" /\ overlooked'[t] # "skipped"
                                 THEN mem'.catalog[t] ELSE told[t]]
    /\ UNCHANGED <<births, since>>

Next ==
    \/ \E t \in Tables, s \in Schemas : CreateTable(t, s)
    \/ \E t \in Tables : DropTable(t) \/ InsertRow(t) \/ Evict(t)
    \/ SaveSucceeds \/ SaveFails
    \/ Quit \/ Crash \/ Start

Spec == Init /\ [][Next]_vars

-----------------------------------------------------------------------------

MaybeSchema == Schemas \cup {NoTable}
Births == 0 .. MaxCreates

\* The shapes of memory, disk and answers; StorageManager only keeps the
\* identifiers of files that PageManager has open.
TypeOK ==
    /\ mem \in [catalog : [Tables -> MaybeSchema], schemas : [Tables -> MaybeSchema],
                fileIds : SUBSET mem.open, open : SUBSET Tables,
                pool : [Tables -> SUBSET Births]]
    /\ disk \in [meta : [Tables -> MaybeSchema], files : SUBSET Tables,
                 rows : [Tables -> SUBSET Births]]
    /\ stmt \in [op : {"idle", "down", "create", "drop"}, table : Tables \cup {NoTable}]
    /\ told \in [Tables -> MaybeSchema \cup {"unknown", "failed", "undropped"}]
    /\ births \in [Tables -> Births] /\ since \in [Tables -> Births]
    /\ overlooked \in [Tables -> Overlooked]

\* The table is as the client was told: there with its schema and usable, or
\* not there.
AsTold(t) ==
    /\ mem.catalog[t] = told[t]
    /\ told[t] # NoTable => Usable(t) /\ t \in disk.files

\* What a client was told of a table by a statement that completed stays true,
\* across other statements, failures and restarts: a table that was created is
\* there with its schema and can be used, one that was dropped is not.
\*
\* There are two exceptions, both of load() going on without a word
\* (storage_manager.cpp:198-199 and :106, main.cpp:50).  A table whose file
\* did not open, or of a catalog.meta that could not be read, is missing while
\* the process runs, and its entry and its file wait for the next start; and
\* once a process that could not read catalog.meta saves it, the entry is lost
\* and only the file remains.
\*
\* A table whose DROP failed to save (executor.cpp:99-103) is neither: it
\* cannot be used, and its file and rows never come back.
AnswersHold ==
    stmt = Idle =>
        \A t \in Tables :
            /\ told[t] \in MaybeSchema =>
                  \/ AsTold(t)
                  \/ /\ overlooked[t] = "skipped" /\ mem.catalog[t] = NoTable
                     /\ disk.meta[t] = told[t] /\ t \in disk.files
                  \/ /\ overlooked[t] = "forgotten" /\ mem.catalog[t] = NoTable
                     /\ t \in disk.files
            /\ told[t] = "undropped" =>
                  /\ ~Usable(t) /\ t \notin disk.files
                  /\ mem.pool[t] \cup disk.rows[t] = {}

\* A table only holds rows inserted since it was created: a file that CREATE
\* TABLE finds on disk (storage_manager.cpp:220-223) never brings rows of an
\* earlier table of that name back, with one exception.  A table that is
\* created while an earlier one of its name is overlooked, which CREATE TABLE
\* cannot tell from a leftover file, holds that one's rows as well, and no
\* others; it does so until it is dropped.
RowsOfThisTable ==
    \A t \in Tables :
        mem.catalog[t] # NoTable =>
            mem.pool[t] \cup disk.rows[t] \subseteq since[t] .. births[t]

\* "Disk creation failed - rollback catalog change" (executor.cpp:70): a table
\* whose creation failed does not exist afterwards.
FailedCreateLeavesNothing ==
    \A t \in Tables : told[t] = "failed" => mem.catalog[t] = NoTable
=============================================================================
