------------------------- MODULE CatalogStoreProofs -------------------------
(***************************************************************************)
(* Proofs about CatalogStore, for any tables, schemas and failures: the    *)
(* answers clients were given stay true across restarts, and a table only  *)
(* holds its own rows.                                                     *)
(*                                                                         *)
(* Neither invariant is inductive: both speak of a running process, and    *)
(* what a restart finds is on disk.  IInv adds what catalog.meta and the   *)
(* files hold for every answer and every row, how schemas_ and the Catalog *)
(* agree, and what a statement in progress has done so far.                *)
(***************************************************************************)
EXTENDS CatalogStore, TLAPS

Up == stmt # Down

\* Identifiers are those of open files, which exist and have a schema.
HandlesOK ==
    /\ mem.fileIds = mem.open
    /\ mem.open \subseteq disk.files
    /\ \A t \in mem.open : mem.schemas[t] # NoTable

\* A usable table of the Catalog has the same schema in schemas_ and, once its
\* creation is saved, in catalog.meta.
CatalogOK ==
    \A t \in mem.open :
        mem.catalog[t] # NoTable =>
            /\ mem.schemas[t] = mem.catalog[t]
            /\ stmt # Statement("create", t) => disk.meta[t] = mem.catalog[t]

\* A table a client was told of is on disk with its schema, and in memory when
\* the process runs and has not skipped it; or it was forgotten, and neither
\* catalog.meta nor memory knows it.  The file of a table whose DROP was begun
\* is gone.
AnswerOf(t) ==
    /\ told[t] \in Schemas /\ overlooked[t] # "forgotten" =>
           /\ disk.meta[t] = told[t] /\ t \in disk.files
           /\ Up /\ overlooked[t] # "skipped" => mem.catalog[t] = told[t] /\ t \in mem.open
           /\ Up /\ overlooked[t] = "skipped" =>
                  mem.catalog[t] = NoTable /\ mem.schemas[t] \in {told[t], NoTable}
    /\ told[t] \in Schemas /\ overlooked[t] = "forgotten" =>
           /\ disk.meta[t] = NoTable /\ t \in disk.files
           /\ Up => mem.catalog[t] = NoTable /\ mem.schemas[t] = NoTable
    /\ told[t] = NoTable =>
           /\ disk.meta[t] = NoTable \/ t \notin disk.files
           /\ Up => /\ mem.catalog[t] = NoTable
                    /\ mem.schemas[t] = NoTable \/ t \notin disk.files
    /\ told[t] = "undropped" => t \notin disk.files

AnswersOK == \A t \in Tables : AnswerOf(t)

\* What a statement in progress has done before it saves.
StatementOK ==
    \/ stmt = Idle
    \/ stmt = Down /\ mem = Unloaded
    \/ \E t \in Tables :
          /\ told[t] = "unknown" /\ overlooked[t] \in {"no", "recreated"}
          /\ \/ stmt = Statement("create", t) /\ mem.catalog[t] # NoTable /\ t \in mem.open
             \/ stmt = Statement("drop", t) /\ mem.schemas[t] = NoTable /\ t \notin disk.files

\* Rows are of the last table of their name, or of one it was created over.
\* They are in a file of a table that is in catalog.meta or was overlooked, and
\* that the running process uses unless it was overlooked.
RowsOf(t) ==
    /\ since[t] <= births[t]
    /\ mem.pool[t] \cup disk.rows[t] \subseteq since[t] .. births[t]
    /\ disk.rows[t] # {} =>
           /\ t \in disk.files
           /\ disk.meta[t] # NoTable \/ overlooked[t] \in {"forgotten", "recreated"}
    /\ mem.pool[t] # {} =>
           mem.catalog[t] # NoTable /\ t \in mem.open /\ stmt # Statement("create", t)
    /\ Up /\ overlooked[t] = "no" /\ disk.rows[t] # {} =>
           mem.catalog[t] # NoTable /\ t \in mem.open /\ stmt # Statement("create", t)

RowsOK == \A t \in Tables : RowsOf(t)

IInv == TypeOK /\ HandlesOK /\ CatalogOK /\ AnswersOK /\ StatementOK /\ RowsOK

-----------------------------------------------------------------------------
\* What IInv assumes holds at the start.
LEMMA InitInv == Init => IInv
<1> SUFFICES ASSUME Init PROVE IInv
  OBVIOUS
<1>1. TypeOK
  BY CatalogAssumption DEF Init, TypeOK, Unloaded, NoTables, NoRows, Down, Statement,
     MaybeSchema, Births, Overlooked
<1>2. HandlesOK /\ CatalogOK /\ StatementOK
  BY DEF Init, HandlesOK, CatalogOK, StatementOK, Unloaded
<1>3. AnswersOK
  BY CatalogAssumption DEF Init, AnswersOK, AnswerOf, NoTables, Up
<1>4. RowsOK
  BY DEF Init, RowsOK, RowsOf, NoRows, Unloaded, Up
<1> QED
  BY <1>1, <1>2, <1>3, <1>4 DEF IInv

-----------------------------------------------------------------------------
\* Opening files that are there, or creating them, changes nothing else.
LEMMA EmptiedType ==
    ASSUME TypeOK, NEW T \in SUBSET Tables
    PROVE  /\ Emptied(T) \in [meta : [Tables -> MaybeSchema], files : SUBSET Tables,
                              rows : [Tables -> SUBSET Births]]
           /\ Emptied(T).meta = disk.meta /\ Emptied(T).files = disk.files \cup T
           /\ \A u \in Tables :
                 Emptied(T).rows[u] = IF u \in T THEN {} ELSE disk.rows[u]
  BY DEF TypeOK, Emptied

\* CREATE TABLE, whether or not its file can be opened, keeps IInv.
LEMMA CreateInv ==
    ASSUME IInv, NEW t \in Tables, NEW s \in Schemas, CreateTable(t, s)
    PROVE  IInv'
<1> USE DEF IInv
<1>0. /\ stmt = Idle /\ mem.catalog[t] = NoTable /\ births[t] < MaxCreates
      /\ births' = [births EXCEPT ![t] = @ + 1]
      /\ since' = [since EXCEPT ![t] = IF overlooked[t] = "no" THEN births[t] + 1 ELSE @]
      /\ overlooked' = [overlooked EXCEPT ![t] = IF @ = "no" THEN @ ELSE "recreated"]
      /\ s # NoTable /\ s # "unknown" /\ s # "failed" /\ s # "undropped"
  BY CatalogAssumption DEF CreateTable
<1>1. /\ mem.pool[t] = {}
      /\ overlooked[t] = "no" => disk.rows[t] = {}
      /\ disk.rows[t] # {} => t \in disk.files
      /\ disk.rows[t] \subseteq since[t] .. births[t]
      /\ since[t] <= births[t]
  BY <1>0 DEF RowsOK, RowsOf, Up, Idle, Down, Statement
<1>2. /\ births[t] \in Nat /\ since[t] \in Nat /\ births[t] + 1 \in Births
      /\ births'[t] = births[t] + 1
      /\ since'[t] = IF overlooked[t] = "no" THEN births[t] + 1 ELSE since[t]
      /\ overlooked'[t] = IF overlooked[t] = "no" THEN "no" ELSE "recreated"
      /\ since'[t] \in Births
      /\ \A u \in Tables \ {t} : /\ births'[u] = births[u] /\ since'[u] = since[u]
                                 /\ overlooked'[u] = overlooked[u]
  BY <1>0, CatalogAssumption DEF TypeOK, Births
<1>3. /\ births' \in [Tables -> Births] /\ since' \in [Tables -> Births]
      /\ overlooked' \in [Tables -> Overlooked]
  BY <1>0, <1>2 DEF TypeOK, Overlooked
<1>4. /\ disk' = disk \/ disk' = Emptied({t})
      /\ disk' \in [meta : [Tables -> MaybeSchema], files : SUBSET Tables,
                    rows : [Tables -> SUBSET Births]]
      /\ disk'.meta = disk.meta
      /\ disk'.files = disk.files \/ disk'.files = disk.files \cup {t}
      /\ disk'.rows[t] \subseteq disk.rows[t]
      /\ \A u \in Tables \ {t} : disk'.rows[u] = disk.rows[u]
  <2>1. disk' = disk \/ disk' = Emptied({t})
    BY DEF CreateTable
  <2>2. /\ Emptied({t}) \in [meta : [Tables -> MaybeSchema], files : SUBSET Tables,
                             rows : [Tables -> SUBSET Births]]
        /\ Emptied({t}).meta = disk.meta /\ Emptied({t}).files = disk.files \cup {t}
        /\ \A u \in Tables :
              Emptied({t}).rows[u] = IF u \in {t} THEN {} ELSE disk.rows[u]
    BY EmptiedType
  <2> QED
    BY <2>1, <2>2 DEF TypeOK
<1>5. mem.pool[t] \cup disk'.rows[t] \subseteq since'[t] .. births'[t]
  <2>1. CASE overlooked[t] = "no"
    BY <1>1, <1>4, <2>1
  <2>2. CASE overlooked[t] # "no"
    <3>1. since[t] .. births[t] \subseteq since'[t] .. births'[t]
      BY <1>2, <2>2
    <3> QED
      BY <1>1, <1>4, <3>1
  <2> QED
    BY <2>1, <2>2
<1>6. since'[t] <= births'[t]
  BY <1>1, <1>2
<1>7. CASE /\ mem' = [mem EXCEPT !.catalog[t] = s, !.schemas[t] = s,
                                 !.fileIds = @ \cup {t}, !.open = @ \cup {t}]
           /\ \/ t \in disk.files /\ UNCHANGED disk
              \/ /\ t \notin mem.open /\ (t \in disk.files => "open" \in Faults)
                 /\ disk' = Emptied({t})
           /\ stmt' = Statement("create", t)
           /\ Tell(t, "unknown")
  <2>1. /\ mem'.catalog = [mem.catalog EXCEPT ![t] = s]
        /\ mem'.schemas = [mem.schemas EXCEPT ![t] = s]
        /\ mem'.fileIds = mem.fileIds \cup {t} /\ mem'.open = mem.open \cup {t}
        /\ mem'.pool = mem.pool
        /\ told' = [told EXCEPT ![t] = "unknown"]
    BY <1>7 DEF TypeOK, Tell
  <2>a. disk'.files = disk.files \cup {t}
    BY <1>7, EmptiedType
  <2>2. TypeOK'
    <3>1. mem' \in [catalog : [Tables -> MaybeSchema], schemas : [Tables -> MaybeSchema],
                    fileIds : SUBSET mem'.open, open : SUBSET Tables,
                    pool : [Tables -> SUBSET Births]]
      BY <1>7, <2>1 DEF TypeOK, MaybeSchema
    <3> QED
      BY <1>3, <1>4, <1>7, <2>1, <3>1 DEF TypeOK, Statement
  <2>3. HandlesOK'
    BY <1>0, <2>1, <2>a DEF HandlesOK, TypeOK
  <2>4. CatalogOK'
    BY <1>0, <1>4, <1>7, <2>1 DEF CatalogOK, TypeOK, Idle, Statement
  <2>5. AnswersOK'
    <3> SUFFICES ASSUME NEW u \in Tables
                 PROVE  AnswerOf(u)'
      BY DEF AnswersOK
    <3>1. CASE u = t
      BY <2>1, <3>1, CatalogAssumption DEF AnswerOf, TypeOK
    <3>2. CASE u # t
      <4>1. /\ told'[u] = told[u] /\ overlooked'[u] = overlooked[u]
            /\ mem'.catalog[u] = mem.catalog[u] /\ mem'.schemas[u] = mem.schemas[u]
            /\ u \in mem'.open <=> u \in mem.open
            /\ u \in disk'.files <=> u \in disk.files
        BY <1>2, <2>1, <2>a, <3>2 DEF TypeOK
      <4>2. AnswerOf(u) /\ Up
        BY <1>0 DEF AnswersOK, Up, Idle, Down, Statement
      <4> QED
        BY <1>4, <4>1, <4>2 DEF AnswerOf, Up
    <3> QED
      BY <3>1, <3>2
  <2>6. StatementOK'
    BY <1>0, <1>2, <1>7, <2>1 DEF StatementOK, TypeOK
  <2>7. RowsOK'
    <3> SUFFICES ASSUME NEW u \in Tables
                 PROVE  RowsOf(u)'
      BY DEF RowsOK
    <3>1. CASE u = t
      <4>1. overlooked'[t] = "no" => disk'.rows[t] = {}
        BY <1>1, <1>2, <1>4
      <4>2. /\ t \in disk'.files
            /\ overlooked'[t] # "no" => overlooked'[t] \in {"forgotten", "recreated"}
        BY <1>2, <2>a
      <4> QED
        BY <1>1, <1>5, <1>6, <2>1, <3>1, <4>1, <4>2 DEF RowsOf
    <3>2. CASE u # t
      <4>1. /\ overlooked'[u] = overlooked[u] /\ since'[u] = since[u] /\ births'[u] = births[u]
            /\ mem'.catalog[u] = mem.catalog[u] /\ mem'.pool[u] = mem.pool[u]
            /\ u \in mem'.open <=> u \in mem.open
            /\ u \in disk'.files <=> u \in disk.files
            /\ disk'.rows[u] = disk.rows[u] /\ disk'.meta[u] = disk.meta[u]
        BY <1>2, <1>4, <2>1, <2>a, <3>2 DEF TypeOK
      <4>2. RowsOf(u) /\ Up /\ stmt' # Statement("create", u)
        BY <1>0, <1>7, <3>2 DEF RowsOK, Up, Idle, Down, Statement
      <4> QED
        BY <4>1, <4>2 DEF RowsOf
    <3> QED
      BY <3>1, <3>2
  <2> QED
    BY <2>2, <2>3, <2>4, <2>5, <2>6, <2>7
<1>8. CASE /\ "open" \in Faults /\ t \notin mem.open
           /\ mem' = [mem EXCEPT !.schemas[t] = s]
           /\ disk' \in {disk, Emptied({t})}
           /\ Tell(t, "failed")
           /\ UNCHANGED stmt
  <2>1. /\ mem'.catalog = mem.catalog
        /\ mem'.schemas = [mem.schemas EXCEPT ![t] = s]
        /\ mem'.fileIds = mem.fileIds /\ mem'.open = mem.open
        /\ mem'.pool = mem.pool
        /\ told' = [told EXCEPT ![t] = "failed"]
    BY <1>8 DEF TypeOK, Tell
  <2>a. disk'.rows[t] # {} => t \in disk'.files
    BY <1>1, <1>4
  <2>2. TypeOK'
    BY <1>3, <1>4, <1>8, <2>1 DEF TypeOK, MaybeSchema
  <2>3. HandlesOK' /\ CatalogOK'
    BY <1>0, <1>4, <1>8, <2>1 DEF HandlesOK, CatalogOK, TypeOK
  <2>4. AnswersOK'
    <3> SUFFICES ASSUME NEW u \in Tables
                 PROVE  AnswerOf(u)'
      BY DEF AnswersOK
    <3>1. CASE u = t
      BY <2>1, <3>1, CatalogAssumption DEF AnswerOf, TypeOK
    <3>2. CASE u # t
      <4>1. /\ told'[u] = told[u] /\ overlooked'[u] = overlooked[u]
            /\ mem'.catalog[u] = mem.catalog[u] /\ mem'.schemas[u] = mem.schemas[u]
            /\ mem'.open = mem.open /\ stmt' = stmt
            /\ u \in disk'.files <=> u \in disk.files
        BY <1>2, <1>4, <1>8, <2>1, <3>2 DEF TypeOK
      <4>2. AnswerOf(u)
        BY DEF AnswersOK
      <4> QED
        BY <1>4, <4>1, <4>2 DEF AnswerOf, Up
    <3> QED
      BY <3>1, <3>2
  <2>5. StatementOK'
    BY <1>0, <1>8 DEF StatementOK
  <2>6. RowsOK'
    <3> SUFFICES ASSUME NEW u \in Tables
                 PROVE  RowsOf(u)'
      BY DEF RowsOK
    <3>1. CASE u = t
      <4>1. overlooked'[t] = "no" => disk'.rows[t] = {}
        BY <1>1, <1>2, <1>4
      <4>2. overlooked'[t] # "no" => overlooked'[t] \in {"forgotten", "recreated"}
        BY <1>2
      <4> QED
        BY <1>1, <1>5, <1>6, <2>1, <2>a, <3>1, <4>1, <4>2 DEF RowsOf
    <3>2. CASE u # t
      <4>1. /\ overlooked'[u] = overlooked[u] /\ since'[u] = since[u] /\ births'[u] = births[u]
            /\ disk'.rows[u] = disk.rows[u] /\ disk'.meta[u] = disk.meta[u]
            /\ u \in disk'.files <=> u \in disk.files
        BY <1>2, <1>4, <3>2
      <4>2. RowsOf(u) /\ stmt' = stmt
        BY <1>8 DEF RowsOK
      <4> QED
        BY <2>1, <4>1, <4>2 DEF RowsOf, Up
    <3> QED
      BY <3>1, <3>2
  <2> QED
    BY <2>2, <2>3, <2>4, <2>5, <2>6
<1> QED
  BY <1>7, <1>8 DEF CreateTable

\* DROP TABLE, up to the save, keeps IInv.
LEMMA DropInv ==
    ASSUME IInv, NEW t \in Tables, DropTable(t)
    PROVE  IInv'
<1> USE DEF IInv
<1>0. /\ stmt = Idle /\ mem.catalog[t] # NoTable
      /\ stmt' = Statement("drop", t) /\ births' = births /\ since' = since
      /\ overlooked' = [overlooked EXCEPT ![t] = "no"]
  BY DEF DropTable
<1>1. /\ mem'.catalog = mem.catalog
      /\ mem'.schemas = [mem.schemas EXCEPT ![t] = NoTable]
      /\ mem'.fileIds = mem.fileIds \ {t} /\ mem'.open = mem.open \ {t}
      /\ mem'.pool = [mem.pool EXCEPT ![t] = {}]
      /\ disk'.files = disk.files \ {t} /\ disk'.meta = disk.meta
      /\ disk'.rows = [disk.rows EXCEPT ![t] = {}]
      /\ told' = [told EXCEPT ![t] = "unknown"]
  BY DEF DropTable, TypeOK, Tell, Removed
<1>2. TypeOK'
  <2>1. mem' \in [catalog : [Tables -> MaybeSchema], schemas : [Tables -> MaybeSchema],
                  fileIds : SUBSET mem'.open, open : SUBSET Tables,
                  pool : [Tables -> SUBSET Births]]
    BY <1>1 DEF DropTable, TypeOK, MaybeSchema
  <2>2. disk' \in [meta : [Tables -> MaybeSchema], files : SUBSET Tables,
                   rows : [Tables -> SUBSET Births]]
    BY <1>1 DEF DropTable, TypeOK, Removed
  <2>3. /\ told' \in [Tables -> MaybeSchema \cup {"unknown", "failed", "undropped"}]
        /\ overlooked' \in [Tables -> Overlooked]
    BY <1>0, <1>1 DEF TypeOK, Overlooked
  <2> QED
    BY <1>0, <2>1, <2>2, <2>3 DEF TypeOK, Statement
<1>3. HandlesOK'
  BY <1>0, <1>1 DEF HandlesOK, TypeOK
<1>4. CatalogOK'
  BY <1>0, <1>1 DEF CatalogOK, TypeOK, Idle, Statement
<1>5. AnswersOK'
  BY <1>0, <1>1, CatalogAssumption DEF AnswersOK, AnswerOf, TypeOK, Up, Idle, Down, Statement
<1>6. StatementOK'
  BY <1>0, <1>1 DEF StatementOK, TypeOK
<1>7. RowsOK'
  <2> SUFFICES ASSUME NEW u \in Tables
               PROVE  RowsOf(u)'
    BY DEF RowsOK
  <2>0. RowsOf(u) /\ Up
    BY <1>0 DEF RowsOK, Up, Idle, Down, Statement
  <2>1. CASE u = t
    <3>1. mem'.pool[u] = {} /\ disk'.rows[u] = {}
      BY <1>1, <2>1 DEF TypeOK
    <3> QED
      BY <1>0, <2>0, <3>1 DEF RowsOf
  <2>2. CASE u # t
    <3>1. /\ overlooked'[u] = overlooked[u]
          /\ mem'.catalog[u] = mem.catalog[u] /\ mem'.pool[u] = mem.pool[u]
          /\ u \in mem'.open <=> u \in mem.open
          /\ u \in disk'.files <=> u \in disk.files
          /\ disk'.rows[u] = disk.rows[u] /\ disk'.meta = disk.meta
          /\ stmt' # Statement("create", u)
      BY <1>0, <1>1, <2>2 DEF TypeOK, Statement
    <3> QED
      BY <1>0, <2>0, <3>1 DEF RowsOf
  <2> QED
    BY <2>1, <2>2
<1> QED
  BY <1>2, <1>3, <1>4, <1>5, <1>6, <1>7

-----------------------------------------------------------------------------
\* A save that succeeds keeps IInv, and completes its statement.
LEMMA SaveSucceedsInv ==
    ASSUME IInv, SaveSucceeds
    PROVE  IInv'
<1> USE DEF IInv
<1> DEFINE t == stmt.table
<1>0. /\ stmt.op \in {"create", "drop"} /\ stmt' = Idle
      /\ births' = births /\ since' = since
      /\ disk'.meta = mem.schemas /\ disk'.files = disk.files /\ disk'.rows = disk.rows
      /\ disk' = Saved
      /\ \A u \in Tables :
            overlooked'[u] = IF overlooked[u] = "skipped" /\ mem.schemas[u] = NoTable
                             THEN "forgotten" ELSE overlooked[u]
      /\ overlooked' \in [Tables -> Overlooked]
  BY DEF SaveSucceeds, Saved, TypeOK, Overlooked
<1>1. /\ t \in Tables /\ told[t] = "unknown" /\ overlooked[t] \in {"no", "recreated"}
      /\ \/ stmt = Statement("create", t) /\ mem.catalog[t] # NoTable /\ t \in mem.open
         \/ stmt = Statement("drop", t) /\ mem.schemas[t] = NoTable /\ t \notin disk.files
  BY <1>0 DEF StatementOK, Idle, Down, Statement
<1>2. /\ mem'.schemas = mem.schemas /\ mem'.fileIds = mem.fileIds
      /\ mem'.open = mem.open /\ mem'.pool = mem.pool
      /\ \/ /\ stmt = Statement("create", t)
            /\ mem' = mem /\ told' = [told EXCEPT ![t] = mem.catalog[t]]
         \/ /\ stmt = Statement("drop", t)
            /\ mem' = [mem EXCEPT !.catalog[t] = NoTable]
            /\ mem'.catalog = [mem.catalog EXCEPT ![t] = NoTable]
            /\ told' = [told EXCEPT ![t] = NoTable]
  BY <1>0, <1>1 DEF SaveSucceeds, TypeOK, Tell, Statement
<1> HIDE DEF t
<1>3. TypeOK'
  <2>1. mem' \in [catalog : [Tables -> MaybeSchema], schemas : [Tables -> MaybeSchema],
                  fileIds : SUBSET mem'.open, open : SUBSET Tables,
                  pool : [Tables -> SUBSET Births]]
    BY <1>2 DEF TypeOK, MaybeSchema
  <2>2. disk' \in [meta : [Tables -> MaybeSchema], files : SUBSET Tables,
                   rows : [Tables -> SUBSET Births]]
    BY <1>0 DEF TypeOK, Saved
  <2>3. told' \in [Tables -> MaybeSchema \cup {"unknown", "failed", "undropped"}]
    BY <1>1, <1>2 DEF TypeOK, MaybeSchema
  <2> QED
    BY <1>0, <2>1, <2>2, <2>3 DEF TypeOK, Idle, Statement
<1>4. HandlesOK'
  BY <1>0, <1>2 DEF HandlesOK
<1>5. CatalogOK'
  BY <1>0, <1>1, <1>2 DEF CatalogOK, HandlesOK, TypeOK
<1>6. AnswersOK'
  <2> SUFFICES ASSUME NEW u \in Tables
               PROVE  AnswerOf(u)'
    BY DEF AnswersOK
  <2>0. Up /\ Up' /\ AnswerOf(u)
    BY <1>0 DEF AnswersOK, Up, Idle, Down, Statement
  <2>1. CASE u # t
    <3>1. /\ told'[u] = told[u] /\ mem'.catalog[u] = mem.catalog[u]
          /\ stmt # Statement("create", u)
      BY <1>1, <1>2, <2>1 DEF TypeOK, Statement
    <3>2. overlooked'[u] = IF overlooked[u] = "skipped" /\ mem.schemas[u] = NoTable
                           THEN "forgotten" ELSE overlooked[u]
      BY <1>0
    <3>3. CASE told[u] \in Schemas /\ overlooked[u] \notin {"forgotten", "skipped"}
      <4>1. mem.schemas[u] = told[u]
        BY <2>0, <3>3, CatalogAssumption DEF AnswerOf, CatalogOK
      <4> QED
        BY <1>0, <1>2, <2>0, <3>1, <3>2, <3>3, <4>1, CatalogAssumption DEF AnswerOf
    <3>4. CASE told[u] \in Schemas /\ overlooked[u] = "skipped"
      BY <1>0, <1>2, <2>0, <3>1, <3>2, <3>4, CatalogAssumption DEF AnswerOf
    <3>5. CASE told[u] \in Schemas /\ overlooked[u] = "forgotten"
      BY <1>0, <1>2, <2>0, <3>1, <3>2, <3>5, CatalogAssumption DEF AnswerOf
    <3>6. CASE told[u] \notin Schemas
      BY <1>0, <1>2, <2>0, <3>1, <3>6, CatalogAssumption DEF AnswerOf
    <3> QED
      BY <3>3, <3>4, <3>5, <3>6
  <2>2. CASE u = t /\ stmt = Statement("create", t)
    <3>1. /\ told'[u] = mem.catalog[u] /\ mem'.catalog = mem.catalog
          /\ mem.schemas[u] = mem.catalog[u] /\ mem.catalog[u] # NoTable
          /\ mem.catalog[u] \notin {"undropped", NoTable}
          /\ u \in mem.open /\ u \in disk.files
      BY <1>1, <1>2, <2>2, CatalogAssumption
         DEF TypeOK, MaybeSchema, CatalogOK, HandlesOK, Statement
    <3>2. overlooked'[u] \in {"no", "recreated"}
      BY <1>0, <1>1, <2>2
    <3> QED
      BY <1>0, <1>2, <3>1, <3>2 DEF AnswerOf
  <2>3. CASE u = t /\ stmt = Statement("drop", t)
    <3>1. /\ told'[u] = NoTable /\ mem'.catalog[u] = NoTable
          /\ mem.schemas[u] = NoTable
      BY <1>1, <1>2, <2>3, CatalogAssumption DEF TypeOK, Statement
    <3> QED
      BY <1>0, <1>2, <3>1, CatalogAssumption DEF AnswerOf
  <2> QED
    BY <1>1, <2>1, <2>2, <2>3
<1>7. StatementOK'
  BY <1>0 DEF StatementOK
<1>8. RowsOK'
  <2> SUFFICES ASSUME NEW u \in Tables
               PROVE  RowsOf(u)'
    BY DEF RowsOK
  <2>0. /\ RowsOf(u) /\ Up
        /\ overlooked'[u] = IF overlooked[u] = "skipped" /\ mem.schemas[u] = NoTable
                            THEN "forgotten" ELSE overlooked[u]
    BY <1>0 DEF RowsOK, Up, Down, Statement
  <2>1. stmt' # Statement("create", u)
    BY <1>0 DEF Idle, Statement
  <2>2. stmt = Statement("drop", u) => disk.rows[u] = {} /\ mem.pool[u] = {}
    BY <1>1, <2>0 DEF RowsOf, HandlesOK, Statement
  <2>3. mem.catalog[u] # NoTable /\ stmt # Statement("drop", u) => mem'.catalog[u] # NoTable
    BY <1>1, <1>2 DEF TypeOK
  <2>4. disk.rows[u] # {} => mem.schemas[u] # NoTable
                             \/ overlooked'[u] \in {"forgotten", "recreated"}
    <3>1. CASE overlooked[u] = "no"
      BY <2>0, <3>1 DEF RowsOf, HandlesOK
    <3>2. CASE overlooked[u] # "no"
      BY <2>0, <3>2 DEF TypeOK, Overlooked
    <3> QED
      BY <3>1, <3>2
  <2> QED
    BY <1>0, <1>2, <2>0, <2>1, <2>2, <2>3, <2>4 DEF RowsOf
<1> QED
  BY <1>3, <1>4, <1>5, <1>6, <1>7, <1>8

\* A save that fails keeps IInv.
LEMMA SaveFailsInv ==
    ASSUME IInv, SaveFails
    PROVE  IInv'
<1> USE DEF IInv
<1> DEFINE t == stmt.table
<1>0. /\ stmt.op \in {"create", "drop"} /\ stmt' = Idle
      /\ UNCHANGED <<disk, births, since, overlooked>>
  BY DEF SaveFails
<1>1. /\ t \in Tables /\ told[t] = "unknown"
      /\ \/ stmt = Statement("create", t) /\ mem.catalog[t] # NoTable /\ t \in mem.open
         \/ stmt = Statement("drop", t) /\ mem.schemas[t] = NoTable /\ t \notin disk.files
  BY <1>0 DEF StatementOK, Idle, Down, Statement
<1>2. CASE /\ stmt.op = "create"
           /\ mem' = [mem EXCEPT !.catalog[t] = NoTable]
           /\ Tell(t, "failed")
  <2>1. /\ stmt = Statement("create", t)
        /\ mem'.catalog = [mem.catalog EXCEPT ![t] = NoTable]
        /\ mem'.schemas = mem.schemas /\ mem'.fileIds = mem.fileIds
        /\ mem'.open = mem.open /\ mem'.pool = mem.pool
        /\ told' = [told EXCEPT ![t] = "failed"]
    BY <1>1, <1>2 DEF TypeOK, Tell, Statement
  <2> HIDE DEF t
  <2>2. TypeOK'
    <3>1. mem' \in [catalog : [Tables -> MaybeSchema], schemas : [Tables -> MaybeSchema],
                    fileIds : SUBSET mem'.open, open : SUBSET Tables,
                    pool : [Tables -> SUBSET Births]]
      BY <1>2, <2>1 DEF TypeOK, MaybeSchema
    <3> QED
      BY <1>0, <1>1, <2>1, <3>1 DEF TypeOK, Idle, Statement
  <2>3. HandlesOK' /\ CatalogOK'
    <3>1. HandlesOK'
      BY <1>0, <2>1 DEF HandlesOK
    <3>2. \A u \in Tables \ {t} : /\ mem'.catalog[u] = mem.catalog[u]
                                   /\ stmt # Statement("create", u)
      BY <1>1, <2>1 DEF TypeOK, Statement
    <3>3. mem'.catalog[t] = NoTable
      BY <1>1, <2>1 DEF TypeOK
    <3> QED
      BY <1>0, <2>1, <3>1, <3>2, <3>3 DEF CatalogOK, TypeOK
  <2>4. AnswersOK'
    BY <1>0, <1>1, <2>1, CatalogAssumption
       DEF AnswersOK, AnswerOf, TypeOK, Up, Idle, Down, Statement
  <2>5. StatementOK'
    BY <1>0 DEF StatementOK
  <2>6. RowsOK'
    <3> SUFFICES ASSUME NEW u \in Tables
                 PROVE  RowsOf(u)'
      BY DEF RowsOK
    <3>0. RowsOf(u) /\ Up
      BY <2>1 DEF RowsOK, Up, Down, Statement
    <3>1. CASE u = t
      BY <1>0, <2>1, <3>0, <3>1 DEF RowsOf
    <3>2. CASE u # t
      BY <1>0, <2>1, <3>0, <3>2 DEF RowsOf, TypeOK, Idle, Statement
    <3> QED
      BY <3>1, <3>2
  <2> QED
    BY <2>2, <2>3, <2>4, <2>5, <2>6
<1>3. CASE stmt.op = "drop" /\ Tell(t, "undropped") /\ UNCHANGED mem
  <2>1. /\ stmt = Statement("drop", t) /\ t \notin disk.files
        /\ told' = [told EXCEPT ![t] = "undropped"] /\ mem' = mem
    BY <1>1, <1>3 DEF Statement, Tell
  <2> HIDE DEF t
  <2>2. TypeOK'
    BY <1>0, <1>1, <2>1 DEF TypeOK, Idle, Statement
  <2>3. HandlesOK' /\ CatalogOK'
    BY <1>0, <2>1 DEF HandlesOK, CatalogOK, Statement
  <2>4. AnswersOK'
    BY <1>0, <1>1, <2>1, CatalogAssumption
       DEF AnswersOK, AnswerOf, TypeOK, Up, Idle, Down, Statement
  <2>5. StatementOK'
    BY <1>0 DEF StatementOK
  <2>6. RowsOK'
    BY <1>0, <2>1 DEF RowsOK, RowsOf, Up, Idle, Down, Statement
  <2> QED
    BY <2>2, <2>3, <2>4, <2>5, <2>6
<1> QED
  BY <1>2, <1>3 DEF SaveFails

-----------------------------------------------------------------------------
\* Inserting a row keeps IInv.
LEMMA InsertInv ==
    ASSUME IInv, NEW t \in Tables, InsertRow(t)
    PROVE  IInv'
<1> USE DEF IInv
<1>0. /\ stmt = Idle /\ mem.catalog[t] # NoTable /\ t \in mem.fileIds
      /\ mem' = [mem EXCEPT !.pool[t] = @ \cup {births[t]}]
      /\ UNCHANGED <<disk, stmt, told, births, since, overlooked>>
  BY DEF InsertRow, Usable
<1>1. /\ mem'.catalog = mem.catalog /\ mem'.schemas = mem.schemas
      /\ mem'.fileIds = mem.fileIds /\ mem'.open = mem.open
      /\ mem'.pool = [mem.pool EXCEPT ![t] = @ \cup {births[t]}]
  BY <1>0 DEF TypeOK
<1>2. TypeOK'
  <2>1. births[t] \in Births
    BY DEF TypeOK
  <2>2. mem'.pool \in [Tables -> SUBSET Births]
    BY <1>1, <2>1 DEF TypeOK
  <2> QED
    BY <1>0, <1>1, <2>2 DEF TypeOK
<1>3. HandlesOK' /\ CatalogOK'
  BY <1>0, <1>1 DEF HandlesOK, CatalogOK
<1>4. AnswersOK' /\ StatementOK'
  BY <1>0, <1>1 DEF AnswersOK, AnswerOf, StatementOK, Up
<1>5. RowsOK'
  <2> SUFFICES ASSUME NEW u \in Tables
               PROVE  RowsOf(u)'
    BY DEF RowsOK
  <2>0. RowsOf(u)
    BY DEF RowsOK
  <2>1. CASE u = t
    <3>1. mem'.pool[u] = mem.pool[u] \cup {births[u]}
      BY <1>1, <2>1 DEF TypeOK
    <3>2. births[u] \in since[u] .. births[u]
      BY <2>0, CatalogAssumption DEF RowsOf, TypeOK, Births
    <3>3. mem.catalog[u] # NoTable /\ u \in mem.open /\ stmt # Statement("create", u)
      BY <1>0, <2>1 DEF HandlesOK, Idle, Statement
    <3> QED
      BY <1>0, <1>1, <2>0, <3>1, <3>2, <3>3 DEF RowsOf, Up
  <2>2. CASE u # t
    BY <1>0, <1>1, <2>0, <2>2 DEF RowsOf, TypeOK, Up
  <2> QED
    BY <2>1, <2>2
<1> QED
  BY <1>2, <1>3, <1>4, <1>5

\* Writing the rows of open tables to their files keeps what the files hold right.
LEMMA WrittenBackInv ==
    ASSUME IInv, stmt = Idle, NEW T \in SUBSET mem.open
    PROVE  /\ WrittenBack(T).files = disk.files /\ WrittenBack(T).meta = disk.meta
           /\ WrittenBack(T) \in [meta : [Tables -> MaybeSchema], files : SUBSET Tables,
                                  rows : [Tables -> SUBSET Births]]
           /\ \A u \in Tables :
                 LET new == WrittenBack(T).rows[u]
                 IN  /\ new \subseteq since[u] .. births[u]
                     /\ new # {} =>
                            /\ u \in disk.files
                            /\ disk.meta[u] # NoTable
                               \/ overlooked[u] \in {"forgotten", "recreated"}
                     /\ new # {} /\ overlooked[u] = "no" =>
                            mem.catalog[u] # NoTable /\ u \in mem.open
<1> USE DEF IInv
<1>0. /\ WrittenBack(T).files = disk.files /\ WrittenBack(T).meta = disk.meta
      /\ WrittenBack(T).rows =
            [u \in Tables |-> IF u \in T THEN disk.rows[u] \cup mem.pool[u] ELSE disk.rows[u]]
  BY DEF WrittenBack, TypeOK
<1>1. WrittenBack(T) \in [meta : [Tables -> MaybeSchema], files : SUBSET Tables,
                         rows : [Tables -> SUBSET Births]]
  BY <1>0 DEF WrittenBack, TypeOK
<1>2. ASSUME NEW u \in Tables
      PROVE  LET new == WrittenBack(T).rows[u]
             IN  /\ new \subseteq since[u] .. births[u]
                 /\ new # {} =>
                        /\ u \in disk.files
                        /\ disk.meta[u] # NoTable
                           \/ overlooked[u] \in {"forgotten", "recreated"}
                 /\ new # {} /\ overlooked[u] = "no" =>
                        mem.catalog[u] # NoTable /\ u \in mem.open
  <2>1. RowsOf(u) /\ Up
    BY DEF RowsOK, Up, Idle, Down, Statement
  <2>2. mem.pool[u] # {} =>
           /\ mem.catalog[u] # NoTable /\ u \in mem.open
           /\ disk.meta[u] # NoTable /\ u \in disk.files
    BY <2>1, CatalogAssumption DEF RowsOf, CatalogOK, HandlesOK
  <2>3. WrittenBack(T).rows[u] = disk.rows[u] \cup mem.pool[u]
        \/ WrittenBack(T).rows[u] = disk.rows[u]
    BY <1>0
  <2> QED
    BY <2>1, <2>2, <2>3 DEF RowsOf
<1> QED
  BY <1>0, <1>1, <1>2

\* Evicting pages of a table keeps IInv.
LEMMA EvictInv ==
    ASSUME IInv, NEW t \in Tables, Evict(t)
    PROVE  IInv'
<1> USE DEF IInv
<1>0. /\ stmt = Idle /\ {t} \in SUBSET mem.open
      /\ disk' = WrittenBack({t}) /\ UNCHANGED <<mem, stmt, told, births, since, overlooked>>
  BY DEF Evict
<1>1. /\ disk'.files = disk.files /\ disk'.meta = disk.meta
      /\ disk' \in [meta : [Tables -> MaybeSchema], files : SUBSET Tables,
                    rows : [Tables -> SUBSET Births]]
      /\ \A u \in Tables :
            /\ disk'.rows[u] \subseteq since[u] .. births[u]
            /\ disk'.rows[u] # {} =>
                   /\ u \in disk.files
                   /\ disk.meta[u] # NoTable \/ overlooked[u] \in {"forgotten", "recreated"}
            /\ disk'.rows[u] # {} /\ overlooked[u] = "no" =>
                   mem.catalog[u] # NoTable /\ u \in mem.open
  BY <1>0, WrittenBackInv
<1>2. TypeOK'
  BY <1>0, <1>1 DEF TypeOK
<1>3. HandlesOK' /\ CatalogOK' /\ StatementOK'
  BY <1>0, <1>1 DEF HandlesOK, CatalogOK, StatementOK
<1>4. AnswersOK'
  BY <1>0, <1>1 DEF AnswersOK, AnswerOf, Up
<1>5. RowsOK'
  BY <1>0, <1>1 DEF RowsOK, RowsOf, Up, Idle, Statement
<1> QED
  BY <1>2, <1>3, <1>4, <1>5

\* Memory after the process ended is well-formed.
LEMMA UnloadedType ==
    /\ Unloaded \in [catalog : [Tables -> MaybeSchema], schemas : [Tables -> MaybeSchema],
                     fileIds : SUBSET Unloaded.open, open : SUBSET Tables,
                     pool : [Tables -> SUBSET Births]]
    /\ Unloaded.open = {} /\ Unloaded.fileIds = {} /\ Unloaded.pool = NoRows
  BY DEF Unloaded, NoTables, NoRows, MaybeSchema

\* The end of main keeps IInv.
LEMMA QuitInv ==
    ASSUME IInv, Quit
    PROVE  IInv'
<1> USE DEF IInv
<1>0. /\ stmt = Idle /\ disk' = WrittenBack(mem.open) /\ mem' = Unloaded
      /\ stmt' = Down /\ UNCHANGED <<told, births, since, overlooked>>
  BY DEF Quit
<1>1. /\ disk'.files = disk.files /\ disk'.meta = disk.meta
      /\ disk' \in [meta : [Tables -> MaybeSchema], files : SUBSET Tables,
                    rows : [Tables -> SUBSET Births]]
      /\ \A u \in Tables :
            /\ disk'.rows[u] \subseteq since[u] .. births[u]
            /\ disk'.rows[u] # {} =>
                   /\ u \in disk.files
                   /\ disk.meta[u] # NoTable \/ overlooked[u] \in {"forgotten", "recreated"}
  BY <1>0, WrittenBackInv
<1>2. TypeOK'
  BY <1>0, <1>1, UnloadedType DEF TypeOK, Down, Statement
<1>3. HandlesOK' /\ CatalogOK' /\ AnswersOK' /\ StatementOK'
  BY <1>0, <1>1, UnloadedType DEF HandlesOK, CatalogOK, AnswersOK, AnswerOf, StatementOK, Up
<1>4. RowsOK'
  BY <1>0, <1>1, UnloadedType DEF RowsOK, RowsOf, NoRows, Up
<1> QED
  BY <1>2, <1>3, <1>4

\* A crash keeps IInv.
LEMMA CrashInv ==
    ASSUME IInv, Crash
    PROVE  IInv'
<1> USE DEF IInv
<1>0. mem' = Unloaded /\ stmt' = Down /\ UNCHANGED <<disk, told, births, since, overlooked>>
  BY DEF Crash
<1>1. TypeOK'
  BY <1>0, UnloadedType DEF TypeOK, Down, Statement
<1>2. HandlesOK' /\ CatalogOK' /\ AnswersOK' /\ StatementOK'
  BY <1>0, UnloadedType DEF HandlesOK, CatalogOK, AnswersOK, AnswerOf, StatementOK, Up
<1>3. RowsOK'
  BY <1>0, UnloadedType DEF RowsOK, RowsOf, NoRows, Up
<1> QED
  BY <1>1, <1>2, <1>3

\* A start keeps IInv: whatever it reads of catalog.meta, and whichever files
\* open, a table it takes is one that catalog.meta knows, and one it does not
\* take is marked.
LEMMA StartInv ==
    ASSUME IInv, Start
    PROVE  IInv'
<1> USE DEF IInv
<1>0. stmt = Down /\ stmt' = Idle /\ UNCHANGED <<births, since>>
  BY DEF Start
<1> PICK read \in {disk.meta} \cup IfFails("readMeta", {NoTables}) :
         \E skipped \in SUBSET IfFails("open", Loadable(read)) :
         \E emptied \in SUBSET IfFails("open", Loadable(read)) :
            LET opened == Loadable(read) \ skipped
            IN  /\ mem' = [catalog |-> [u \in Tables |->
                                          IF u \in opened THEN read[u] ELSE NoTable],
                           schemas |-> read, fileIds |-> opened, open |-> opened,
                           pool |-> NoRows]
                /\ disk' = Emptied(emptied)
                /\ overlooked' = [u \in Tables |->
                                     CASE u \in opened -> "no"
                                       [] u \in Loadable(disk.meta) \ opened -> "skipped"
                                       [] OTHER -> overlooked[u]]
  BY DEF Start
<1> PICK skipped \in SUBSET IfFails("open", Loadable(read)),
         emptied \in SUBSET IfFails("open", Loadable(read)) :
            LET opened == Loadable(read) \ skipped
            IN  /\ mem' = [catalog |-> [u \in Tables |->
                                          IF u \in opened THEN read[u] ELSE NoTable],
                           schemas |-> read, fileIds |-> opened, open |-> opened,
                           pool |-> NoRows]
                /\ disk' = Emptied(emptied)
                /\ overlooked' = [u \in Tables |->
                                     CASE u \in opened -> "no"
                                       [] u \in Loadable(disk.meta) \ opened -> "skipped"
                                       [] OTHER -> overlooked[u]]
  OBVIOUS
<1> DEFINE opened == Loadable(read) \ skipped
<1>1. /\ read = disk.meta \/ read = NoTables
      /\ read \in [Tables -> MaybeSchema]
  BY DEF IfFails, TypeOK, NoTables, MaybeSchema
<1>2. /\ opened \subseteq Tables /\ opened \subseteq disk.files
      /\ \A u \in opened : read[u] = disk.meta[u] /\ disk.meta[u] # NoTable
      /\ emptied \subseteq disk.files /\ emptied \subseteq Tables
  BY <1>1 DEF Loadable, IfFails, NoTables, TypeOK
<1>3. \A u \in Tables : u \in Loadable(disk.meta) <=> u \in disk.files /\ disk.meta[u] # NoTable
  BY DEF Loadable
<1>4. /\ mem'.catalog = [u \in Tables |-> IF u \in opened THEN read[u] ELSE NoTable]
      /\ mem'.schemas = read /\ mem'.fileIds = opened /\ mem'.open = opened
      /\ mem'.pool = NoRows
      /\ mem' = [catalog |-> mem'.catalog, schemas |-> read, fileIds |-> opened,
                 open |-> opened, pool |-> NoRows]
  OBVIOUS
<1>5. /\ disk' \in [meta : [Tables -> MaybeSchema], files : SUBSET Tables,
                    rows : [Tables -> SUBSET Births]]
      /\ disk'.meta = disk.meta /\ disk'.files = disk.files
      /\ \A u \in Tables : disk'.rows[u] = {} \/ disk'.rows[u] = disk.rows[u]
  <2>1. disk' = Emptied(emptied)
    OBVIOUS
  <2>2. emptied \in SUBSET Tables /\ disk.files \cup emptied = disk.files
    BY <1>2
  <2>3. /\ Emptied(emptied) \in [meta : [Tables -> MaybeSchema], files : SUBSET Tables,
                                rows : [Tables -> SUBSET Births]]
        /\ Emptied(emptied).meta = disk.meta
        /\ Emptied(emptied).files = disk.files \cup emptied
        /\ \A u \in Tables :
              Emptied(emptied).rows[u] = IF u \in emptied THEN {} ELSE disk.rows[u]
    BY <2>2, EmptiedType
  <2> QED
    BY <2>1, <2>2, <2>3
<1>6. /\ overlooked' \in [Tables -> Overlooked]
      /\ \A u \in Tables :
            \/ u \in opened /\ overlooked'[u] = "no"
            \/ /\ u \notin opened /\ u \in disk.files /\ disk.meta[u] # NoTable
               /\ overlooked'[u] = "skipped"
            \/ /\ u \notin opened /\ ~(u \in disk.files /\ disk.meta[u] # NoTable)
               /\ overlooked'[u] = overlooked[u]
  BY <1>3 DEF TypeOK, Overlooked
<1>7. told' = [u \in Tables |-> IF told[u] = "unknown" /\ overlooked'[u] # "skipped"
                                THEN mem'.catalog[u] ELSE told[u]]
  BY DEF Start
<1> HIDE DEF opened
<1>8. TypeOK'
  <2>1. mem'.catalog \in [Tables -> MaybeSchema]
    BY <1>1, <1>4 DEF MaybeSchema
  <2>2. told' \in [Tables -> MaybeSchema \cup {"unknown", "failed", "undropped"}]
    BY <1>7, <2>1 DEF TypeOK
  <2>3. mem'.pool \in [Tables -> SUBSET Births]
    BY <1>4 DEF NoRows
  <2>4. mem' \in [catalog : [Tables -> MaybeSchema], schemas : [Tables -> MaybeSchema],
                  fileIds : SUBSET mem'.open, open : SUBSET Tables,
                  pool : [Tables -> SUBSET Births]]
    BY <1>1, <1>2, <1>4, <2>1, <2>3
  <2> QED
    BY <1>0, <1>5, <1>6, <2>2, <2>4 DEF TypeOK, Idle, Statement
<1>9. HandlesOK' /\ CatalogOK'
  BY <1>0, <1>1, <1>2, <1>4, <1>5 DEF HandlesOK, CatalogOK
<1>10. AnswersOK'
  <2> SUFFICES ASSUME NEW u \in Tables
               PROVE  AnswerOf(u)'
    BY DEF AnswersOK
  <2>0. /\ AnswerOf(u)
        /\ mem'.catalog[u] = IF u \in opened THEN disk.meta[u] ELSE NoTable
        /\ mem'.schemas[u] \in {disk.meta[u], NoTable}
        /\ u \in mem'.open <=> u \in opened
        /\ u \in opened => u \in disk.files /\ disk.meta[u] # NoTable
        /\ disk'.meta = disk.meta /\ disk'.files = disk.files
    BY <1>1, <1>2, <1>4, <1>5 DEF AnswersOK, NoTables
  <2>1. CASE told[u] = "unknown" /\ overlooked'[u] # "skipped"
    <3>1. told'[u] = mem'.catalog[u]
      BY <1>7, <2>1
    <3>2. disk.meta[u] \in MaybeSchema
      BY DEF TypeOK
    <3> QED
      BY <1>0, <1>6, <2>0, <2>1, <3>1, <3>2, CatalogAssumption DEF AnswerOf, MaybeSchema
  <2>2. CASE ~(told[u] = "unknown" /\ overlooked'[u] # "skipped")
    <3>1. told'[u] = told[u]
      BY <1>7, <2>2
    <3>2. CASE told[u] \in Schemas /\ overlooked[u] # "forgotten"
      BY <1>6, <2>0, <3>1, <3>2, CatalogAssumption DEF AnswerOf
    <3>3. CASE told[u] \in Schemas /\ overlooked[u] = "forgotten"
      BY <1>6, <2>0, <3>1, <3>3, CatalogAssumption DEF AnswerOf
    <3>4. CASE told[u] \notin Schemas
      BY <1>6, <2>0, <3>1, <3>4, CatalogAssumption DEF AnswerOf
    <3> QED
      BY <3>2, <3>3, <3>4
  <2> QED
    BY <2>1, <2>2
<1>11. StatementOK'
  BY <1>0 DEF StatementOK
<1>12. RowsOK'
  <2> SUFFICES ASSUME NEW u \in Tables
               PROVE  RowsOf(u)'
    BY DEF RowsOK
  <2>1. RowsOf(u) /\ mem'.pool[u] = {}
    BY <1>4 DEF RowsOK, NoRows
  <2>2. /\ mem'.catalog[u] = IF u \in opened THEN disk.meta[u] ELSE NoTable
        /\ u \in mem'.open <=> u \in opened
        /\ u \in opened => u \in disk.files /\ disk.meta[u] # NoTable
        /\ disk'.meta = disk.meta /\ disk'.files = disk.files
        /\ disk'.rows[u] = {} \/ disk'.rows[u] = disk.rows[u]
    BY <1>2, <1>4, <1>5
  <2>3. stmt' # Statement("create", u)
    BY <1>0 DEF Idle, Statement
  <2> QED
    BY <1>0, <1>6, <2>1, <2>2, <2>3 DEF RowsOf
<1> QED
  BY <1>8, <1>9, <1>10, <1>11, <1>12

-----------------------------------------------------------------------------
\* Every step keeps IInv.
LEMMA NextInv == IInv /\ [Next]_vars => IInv'
<1> SUFFICES ASSUME IInv, [Next]_vars PROVE IInv'
  OBVIOUS
<1>1. CASE UNCHANGED vars
  BY <1>1 DEF vars, IInv, TypeOK, HandlesOK, CatalogOK, AnswersOK, AnswerOf, StatementOK,
              RowsOK, RowsOf, Up
<1>2. CASE Next
  BY <1>2, CreateInv, DropInv, InsertInv, EvictInv, SaveSucceedsInv, SaveFailsInv, QuitInv,
     CrashInv, StartInv DEF Next
<1> QED
  BY <1>1, <1>2

\* IInv always holds.
LEMMA Invariance == Spec => []IInv
  BY InitInv, NextInv, PTL DEF Spec

\* For any tables, schemas and failures: memory, disk and answers keep their
\* shape, and StorageManager keeps no identifier of a closed file.
THEOREM TypeCorrect == Spec => []TypeOK
<1>1. IInv => TypeOK
  BY DEF IInv
<1> QED
  BY <1>1, Invariance, PTL

\* For any tables, schemas and failures, those of load() included: what a
\* client was told of a table by a statement that completed stays true across
\* failures and restarts, but for the tables load() overlooked; and a table
\* whose DROP failed to save is out of use for good, its file and rows gone.
THEOREM Answers == Spec => []AnswersHold
<1>1. IInv => AnswersHold
  <2> SUFFICES ASSUME IInv, stmt = Idle, NEW t \in Tables
               PROVE  /\ told[t] \in MaybeSchema =>
                            \/ AsTold(t)
                            \/ /\ overlooked[t] = "skipped" /\ mem.catalog[t] = NoTable
                               /\ disk.meta[t] = told[t] /\ t \in disk.files
                            \/ /\ overlooked[t] = "forgotten" /\ mem.catalog[t] = NoTable
                               /\ t \in disk.files
                      /\ told[t] = "undropped" =>
                            /\ ~Usable(t) /\ t \notin disk.files
                            /\ mem.pool[t] \cup disk.rows[t] = {}
    BY DEF AnswersHold
  <2>1. AnswerOf(t) /\ Up /\ RowsOf(t)
    BY DEF IInv, AnswersOK, RowsOK, Up, Idle, Down, Statement
  <2>2. mem.fileIds = mem.open /\ mem.open \subseteq disk.files
    BY DEF IInv, HandlesOK
  <2>3. CASE told[t] \in Schemas
    BY <2>1, <2>2, <2>3, CatalogAssumption DEF AnswerOf, AsTold, Usable
  <2>4. CASE told[t] \notin Schemas
    <3>1. told[t] \in MaybeSchema => AsTold(t)
      BY <2>1, <2>4 DEF AnswerOf, AsTold, MaybeSchema
    <3>2. told[t] = "undropped" => t \notin disk.files
      BY <2>1 DEF AnswerOf
    <3>3. t \notin disk.files =>
             /\ ~Usable(t) /\ mem.pool[t] = {} /\ disk.rows[t] = {}
      BY <2>1, <2>2 DEF RowsOf, Usable
    <3> QED
      BY <3>1, <3>2, <3>3, CatalogAssumption DEF MaybeSchema
  <2> QED
    BY <2>3, <2>4
<1> QED
  BY <1>1, Invariance, PTL

\* For any tables, schemas and failures, those of load() included: a table never
\* shows a row inserted before its file was begun, which is when it was created
\* unless that was over a table of its name that load() had overlooked.
THEOREM OwnRows == Spec => []RowsOfThisTable
<1>1. IInv => RowsOfThisTable
  BY DEF IInv, RowsOK, RowsOf, RowsOfThisTable
<1> QED
  BY <1>1, Invariance, PTL
=============================================================================
