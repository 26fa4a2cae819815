# SeedDB in TLA+

A verification project for SeedDB, a small SQL database in C++17: TLA+ modules translated from the
source, TLC runs that check them on small instances, and TLAPS proofs of what matters most for every
instance. Paths below are relative to the repository (`src/storage/page.h` is SeedDB's own `src`).

- [The system](#the-system) - its parts, their state, how they interact, what is hard
- [The modules](#the-modules) - what models what, and how state and actions correspond to the code
- [The runs](#the-runs) - what each checks, its bounds, and what it shows
- [The proofs](#the-proofs)
- [Where the code and its texts disagree](#where-the-code-and-its-texts-disagree)
- [What is not modelled](#what-is-not-modelled)
- [Plan](#plan)

`PROJECT.json` lists components, runs, mutants (a plausible bug for every property, which its run
catches), the source lines of every definition, findings, hazards and theorems.

## The system

One process, one user: a REPL (`src/cli`) reads SQL, the lexer and parser (`src/parser`) make a tree of
it, the executor (`src/executor`) runs it over the storage engine (`src/storage`). `main.cpp` is
single-threaded, but the buffer pool is written for several threads (a global mutex, frame latches, a
loading state, a thread test in `tests/unit/storage/test_buffer_pool.cpp`).

| Part | State | Operations | Correct when |
|---|---|---|---|
| `LruReplacer` (`buffer/lru_replacer.*`) | one list cut at a midpoint in a young and an old sublist, two counters, a map of nodes | `Pin`, `Unpin`, `Access`, `Evict`, `Size` | counters and map agree with the list; it is an order of eviction; old sublist at its share |
| `Page` (`page.h`, `page_header.h`) | header, slot directory growing up, records growing down | `insertRecord`, `getRecord`, `deleteRecord`, `compact` | nothing overlaps; a record is read as it was written until it is deleted |
| `BufferPool`, `Frame` (`buffer/buffer_pool.*`, `frame.h`) | frames with pins, dirty flag, state, latch; `page_table_`; the replacer; `latch_` | `FetchPage`, `NewPage`, `UnpinPage`, `FlushPage`, `FlushAll`, `R/WLatchPage`, `R/WUnlatchPage` | caching does not show; a pinned page stays; a clean page is on disk; pins are counted; no call hangs |
| `DiskManager` (`disk_manager.*`) | a `FILE*` with its position, and a page count, per file | `openFile`, `closeFile`, `readPage`, `writePage`, `allocatePage` | a page is read as it was written |
| `PageManager` (`page_manager.*`) | table names to file ids | `createTableFile`, `openTableFile`, `dropTableFile`, pages | a name has one file |
| `StorageManager` (`storage_manager.*`, `table_iterator.*`, `tid.h`) | `schemas_`, `file_ids_`, catalog.meta | `load`, `onCreateTable`, `onDropTable`, `insertRow`, `updateRow`, `deleteRow`, `createIterator` | tables survive restarts; rows are neither lost, doubled nor mixed up |
| `Catalog`, `Table` (`catalog.h`, `table.h`) | tables by name, with their schema | `createTable`, `dropTable`, lookup | agrees with `StorageManager` |
| `Row`, `Schema`, `RowSerializer`, `Value`, `LogicalType` | data | encoding, comparison, NULL | what is stored is worth what was given; comparison is an order |
| `Executor`, `aggregate.h`, `function.*` | the rows of one query and the place in them | one `execute` per statement, `hasNext`, `next`, `resetQuery` | SQL's meaning; an UPDATE sees the old rows and is refused as a whole |
| `Lexer`, `Parser`, AST | position in the text | `next_token`, `parse`, `toString` | the tree means what was written, and is written so that it means the same |
| `Repl` (`src/cli`) | `accumulated_input_`, `in_multiline_`, `running_` | `run`, meta-commands, `executeSql` | executes what was typed, and comes back for the next line |
| `Config`, `Logger`, `Error` | settings | reading, formatting | - |

How they interact: a statement of the executor changes the `Catalog` and calls a hook of
`StorageManager`; rows are read and written by `FetchPage`, a change of the page in place, `UnpinPage`;
a fetch of a page that is not cached calls `Evict` of the replacer, writes the victim if it is dirty
and reads the page through `PageManager` and `DiskManager`; at the end of `main` the destructors flush
the pool and close the files.

What is hard in it:

- **Pins and the replacer.** A frame may be evicted exactly when nobody has it pinned; two components
  keep that knowledge, `pin_count` and the replacer's list, and every call has to keep them together.
- **I/O without the mutex.** `findVictim` and `FlushPage` release `latch_` while they write, and others
  see the frame meanwhile.
- **Failing I/O.** Reads, writes and allocations report failure; the pool must not lose a frame or a
  change over it.
- **Layout in place.** `compact` moves records over each other within the page; 16-bit arithmetic.
- **Catalog, files and catalog.meta.** One statement changes three places one after the other, and the
  process may end, or a save fail, in between.
- **Statements over many rows.** No rollback: what was done before a failure stays.
- **Text to statement.** Lines are joined, comments and strings cross them, precedence is spread over eight
  parse functions; a mistake gives another statement, not an error.
- **NULL.** A third truth value in conditions, last in ORDER BY, one key in GROUP BY, passed over by
  aggregates, equal to itself in DISTINCT: five rules in five places.
- **Two hands on one query.** `execute` prepares the rows, the command line fetches them one by one and
  must leave the executor as it found it.

## The modules

| Module | Models | Kind |
|---|---|---|
| `LruList` | the replacer's data structure as operators on a record (`LruPin`, `LruUnpin`, `LruAccess`, `LruEvict`, `Rebalance`) | operators, used by two specifications |
| `LruReplacer` | any sequence of its calls | specification |
| `EvictionQueue` | what its header promises: a queue of frames, victims taken from the end; and the calls for which the class departs from it | abstract specification |
| `LruListProofs` | - | lemmas about the list, for the replacer and the pool |
| `LruReplacerProofs` | - | proofs |
| `SlottedPage` | the bytes of a page under insertion, deletion, compaction and the in-place update of `updateRow` | specification |
| `SlotStore` | what a page promises: slots with records | abstract specification |
| `HeapPage` | a page without its bytes: slots, sizes of rows and a number of free bytes | operators, used by `HeapTable` |
| `PageRoom` | what `HeapTable` takes for granted of such a page | abstract specification, of `SlottedPage` |
| `MCSlottedPage` | rows of a few sizes whose bytes all differ | model-checking instance |
| `SlottedPageProofs` | - | proofs |
| `BufferPool` | the pool with its frames, replacer (`LruList`), file and threads | specification |
| `PageStore` | what the pool promises: one array of pages | abstract specification |
| `BufferPoolLemmas` | - | the invariant of the pool under one client, lemmas about pool and file |
| `BufferPoolProofs` | - | proofs: one client, and any number of threads on a pool that holds the file |
| `CatalogStore` | CREATE TABLE, DROP TABLE, INSERT and restarts over the Catalog, `schemas_`, files and catalog.meta | specification |
| `CatalogStoreProofs` | - | proofs |
| `HeapTable` | the rows of one table: INSERT, UPDATE and DELETE over several pages, the iterator | specification |
| `RowStore` | what a table promises: a bag of rows | abstract specification |
| `MCHeapTable` | the symmetry of keys | model-checking instance |
| `HeapTableProofs` | - | proofs |
| `SqlValues` | values, their accessors, comparisons and texts | operators |
| `SqlExpressions` | expression trees, schemas, scalar functions, LIKE, `evaluateExpr` | operators |
| `SqlAggregates` | accumulators, grouping, HAVING, the checks of aggregate queries | operators |
| `SqlRows` | literals and new rows, `validateRow`, what storing makes of a row | operators |
| `SqlOrder` | the comparator of ORDER BY, and what `std::sort` asks of one | operators |
| `SqlOrderProofs` | - | proofs about values, their comparison and ORDER BY |
| `SqlSelect` | joins, projection, ORDER BY, DISTINCT, LIMIT: all answers a query may have | operators |
| `SqlText` | the lexer; trees of statements; `toString` | operators |
| `SqlParser` | the grammar | operators |
| `SqlReference` | what SQL means, without the program's ways; how a user writes a tree | reference definitions, no code |
| `SqlDeviations` | where the program departs from that meaning, one rule for each known disagreement | reference definitions, no code |
| `SqlSession` | a user, the command line, the executor and the tables | specification |
| `MCSqlSession` | what the user may say | model-checking instance |

**LruList, LruReplacer.** The variable `lru` holds the list from head to tail as two sequences `young`
and `old` (the midpoint is their border), the counters `young_count_` and `old_count_`, and `nodes`, the
frames with an entry in `nodes_`, linked or not. One action per public method, for any frame. `Access` or
`Pin` of a frame whose node is unlinked follows null links in the code, which ends the process (`crashed`).
`TargetOldSize` is the constructor's computation with its clamps.

**EvictionQueue.** The queue is `young \o old`; the call and its answer are part of the state, so that a step
is one call with one outcome. `Enter`, `Leave`, `Protect`, `Take`, `Refuse` change it as the header says, and
`Stay` (an `Unpin` of a listed frame) and `Pass` (a `Pin` or `Access` of a frame never listed) are the two
calls the header lets do nothing. The class keeps to that for all frames but those pinned while listed,
`stranded` here: `NotInserted` (their `Unpin` is ignored, against `lru_replacer.h:42`) and `NullLink` (their
`Pin` and `Access` end the process, against `lru_replacer.h:49`) are steps of their own, and a call on any other
frame that did either would not be a step of the queue.

**SlottedPage.** The page is a record of header fields, slots and the bytes of the body; offsets and
lengths are taken modulo `Word`, the range of the code's `uint16_t`. `compact` is the code's loop over
live slots. The refinement to `SlotStore` maps a slot to the bytes it points at, so a byte out of place
is a wrong record there. The refinement to `PageRoom` (`RoomOf`) forgets the bytes and keeps sizes: it is the
page `HeapTable` computes with, so the two levels are one system and not two pictures of a page.

**BufferPool.** What runs under `latch_` is one step, and so is each piece of I/O made without it; the
seek and the transfer are two steps on the file's one position, because threads share the `FILE*`. A
call is a program counter in `job[t]`; `latch` names a thread only where `allocatePage` does I/O with the
mutex held. Contents are versions: `[page, ver]`. Clients follow the documented protocol: they unpin what
they fetched and change a page only while they hold it; a client does not fetch a page it already holds.
`FlushAll` works on the snapshot it takes of the table, a set of frames with their pages that it goes through in
the order of frames. A null dereference in the replacer ends the process, which is the state where `Running` is false.

**CatalogStore.** `mem` is what a process knows (`Catalog`, `schemas_`, `file_ids_`, the open files, rows
in the pool), `disk` what survives it. A DDL statement is two steps, up to the save and the save, so that
a crash may fall between them; crashes at other points of a statement leave one of the two states of the
disk on either side. `told` is what the client knows: nothing of a statement that was interrupted, until
it asks again after the restart, and "undropped" after a DROP TABLE whose save failed. File ids are left out:
a session never uses one twice. What may fail is in `Faults`: `open` of a table file (also in `load()`, which
then passes over the table, and also so that `openFile` creates it anew over its rows, `Emptied`), `readMeta`
(catalog.meta cannot be opened or read: the process starts with no table, and its next save forgets the
others), and the save of a CREATE or of a DROP. The tables that a start has missed in this way are in
`overlooked`, and `since` is the CREATE TABLE after which the file of a table was begun: the exceptions of the
properties are stated with them.

**HeapTable.** A page is a `HeapPage`, a sequence of slots and a number of free bytes; that the bytes of
`SlottedPage` behave like it is checked and proved there (`IsHeapPage`, `RoomAgrees`).
`heap.pages` is what the process sees, `dirty` the pages the pool believes changed, `saved` what the disk
has of the others; `Evict` writes a dirty page and rereads a clean one, so that a change that is not
marked is lost. `insertRowInternal`, `updateRow` and `deleteRow` are operators that give the set of their
outcomes, one for each fetch that may fail. A statement reads in one step what its first pass collects
(`createIterator`, `next`, the WHERE clause) into `stmt.todo`, the matching record identifiers in the order of
pages and slots, and changes one row a step; evictions fall
between the steps. A row is a key, the number of its updates and a size; WHERE is a set of keys. The
iterator runs to its end before the second pass, so it holds no page then. Rows that violate a constraint
are refused before anything is changed and are left out. Sizes are below the one at which `insertRecord`
wraps.

**SqlValues, SqlExpressions, SqlAggregates, SqlRows, SqlOrder, SqlSelect.** One operator per function of the code,
under its name. A value is a pair of its type and payload; reading it as another type gives what the
union holds there (`asBool` of a byte that is no bool has no value, and TLC would stop). A read beyond the end of
a row, which the joins of three tables make, gives NULL or 1 (`Behind`), and a sort by a column beyond the row any
order (`Sorted`). FLOAT and DOUBLE
are exact fractions, strings are sequences of characters. `evaluateExpr` walks the same nodes in the same
order with the same three-valued rules, its slips included: AND and OR look at one side first, IN compares
by type, BETWEEN by type id, MOD tests its divisor against one. `std::sort` may leave equal rows in any
order, so `prepareSelect` gives a set of answers, one for each arrangement the comparator allows.
A row is stored as the column's type reads the bytes (`Stored`), which is where an unconverted integer
becomes zero.

**SqlText, SqlParser.** A text is a sequence of pieces (a word, a digit, a character), a token a pair of
kind and value. Each parse function takes the tokens that are left and gives success, tree and rest; an
error ends the statement, so the recovery of the code's `Result` is one value. Its levels of precedence are
numbers, so that `parseOrExpr`, `parseAndExpr`, `parseAdditiveExpr` and `parseMultiplicativeExpr`, which
differ in their operators only, are one operator `Parse`. The lexer's error ends the tokens, as the parser
takes it for the end of the input.

**SqlSession.** `tables` is what Catalog and storage hold (the engine below is the subject of the other
modules: a table is a sequence of rows in the order of the iterator, and storage does not fail here);
`accumulated_input_`, `in_multiline_`, `running_` are the command line's, `result_rows_` and
`current_row_index_` the executor's. Actions: `Say` and `Look` (the user says a statement, reads its answer),
`MetaCommand`, `ReadMore`, `ReadLast` (one line of `Repl::run`), `RunCreate` ... `RunSelect` (one `execute`
each), `FetchRow`, `ShowRows`, `EndOfInput`. `saying` and `to_type` are the user's, and history for the
properties: the tree he meant, its lines, those still to come, and what of them the program hears
(`saying.heard`), which is the same tree but for the texts of `Misread`.

**SqlReference.** The other side of the comparison, written without looking at how the program computes:
truth of three values by `AllOf` and `AnyOf`, LIKE by cutting the string, a query by the bag of its rows
(`IsAnswer`), a statement by its effect on the tables (`Effect`). `TypedStatement` writes a tree with as few
parentheses as precedence and left grouping need, which is what makes `StatementArrives` a test of the
parser.

**SqlDeviations.** The disagreements between the program and its texts, as statements of SQL: `AsTaken` rewrites
a statement into the one whose meaning (by `SqlReference`) the program gives, one rule for each disagreement, and
leaves every statement alone that no rule concerns. `a IN (1, 2)` on an INTEGER column becomes an IN of an
empty list, `HAVING COUNT(*) > 1` is decided by the ids of the types (`ByType`), a join loses its GROUP BY, `SET a =
a + 1` assigns what the bytes of that value are to the column (`Kept`). `RefusedToo` are the statements with a meaning that are
refused, `Unsettled` the joins of three tables whose rows are not determined, `Misread` the texts from which
another statement is heard, `Misprinted` the trees that `toString` writes wrongly. Each rule is an exception of
a property, so the run `sql` can include the statements it is about; without any one of them that run
fails.

## The runs

Every run finishes in at most about two minutes. Deadlock is checked except where a system may stop.

| Run | Instance | Shows |
|---|---|---|
| `lru` | 4 frames, half of them old | type, `ListConsistent` (counters, map and list agree), `Rebalanced` (the old sublist exceeds its share only with no young frame left), `IsEvictionQueue` (the calls do what the header says, except on frames pinned while listed) |
| `page` | 8 usable bytes, rows of 1, 2 and 3 bytes | type, `LayoutOK` (directory and records do not overlap), `CompactReclaims` (no byte is lost by compaction), `IsSlotStore`, `RoomAgrees` and `IsHeapPage` (free space is what sizes and slots say, a row is let in exactly when it fits) |
| `pool_single` | 1 thread, 2 frames, 3 pages; reads, checkpoints and allocations may fail | `CleanIsOnDisk`, `NoFrameLost`, `PinnedStays`, `NothingLost` (no page is older than a client has seen it), `IsPageStore`: how the storage manager uses the pool, it is right |
| `pool_threads` | 2 threads, 1 page, latches, flushes | type, `PinsAccounted`, `FlushesCurrent`, `NoFrameLost`, `NothingLost`, `IsPageStore`, and `CallsReturn` |
| `pool_race` | 2 threads, 1 frame, 3 pages | `CallsReturn` in the one situation where a fetch waits for another's load |
| `catalog` | 2 tables, 2 schemas, 2 creations each, crashes, failing opens (of CREATE and of `load()`) and saves, an unreadable catalog.meta | type, `AnswersHold` (an answer stays true, except for a table `load()` passed over), `RowsOfThisTable` (no row of an earlier table, except over such a table) |
| `heap` | pages of 5 bytes, at most 2, rows of 1, 2, 5 and 7 bytes, 2 keys, one update of each row; reads may fail | type, `TidsStay` (the second pass finds every row where the first did), `StatementsExact` (a statement that met no failure did what it says, once, to every row that matched), `IsRowStore` (no row is lost or comes back, whatever is evicted or fails) |
| `sql` | tables T (INTEGER, BIGINT, VARCHAR NOT NULL) and U (INTEGER NOT NULL, DOUBLE), T alone with up to 3 rows or both with up to 2, NULLs, or both and V (INTEGER) with one row; over a hundred and fifty statements, those on which code and texts disagree among them, those on empty tables in four layouts, texts whose lines join badly, and lines that are no statement | type, `StatementArrives` (what is executed is the tree that was typed, but for `Misread`), `PrintedTextParses` (`toString` of a statement is read back as the same tree, but for `Misprinted`), `SelectExact`, `GroupsExact`, `JoinExact` (the answer is the one SQL defines, or an error where it has none, after the rules of `SqlDeviations`), `ComparatorOrders` (what `std::sort` is given is a strict weak order), `TablesExact` (a statement changes the tables as it says or not at all, after those rules), `Answered` (the prompt comes back) |
| `pool_pinned`, `pool_lost_write`, `catalog_rollback`, `sql_integers` | - | [disagreements](#where-the-code-and-its-texts-disagree) |

**Bounds and why they are enough.** Four frames with an old share of two reach every branch of
`rebalance`, `Access` and `Evict`, both sublists empty, one or several, and frames that are unlinked but
mapped. Eight bytes hold up to four rows with holes between them, more live and dead slots than one, a
compaction that moves records over each other, and updates that grow, shrink and fill the page exactly;
`Word` is 32 so that nothing wraps there, as `RecordAssumption` says. One thread with
two frames and three pages evicts clean, dirty and never-loaded victims; two threads are the most that
compete for one frame latch or one load, and one frame makes every miss an eviction. `MaxVersion` and
`MaxPages` bound changes and allocations; at the bound clients stop asking. Two tables are what a save of
another table needs, two schemas tell a re-created table from the old one, two creations make a name
reused. In `heap` a page holds one or two rows, so that updates stay in their page, fill it exactly, need
its compaction, move to the next page or find the disk full; a row of 5 fits no page, one of 7 is above
`SizeLimit` and refused at once. A key is inserted again only when its row is gone (two rows of a key arise
from a move whose deletion fails). Keys are interchangeable and everything checked there is safety, so the
symmetry is sound. In `sql` the user chooses from the statements that are of interest for the tables as
they are: every clause on every T of up to three rows (`MaxRows`), every operator of conditions, which see one row,
on up to two, and joins on every pair of tables of up to two, in which each column has NULLs, equal values and different ones, so that a sort has
ties, a group several rows, DISTINCT duplicates, a join several partners and none. A third table, with a column that another
has, is there for the joins of three. Rows that were updated are not
inserted beside again, and a row with values of the wrong types stands alone. Each statement goes through command line, lexer, parser, executor and back. The bounds
in guards are `MaxPages`, `MaxVersion`, `MaxVer`, `MaxPins`, `MaxCreates` and `MaxRows`; `MaxPages` is the full
disk in `HeapTable`.

**Fairness.** `FairSpec` of `BufferPool` is weak fairness of the step that continues a thread's call: a
thread in a call is scheduled. Nothing is assumed of the fairness of locks, nor that clients call again.
`CallsReturn` says that when, from some point on, no new call begins, the calls in progress return:
waiting for a latch or spinning on a loading frame always ends. With new calls for ever a thread may be
overtaken without end, which the code does not exclude (`std::shared_mutex` promises no order).
`SqlSession` assumes that the program takes its steps: it is one thread, and waits for nothing but a line.
The user need not say anything; `Answered` says that when he did, the command line comes back to its prompt
or ends. The fairness of `Statement` is written out with the condition `Ready` under which it is enabled, for
TLC would parse and compute every query to find that out.

**What races do.** With two threads and several pages much of what `pool_single` and `pool_threads` check
is false: two threads that miss the same page load it into two frames (`buffer_pool.cpp:71`), a victim
being flushed is still found in `page_table_` (224), and a transfer may hit the page another thread
sought (`disk_manager.cpp:109`). In the instance of `pool_race`, `PinsAccounted`, `PinnedStays`,
`NothingLost`, `NoFrameLost` and `CleanIsOnDisk` fail, and the replacer may follow a null link. All of it
needs a miss or an eviction, but for one thing: two flushes may write over each other's pages on disk, so that
`CleanIsOnDisk` is false with two threads even where nothing is evicted. Everything else then holds: `pool_threads` checks it
for one page, the proofs show it for any number of threads and pages. The texts do promise concurrent access
(`docs/superpowers/specs/2026-03-24-buffer-pool-design.md:44-47` and `:240-243`, `buffer_pool.h:24-29`,
`frame.h:31-36`), and with a miss the pool does not keep it; the program has one thread, so that nothing in it meets
these races, and they stand in `PROJECT.json` as hazards. What survives, that no call hangs, is checked.

## The proofs

Eight modules of proofs (two of them lemmas), checked by TLAPS with no assumption but the named ones on constants
and the hypotheses that a theorem states: for pages on the size of rows, for the pool on its clients.

**LruReplacerProofs**, for every `PoolSize \in Nat \ {0}` (`PoolSizeAssumption`; a pool has a frame) and
every integer percentage (`OldPctAssumption`; the code clamps it): `TypeCorrect`, `Consistency`,
`Balance` and `Refinement` (the replacer implements `EvictionQueue`: each call is a step as the header says, or
one of the two departures, on a stranded frame only). The inductive invariant `IInv` is
`LruOK` - the sublists repeat no frame, share none, their lengths are the counters, and every listed
frame is mapped - together with `Balanced`, that the old sublist is within its share or there is no young
frame. Neither property alone is inductive: a counter stays right only because a frame is listed once, and
the balance only because the counters `rebalance` reads are right. The lemmas on sequences (taking an
element out of a concatenation, putting one at the border) carry the refinement: each call's effect on
`young` and `old` is one on `young \o old`. What a call does to a list is stated once, in **LruListProofs**,
and cited by the proofs about the pool too.

**CatalogStoreProofs**, for any set of tables and schemas and any failing calls (`CatalogAssumption`: the
marks for "no table" and for the answers "unknown", "failed" and "undropped" are not schemas): `TypeCorrect`,
`Answers` and `OwnRows`, with the exceptions of the properties: a table that `load()` passed over is missing, and
one created over it holds its rows.
`AnswersHold` and `RowsOfThisTable` speak of a running process, and say nothing of what a crash leaves
for the next one. `IInv` adds that an answer is also in catalog.meta and in the files (`AnswersOK`: a
dropped table is out of catalog.meta, or its file is gone), that rows are only in files catalog.meta
knows (`RowsOK`), that Catalog and `schemas_` agree on usable tables (`CatalogOK`), that identifiers are
those of open files (`HandlesOK`), and what a statement in progress has done (`StatementOK`). One lemma
per action shows that the step keeps it.

**SlottedPageProofs**, for every page, header and slot size (`SizeAssumption`, `RecordAssumption`) and rows whose
size with a slot entry does not wrap in a `uint16_t` (`NoneWraps`, a hypothesis of each theorem: without it
`insertRecord` lets in a row that has no room): `TypeCorrect`, `LayoutSound`, `Reclaims`, `Refinement` (the page
implements `SlotStore`), `RoomRefinement` (it implements `PageRoom`) and `RoomCounted` (a row is accepted exactly when
`HeapTable` says it fits). The inductive invariant `Sound` is `LayoutOK` with the shape of the page and `CursorsOf`: the
directory ends where its slots do, unless the page was never formatted. Compaction is the work: it places
each record by the number of bytes of the live records before it (`Top`), so the lemmas count sets of bytes. The
records of a sound page lie one to one behind `upper` (`BytesFit`), hence no place goes below `upper` and none
overlap (`Tops`, `CompactSound`), and as the places are as many as the bytes, no hole is left. `UpdateFits` is
why "Insertion failed unexpectedly" is not reachable: deleting a record and compacting gives back its size.
`RoomRefinement` counts the same bytes twice, as places in the body and as pairs of a slot and an index
(`LiveSize`), with a bijection between them.

**BufferPoolProofs** (with **BufferPoolLemmas**), for every size of pool and file, every percentage, every set of
`Ops` (latches included) and any failing I/O: `TypeCorrect`, `PinnedInPlace`, `Pins`, `FramesKept`, `CleanOnDisk`,
`NoLateFlush`, `Refinement` (the pool implements `PageStore`) and `ChangesStay` (`NothingLost`). Each has the hypothesis `OneClient`: there is one
thread, and it has at most one page at a time (`MaxPins <= 1`). That is how the program uses the pool: `main.cpp`
starts no thread, and `StorageManager` and the iterator unpin a page before they fetch another. It is needed:
with two pins the run `pool_pinned` takes a page from under its client, and with two threads the races above break
the rest, in a pool that loads and evicts. `Refinement` and `ChangesStay` also have `"write" \notin Faults`, without which the run `pool_lost_write` loses a page.
`ChangesStay` needs no invariant of the pool: `StoreKeeps` proves of `PageStore` that nobody has seen a page newer than it
is, and what implements `PageStore` inherits it.
The inductive invariant `IInv` is `Good` of pool, file and the client's call and pages:

- `PoolOK`: table and frames say the same of which page is where, and only a frame with a page is in the
  replacer's list; `FileOK`: every page of the file has been written, and no other is cached;
- `HeldOK`, `PinsOK`: the client has one page or none, in the frame the table gives, and a count of pins is the sum
  of the client's pin and that of a latch call in progress;
- `KeptOK`: a page nobody has pinned is in the list, unless it is the victim of an eviction or rejoins;
- `CleanOK`: what is not dirty is on disk, unless a flush of it is on its way or has failed, or the client has
  changed it and will say so when it unpins;
- `CallOK`: for each place in a call, what that call has already established (the position of the file is the one
  sought, the buffer has what the frame has, the victim is clean and out of the list). A call that looks for
  a frame belongs to a client that holds none (`Wants`): that, and not the replacer, is why a frame which
  a cache hit left in the list is never evicted under its client.

One lemma per step of the client says that it leaves a good state (`Leaves`) and that it shows in `PageStore` as one
of its steps or as none (`Shows`).

The second part of **BufferPoolProofs** is about threads. Its theorems have the hypothesis `Resident`: a finite number of
threads, a file that was created with the pool and has a frame for each of its pages, so that nothing is
loaded or evicted and only latches, pins, flushes and the mutex are left. Any number of pins, all of `Ops`, and any
failing I/O are allowed: `ResidentTypes`, `ResidentPins`, `ResidentPinned`, `ResidentFrames`, `ResidentNothingLost`,
`ResidentRefinement` (the pool implements `PageStore`, here without a condition on failing writes: without evictions nobody
reads the disk), and `ResidentFlushes`, which needs `"modify" \notin Ops`, clients that change a page under its write latch
only, or a page may change between the copy of a flush and its write. The invariant `ResidentInv`:

- `Resides`: page `p` is in frame `p`, because `NewPage` takes the lowest empty frame under the mutex;
- `Fits`, for each thread by itself: what its call has established (`CallFits`: the page allocated is the next one, the
  frame is the page's, a call that has the frame latch exclusively is its writer, and there is one writer), which pages
  it holds, and that no page is older than what it saw;
- `Pinned`: the pin count of a frame is the number of threads that hold it plus the number that are in a latch call on it.
  No count of one thread says that: it is what keeps `pin_count` above zero when a latch call gives back its own pin;
- `Kept`: a page nobody has pinned is in the list, or a thread is about to put it there;
- `WithinReach`: with flushes interleaved the shared position may be past the end of the file, by one page for each thread
  that has still to write.

A step of one thread changes one call and one frame: `Turned`, `OnFrame` and `OffFrames` say what that leaves of the
invariant for the other threads, `Recount` how a count of threads changes with one of them.

**HeapTableProofs**, for every room of a page, slot size, sizes of rows, keys, number of pages and failing reads
(`HeapAssumption`, `NoRowAssumption`: sizes are not zero, a deleted slot is no row): `TypeCorrect`, `TidsStable`,
`Exactness` and `Refinement` (the table implements `RowStore`). `IInv` has four parts. `HeapOK`: free space, slots and
live records fit a page together, because the in-place branch of `updateRow` tests bytes before it deletes
and must not fail after; and a clean page is on disk as it is in memory, so that `Evict` changes nothing. The set
of record identifiers is finite, so that rows can be counted. `StmtOK`: each row a statement has left is where its first
pass found it, and is there once. A row that moves takes an identifier nobody has, slots are never
renumbered, and a row that was deleted is off the list, so that no step touches a row whose turn has yet
to come. `GoalOK`: counting, for every row, the places where it will be once the statement has done what it has
left gives the statement's goal; each step of the second pass keeps that count (`Places`), and at the end it is
the bag of rows.

**SqlOrderProofs**, for all values but NaN (`Values`: integers of any size, fractions, strings over the alphabet,
truth values, NULL): `TiesAreEqual` (`compareValues` is 0 exactly for values that are `equals`, so ORDER BY, GROUP BY
and DISTINCT agree on what is the same), `ComparatorIsStrictWeakOrder` (for any sort keys, directions and rows, columns
of mixed types included), `RowsEqualIsEquivalence`, and `NaNBreaksOrder`, which shows that NaN has to be left out:
beside 1 and 2 it ties with both. Numbers are compared as fractions; that this is transitive is a
statement about products, with no help from the provers but multiplication by a positive number. Strings and rows are
both decided at the first place where two of them differ (`FirstDifference`, `Decided`); transitivity is a
comparison of such places. The run `sql` checks `ComparatorOrders`, that a sort key of a statement and the rows it is
given are such; the module that states it reaches recursive operators, so no theorem can name it.

Only model-checked: the SQL layer but for its order; the pool with several threads and more pages than frames
(`pool_race`), where most of what the theorems say is false; that the pages of the table are pages of the pool,
which no module composes: `HeapTable` has its own caching, with `Evict`. Out of the prover's reach:
`CallsReturn` and `Answered` (liveness), and what the recursive operators of the SQL layer compute.

## Where the code and its texts disagree

| Run | Text | Code |
|---|---|---|
| `pool_pinned` | `frame.h:41`: pin count ">0 -> not evictable" | a cache hit calls `Access`, not `Pin`: the frame stays evictable. The storage manager survives it because it keeps one pin at a time: an iterator runs to its end, and unpins, before rows are changed or a second table is read |
| `pool_lost_write` | `buffer_pool.cpp:264`: "restore dirty flag so we retry later" | `findVictim` drops the page whatever became of the write |
| `catalog_rollback` | `executor.cpp:70`: "Disk creation failed - rollback catalog change" | `schemas_` keeps the table, the next save persists it |
| `sql_integers` | `executor.cpp:167`: "Map integer literals to the column's expected type" | an integer for a DOUBLE column stays an INTEGER, and the serializer reads its bytes as a double: 2 is stored as 0 |

No run of its own shows the following. Those about statements and values are rules of `SqlDeviations`: the run `sql`
includes statements on which they show and compares the answer with the rule; those about the replacer and
the catalog are exceptions of `IsEvictionQueue`, `AnswersHold` and `RowsOfThisTable`. What the models leave out is
said with each.

Storage:

- `Unpin` inserts a frame unless it "is already in the list" (`lru_replacer.h:42`), but tests `nodes_`, where
  `Pin` leaves its entry (`lru_replacer.cpp:55`): a frame pinned while listed never returns, and its next `Pin`
  or `Access`, a "no-op" of `lru_replacer.h:49`, follows null links. The pool itself never calls `Pin` on a
  listed frame.
- "Need space for the record data plus one new slot entry" (`page.h:102`): the sum wraps in `uint16_t` for
  sizes of 65532 and more, which `insertRow` lets through. The runs and proofs about the page stay below.
- A promoted frame loses its place when the old sublist is over its share, because `rebalance` moves the
  whole young sublist into the old one (`lru_replacer.h:23`).
- `NewPage` has extended the file when it finds no frame, and the empty page stays.
- `main` ignores the answer of `load()` (`main.cpp:50`), and a catalog.meta that cannot be opened is taken for
  none (`storage_manager.cpp:106`): the program starts with no table, and the next save forgets them all. A
  `fflush` or `fclose` that fails is not noticed, so that a short catalog.meta.tmp may be renamed over a good one
  (`storage_manager.cpp:86`). The model has a catalog.meta that cannot be read, whatever the reason, but
  keeps its entries until the next save.
- A table whose file does not open is passed over at start without a word (`storage_manager.cpp:198-199`); a
  CREATE TABLE of its name then takes its file, with its rows (`storage_manager.cpp:220-223`).
- `openFile` takes any failure of `fopen` for a missing file and creates it (`disk_manager.cpp:22-27`), which
  empties a file that is there.
- An exception of `std::filesystem` in `dropTableFile` is caught by nobody.
- After a DROP TABLE that was interrupted before its save, catalog.meta keeps an entry without a file, and an
  interrupted CREATE TABLE of the same name with another schema brings the table up with the old schema.

Text and statements:

- A lexer error is the end of the input to the parser (`parser.cpp:14-21`): `DELETE FROM t @ WHERE a = 1` deletes
  every row. What follows a complete statement is not looked at either.
- Lines are joined by a blank, not a newline (`repl.cpp:35`), so a `--` comment swallows the lines after it, a
  WHERE included. A `;` at the end of a line completes the statement inside a string or comment too. After an
  empty line `\q` is no command (`repl.cpp:27,49`). A statement without rows prints nothing, where
  `openspec/changes/cli-repl-tool/specs/cli-repl/spec.md:73-81` has an answer.
- `toString` does not double a quote in a string, writes six digits of a fraction, no parentheses around NOT or
  IS NULL as operands (`NOT (a) IS NULL` is written for two trees) nor around the sign of a LIKE pattern, and a
  CROSS JOIN as a comma even behind an explicit JOIN, where it is no longer read.
- INSERT ignores its list of columns. An integer stored in a VARCHAR column is the empty string.

Values and expressions:

- An integer literal is a BIGINT and arithmetic on it a DOUBLE, which an UPDATE stores unconverted: `SET a = a + 1`
  makes an INTEGER column 0. IN and NULLIF compare types, so `a IN (1, 2)` on INTEGER never holds
  (`docs/superpowers/specs/2026-03-11-seeddb-design.md:380-384`), and BETWEEN orders by type id
  (`openspec/changes/expression-enhancement/design.md:82`). NULL in the list of NOT IN is passed over
  (`openspec/changes/expression-enhancement/design.md:75-76`).
- AND and OR of a NULL are not three-valued under NOT. A number used as a condition is read as a `bool`, which
  is undefined for most bytes (`value.h:141`); the model gives that no value, and the run has no such condition.
- A column that no table has is NULL and no error
  (`openspec/changes/cli-repl-tool/specs/cli-repl/spec.md:104-106`).
- MOD compares its divisor with 1 where it means 0 (`function.cpp:234`, against
  `docs/superpowers/specs/2026-03-22-builtin-functions-design.md:197`). A NaN breaks the comparator of
  `std::sort` and the equality of group keys. SUM adds in a double (`aggregate.h:140`).

Queries:

- `HAVING COUNT(*) > 1` is never true (`docs/superpowers/specs/2026-03-11-seeddb-design.md:371`), for COUNT is an
  INTEGER and the literal a BIGINT; HAVING with IS NULL neither, and without groups HAVING is ignored. SUM and
  AVG of a BIGINT column are refused, and so is an ORDER BY an alias of a query with groups. DISTINCT is ignored
  in SUM and AVG and in a SELECT with groups. Aggregates within COALESCE or CASE are not recognised.
- ORDER BY takes the wrong column when an expression stands before it in the select list, and ignores what is
  not selected (`openspec/changes/result-set-operations/specs/order-by/spec.md:8,37-41`). Aliases are not shown
  (`openspec/changes/result-set-operations/specs/column-alias/spec.md:9`). "maintain original order"
  (`executor.cpp:1056`) is not what `std::sort` does.
- The header of an answer is that of the first table, and rows are cut to its length, in joins too. Joins
  ignore GROUP BY, HAVING and aggregates (`docs/superpowers/specs/2026-03-23-join-support-design.md:384-388`) and
  the qualifiers of columns (`resolveColumnInJoinedContext` is never called); LEFT and RIGHT JOIN are refused.
  With three tables an ON condition finds columns beyond the row it has (`executor.cpp:1172-1180`), and so
  does an ORDER BY beyond the projected row; in the run such a join shows some of the rows of the cross product
  (`IsPart`).

## What is not modelled

- In the SQL layer: rounding and overflow of numbers, characters outside the small alphabet (upper and lower
  case of names are not told apart), wording and places of error messages, widths and lines of a printed table.
  The layout of the bytes of a row (NULL bitmap, lengths), which only `SlottedPage` sees, as an opaque string.
- What memory holds behind the end of a row, which the joins of three tables read: NULL or 1 stand for it.
- NaN, beyond what `MOD(x, 0)` makes of it: the run has no other, and the theorems about order exclude it.
- Crashes between changes of rows: recovery of rows is out of scope of SeedDB by design
  (`docs/superpowers/specs/2026-03-30-disk-based-execution-design.md:22`), and a row that moved may be lost
  when its old page reached the disk and its new one did not.
- The bytes of catalog.meta, numbering of files, `PageId` and `TID` (packed numbers), `Config`, `Logger`,
  `Error`, `main`: formats and plain I/O. A failing `fclose` in `saveCatalogMeta` by its
  effect on a start only: see above.
- `deallocatePage`, which nothing calls.

## Plan

In this order, the most important behaviour first:

1. `LruList`, `LruReplacer`, `EvictionQueue` and their proofs - done.
2. `SlottedPage`, `SlotStore`, `PageRoom` and their proofs - done.
3. `BufferPool`, `PageStore` and their proofs, for one client and for many threads without evictions - done. For several
   threads with evictions `PinsAccounted` and `NoFrameLost` do not hold; `CallsReturn`, which `pool_race` checks, is left.
4. `CatalogStore` and its proofs - done.
5. `HeapTable` over `HeapPage`, `RowStore` and their proofs - done.
6. The SQL layer: values, expressions, aggregates, rows, queries, text, grammar and the session - done. Its
   operators are recursive, which keeps them with TLC, except those of `SqlValues` and `SqlOrder`, of which the
   order is proved.
7. Left: failing storage under a session (`SqlSession` over `HeapTable` and `CatalogStore` instead of tables that
   never fail), and a table file with its bytes.
