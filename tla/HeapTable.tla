----------------------------- MODULE HeapTable -----------------------------
(***************************************************************************)
(* The rows of one table: insertion, update and deletion over the pages of *)
(* its file (StorageManager), the iterator over them (HeapTableIterator)   *)
(* and the statements that use it (Executor): INSERT, and the two passes   *)
(* of UPDATE and DELETE.                                                   *)
(*                                                                         *)
(* Pages are those of HeapPage; SlottedPage has their bytes.  The          *)
(* buffer pool below keeps a changed page in memory until it is evicted,   *)
(* and forgets a page it believes unchanged.  A page that must be read may *)
(* fail to be; a file at its greatest size cannot be extended.  Writes do  *)
(* not fail, and the process ends by flushing its pages: there is no       *)
(* recovery of rows.  Sizes do not wrap (see SlottedPage).  Page and slot  *)
(* numbers start at 1.                                                     *)
(***************************************************************************)
EXTENDS HeapPage

CONSTANTS
    SizeLimit,  \* UINT16_MAX: a larger row is refused at once
    Sizes,      \* sizes of serialized rows
    Keys,       \* what WHERE tells rows apart by
    MaxVer,     \* bound: times a row is updated
    MaxPages,   \* pages the disk has room for
    Faults      \* failing calls: subset of {"read"}

ASSUME HeapAssumption ==
    /\ Capacity \in Nat /\ SlotSize \in Nat \ {0} /\ SizeLimit \in Nat
    /\ Sizes \subseteq Nat \ {0} /\ MaxVer \in Nat /\ MaxPages \in Nat
    /\ Faults \subseteq {"read"}

Rows == [key : Keys, ver : 0 .. MaxVer, size : Sizes]

ASSUME NoRowAssumption == NoRow \notin Rows

VARIABLES
    heap,   \* pages: as the process sees them; dirty: those marked as changed;
            \* saved: the others on disk (what a dirty page has there is never read)
    stmt    \* the statement in progress and what it has left to do

vars == <<heap, stmt>>

-----------------------------------------------------------------------------
\* The calls of StorageManager, as the set of what they may do to a heap h and
\* answer.  failed is set when a page could not be read.

Changed(h, p, page) ==
    [h EXCEPT !.pages[p] = page, !.dirty = @ \cup {p}, !.saved[p] = ZeroPage]

Outcome(h, ok, failed) == [heap |-> h, ok |-> ok, failed |-> failed]

MayFail == "read" \in Faults

\* NewPage, and the insertion into that page; it stays when the row does not fit.
NewPageOutcomes(h, row, failed) ==
    IF Len(h.pages) = MaxPages
    THEN {Outcome(h, FALSE, failed)}
    ELSE LET p == Len(h.pages) + 1
             new == [pages |-> Append(h.pages, FormattedPage),
                     saved |-> Append(h.saved, ZeroPage),
                     dirty |-> h.dirty \cup {p}]
         IN  IF Fits(FormattedPage, row)
             THEN {Outcome(Changed(new, p, Inserted(FormattedPage, row)), TRUE, failed)}
             ELSE {Outcome(new, FALSE, failed)}

\* insertRowInternal: into the last page, or else into a new one.
InsertOutcomes(h, row) ==
    LET last == Len(h.pages)
    IN  (IF last > 0 /\ Fits(h.pages[last], row)
         THEN {Outcome(Changed(h, last, Inserted(h.pages[last], row)), TRUE, FALSE)}
         ELSE NewPageOutcomes(h, row, FALSE))
        \cup (IF last > 0 /\ MayFail THEN NewPageOutcomes(h, row, TRUE) ELSE {})

\* updateRow in the page itself: delete, compact, insert.
UpdateInPage(h, p, s, new) ==
    LET page == Compacted(Erased(h.pages[p], s))
    IN  IF Fits(page, new)
        THEN Outcome(Changed(h, p, Inserted(page, new)), TRUE, FALSE)
        ELSE Outcome(Changed(h, p, page), FALSE, FALSE)

\* Mutated form: the old row is deleted before the new one is inserted.
MoveOutcomesLosing(h, p, s, new) ==
    InsertOutcomes(Changed(h, p, Erased(h.pages[p], s)), new)

\* Mutated form: the page of the deleted row is not marked as changed.
MoveOutcomesClean(h, p, s, new) ==
    UNION {IF o.ok THEN {[o EXCEPT !.heap.pages[p] = Erased(@, s)]} ELSE {o} :
           o \in InsertOutcomes(h, new)}

\* updateRow across pages: insert, then delete the old row if its page can be
\* fetched again.
MoveOutcomes(h, p, s, new) ==
    UNION {IF o.ok
           THEN {[o EXCEPT !.heap = Changed(@, p, Erased(@.pages[p], s))]}
                \cup (IF MayFail THEN {[o EXCEPT !.failed = TRUE]} ELSE {})
           ELSE {o} :
           o \in InsertOutcomes(h, new)}

UpdateOutcomes(h, p, s, new) ==
    (IF new.size > SizeLimit \/ h.pages[p].slots[s] = NoRow
     THEN {Outcome(h, FALSE, FALSE)}
     ELSE IF FitsInPlace(h.pages[p], s, new)
          THEN {UpdateInPage(h, p, s, new)}
          ELSE MoveOutcomes(h, p, s, new))
    \cup (IF MayFail THEN {Outcome(h, FALSE, TRUE)} ELSE {})

DeleteOutcomes(h, p, s) ==
    {Outcome(Changed(h, p, Erased(h.pages[p], s)), TRUE, FALSE)}
    \cup (IF MayFail THEN {Outcome(h, FALSE, TRUE)} ELSE {})

-----------------------------------------------------------------------------
\* Statements.

\* Where the live rows are: tid.h.
TidsOf(pages) == UNION {{[page |-> p, slot |-> s] : s \in LiveSlots(pages[p])} : p \in DOMAIN pages}

RowIn(pages, tid) == pages[tid.page].slots[tid.slot]

RowAt(tid) == RowIn(heap.pages, tid)

\* How often the table has each row.
Bag(pages) ==
    [row \in Rows |-> Cardinality({tid \in TidsOf(pages) : RowIn(pages, tid) = row})]

NoBag == [row \in Rows |-> 0]

Unreadable == IF MayFail THEN SUBSET DOMAIN heap.pages ELSE {{}}

\* Mutated form: the iterator stops before the last page.
ScannedButLast(skipped) ==
    {tid \in TidsOf(heap.pages) : tid.page \notin skipped /\ tid.page # Len(heap.pages)}

\* What the iterator comes to: the live slots of every page, except of those it
\* fails to read.
Scanned(skipped) == {tid \in TidsOf(heap.pages) : tid.page \notin skipped}

\* It goes from page to page and from slot to slot: a row is as far as there are
\* rows before it.
Before(a, b) == a.page < b.page \/ (a.page = b.page /\ a.slot < b.slot)

InOrder(tids) ==
    [k \in 1 .. Cardinality(tids) |->
        CHOOSE tid \in tids : Cardinality({other \in tids : Before(other, tid)}) = k - 1]

Matching(skipped, K) == InOrder({tid \in Scanned(skipped) : RowAt(tid).key \in K})

\* Between statements. exact and goal are for StatementsExact: whether the last
\* statement met no failure, and what it should have made of the table.
Idle(exact, goal) == [op |-> "none", todo |-> <<>>, exact |-> exact, goal |-> goal]
Failed == Idle(FALSE, NoBag)

Init ==
    /\ heap = [pages |-> <<>>, saved |-> <<>>, dirty |-> {}]
    /\ stmt = Idle(TRUE, Bag(<<>>))

\* Bound: a key is inserted when no live row has it.
InsertStmt(key, size) ==
    LET row == [key |-> key, ver |-> 0, size |-> size]
        before == Bag(heap.pages)
    IN  /\ stmt.op = "none"
        /\ \A r \in Rows : r.key = key => before[r] = 0
        /\ \/ /\ size > SizeLimit
              /\ stmt' = Idle(TRUE, before)
              /\ UNCHANGED heap
           \/ /\ size <= SizeLimit
              /\ \E o \in InsertOutcomes(heap, row) :
                    /\ heap' = o.heap
                    /\ stmt' = Idle(TRUE, IF o.ok THEN [before EXCEPT ![row] = 1] ELSE before)

Updated(row, size) == [row EXCEPT !.ver = @ + 1, !.size = size]

\* How often the table should have each row afterwards.
AfterUpdate(K, size) ==
    [row \in Rows |->
        Cardinality({tid \in TidsOf(heap.pages) :
            row = IF RowAt(tid).key \in K THEN Updated(RowAt(tid), size) ELSE RowAt(tid)})]

AfterDelete(K) == [row \in Rows |-> IF row.key \in K THEN 0 ELSE Bag(heap.pages)[row]]

\* UPDATE of the rows with a key of K: first all rows are read.
UpdateStmt(K, size) ==
    LET before == Bag(heap.pages)
    IN  /\ stmt.op = "none"
        /\ \A row \in Rows : row.key \in K /\ before[row] > 0 => row.ver < MaxVer
        /\ \E skipped \in Unreadable :
              LET tids == Matching(skipped, K)
              IN  stmt' = [op |-> "update",
                           todo |-> [k \in DOMAIN tids |->
                                        [tid |-> tids[k], old |-> RowAt(tids[k]),
                                         new |-> Updated(RowAt(tids[k]), size)]],
                           exact |-> skipped = {},
                           goal |-> IF skipped = {} THEN AfterUpdate(K, size) ELSE NoBag]
        /\ UNCHANGED heap

\* The next of the rows read is updated; one failure ends the statement.
UpdateRow ==
    /\ stmt.op = "update" /\ stmt.todo # <<>>
    /\ LET next == Head(stmt.todo)
       IN  \E o \in UpdateOutcomes(heap, next.tid.page, next.tid.slot, next.new) :
              /\ heap' = o.heap
              /\ stmt' = CASE ~o.ok             -> Failed
                          [] o.ok /\ o.failed  -> [stmt EXCEPT !.todo = Tail(@), !.exact = FALSE,
                                                               !.goal = NoBag]
                          [] o.ok /\ ~o.failed -> [stmt EXCEPT !.todo = Tail(@)]

\* DELETE, likewise.
DeleteStmt(K) ==
    /\ stmt.op = "none"
    /\ \E skipped \in Unreadable :
          LET tids == Matching(skipped, K)
          IN  stmt' = [op |-> "delete",
                       todo |-> [k \in DOMAIN tids |->
                                    [tid |-> tids[k], old |-> RowAt(tids[k]), new |-> NoRow]],
                       exact |-> skipped = {},
                       goal |-> IF skipped = {} THEN AfterDelete(K) ELSE NoBag]
    /\ UNCHANGED heap

DeleteRow ==
    /\ stmt.op = "delete" /\ stmt.todo # <<>>
    /\ LET next == Head(stmt.todo)
       IN  \E o \in DeleteOutcomes(heap, next.tid.page, next.tid.slot) :
              /\ heap' = o.heap
              /\ stmt' = IF o.ok THEN [stmt EXCEPT !.todo = Tail(@)] ELSE Failed

EndStmt ==
    /\ stmt.op # "none" /\ stmt.todo = <<>>
    /\ stmt' = IF stmt.exact THEN Idle(TRUE, stmt.goal) ELSE Failed
    /\ UNCHANGED heap

\* The buffer pool needs the frame of a page: a changed page is written, an
\* unchanged one will be read again.
Evict(p) ==
    /\ heap' = IF p \in heap.dirty
               THEN [heap EXCEPT !.saved[p] = heap.pages[p], !.dirty = @ \ {p}]
               ELSE [heap EXCEPT !.pages[p] = heap.saved[p]]
    /\ heap' # heap
    /\ UNCHANGED stmt

Next ==
    \/ \E k \in Keys, size \in Sizes : InsertStmt(k, size)
    \/ \E K \in SUBSET Keys \ {{}}, size \in Sizes : UpdateStmt(K, size)
    \/ \E K \in SUBSET Keys \ {{}} : DeleteStmt(K)
    \/ UpdateRow \/ DeleteRow \/ EndStmt
    \/ \E p \in DOMAIN heap.pages : Evict(p)

Spec == Init /\ [][Next]_vars

-----------------------------------------------------------------------------

Page == [slots : Seq(Rows \cup {NoRow}), free : 0 .. Capacity]

\* The shape of the table: free space never drops below zero.
TypeOK ==
    /\ heap.pages \in Seq(Page) /\ heap.saved \in Seq(Page)
    /\ Len(heap.saved) = Len(heap.pages) /\ Len(heap.pages) <= MaxPages
    /\ heap.dirty \subseteq DOMAIN heap.pages
    /\ stmt.op \in {"none", "update", "delete"} /\ stmt.exact \in BOOLEAN

\* "Two-pass to avoid iterator invalidation from page migration"
\* (executor.cpp:260): when the second pass comes to a row, it is where the first
\* pass found it, whatever was updated, moved, compacted or deleted before it.
TidsStay ==
    \A i \in DOMAIN stmt.todo : RowAt(stmt.todo[i].tid) = stmt.todo[i].old

\* A statement that met no failure did what it says to every row that matched,
\* once, and nothing to the others; an INSERT that is refused changes nothing.
StatementsExact ==
    stmt.op = "none" /\ stmt.exact => Bag(heap.pages) = stmt.goal

\* Evictions, failing reads and a full disk neither lose a row nor bring one
\* back: the table is a bag of rows that only its statements change, one row at
\* a time, and "we don't lose data if insert fails" (storage_manager.cpp:329).
Table == INSTANCE RowStore WITH AllRows <- Rows, rows <- Bag(heap.pages), op <- stmt.op
IsRowStore == Table!Spec
=============================================================================
