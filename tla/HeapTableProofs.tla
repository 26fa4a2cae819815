-------------------------- MODULE HeapTableProofs --------------------------
(***************************************************************************)
(* Proofs about HeapTable, for every capacity, number of pages and rows:   *)
(* second passes find their rows, statements do exactly what they say, and *)
(* the table is the bag of rows RowStore promises.                         *)
(***************************************************************************)
EXTENDS HeapTable, FiniteSetTheorems, SequenceTheorems, TLAPS

-----------------------------------------------------------------------------
\* The invariant.

\* Free space, slots and live records fit the page together; deleted records may
\* leave a gap until compact().
PageOK(page) ==
    /\ page \in Page
    /\ IsFiniteSet(LiveBytes(page))
    /\ page.free + SlotSize * Len(page.slots) + LiveSize(page) <= Capacity

\* Pages keep to their room, and what a clean one has on disk is what it is.
HeapOK(h) ==
    /\ h = [pages |-> h.pages, saved |-> h.saved, dirty |-> h.dirty]
    /\ h.pages \in Seq(Page) /\ h.saved \in Seq(Page)
    /\ Len(h.saved) = Len(h.pages) /\ Len(h.pages) <= MaxPages
    /\ h.dirty \subseteq DOMAIN h.pages
    /\ \A p \in DOMAIN h.pages : PageOK(h.pages[p])
    /\ \A p \in DOMAIN h.pages \ h.dirty : h.saved[p] = h.pages[p]

\* What an update may make of a row.
NewVersion(old, new) == new \in Rows /\ new.key = old.key /\ new.ver = old.ver + 1

Tids == [page : Nat, slot : Nat]
Todo == [tid : Tids, old : Rows, new : Rows \cup {NoRow}]

Pending(todo) == {todo[i].tid : i \in DOMAIN todo}

Distinct(todo) == \A i, j \in DOMAIN todo : todo[i].tid = todo[j].tid => i = j

\* A statement s finds the rows it has left to do where it found them, each once.
StmtOK(pages, s) ==
    /\ s = [op |-> s.op, todo |-> s.todo, exact |-> s.exact, goal |-> s.goal]
    /\ s.op \in {"none", "update", "delete"} /\ s.exact \in BOOLEAN
    /\ s.op = "none" => s.todo = <<>>
    /\ s.todo \in Seq(Todo) /\ Distinct(s.todo) /\ Pending(s.todo) \subseteq TidsOf(pages)
    /\ \A i \in DOMAIN s.todo :
          /\ RowIn(pages, s.todo[i].tid) = s.todo[i].old
          /\ s.op = "update" => NewVersion(s.todo[i].old, s.todo[i].new)
          /\ s.op = "delete" => s.todo[i].new = NoRow

\* A statement will make row of the row at tid.
WillBe(todo, tid, row) == \E i \in DOMAIN todo : todo[i].tid = tid /\ todo[i].new = row

\* Where row will be, once a statement has done what it has left.
Places(pages, todo, row) ==
    {tid \in TidsOf(pages) :
        IF tid \in Pending(todo) THEN WillBe(todo, tid, row) ELSE RowIn(pages, tid) = row}

After(pages, todo) == [row \in Rows |-> Cardinality(Places(pages, todo, row))]

\* A statement that met no failure has its goal ahead of it.
GoalOK(pages, s) == s.exact => s.goal = After(pages, s.todo)

IInv ==
    /\ HeapOK(heap) /\ IsFiniteSet(TidsOf(heap.pages))
    /\ StmtOK(heap.pages, stmt) /\ GoalOK(heap.pages, stmt)

-----------------------------------------------------------------------------
\* Pages.

\* The fields of a page.
LEMMA PageFields ==
    ASSUME NEW page \in Page
    PROVE  /\ page.slots \in Seq(Rows \cup {NoRow}) /\ page.free \in 0 .. Capacity
           /\ Len(page.slots) \in Nat /\ DOMAIN page.slots = 1 .. Len(page.slots)
           /\ page.free \in Nat
           /\ LiveSlots(page) \subseteq 1 .. Len(page.slots)
           /\ \A s \in LiveSlots(page) : page.slots[s] \in Rows /\ page.slots[s].size \in Nat \ {0}
<1>1. page.slots \in Seq(Rows \cup {NoRow}) /\ page.free \in 0 .. Capacity
  BY DEF Page
<1>2. Len(page.slots) \in Nat /\ DOMAIN page.slots = 1 .. Len(page.slots)
  BY <1>1, LenProperties
<1>3. \A s \in DOMAIN page.slots : page.slots[s] \in Rows \cup {NoRow}
  BY <1>1, LenProperties
<1>4. \A row \in Rows : row.size \in Nat \ {0}
  BY HeapAssumption DEF Rows
<1> QED
  BY <1>1, <1>2, <1>3, <1>4, HeapAssumption DEF LiveSlots

\* A record of n bytes adds n.
LEMMA OwnBytes ==
    ASSUME NEW s, NEW n \in Nat
    PROVE  IsFiniteSet({s} \X (1 .. n)) /\ Cardinality({s} \X (1 .. n)) = n
<1>1. IsFiniteSet({s}) /\ Cardinality({s}) = 1
  BY FS_Singleton
<1>2. IsFiniteSet(1 .. n) /\ Cardinality(1 .. n) = IF 1 > n THEN 0 ELSE n - 1 + 1
  BY FS_Interval
<1>3. Cardinality(1 .. n) = n
  BY <1>2
<1>4. /\ IsFiniteSet({s} \X (1 .. n))
      /\ Cardinality({s} \X (1 .. n)) = Cardinality({s}) * Cardinality(1 .. n)
  BY <1>1, <1>2, FS_Product
<1> QED
  BY <1>1, <1>3, <1>4

\* A page without slots, of either kind.
LEMMA BlankOK ==
    /\ PageOK(FormattedPage) /\ LiveSlots(FormattedPage) = {}
    /\ ZeroPage \in Page
<1>1. LiveSlots(FormattedPage) = {}
  BY DEF LiveSlots, FormattedPage
<1>2. LiveBytes(FormattedPage) = {}
  BY <1>1 DEF LiveBytes
<1>3. LiveSize(FormattedPage) = 0 /\ IsFiniteSet(LiveBytes(FormattedPage))
  BY <1>2, FS_EmptySet DEF LiveSize
<1>4. FormattedPage \in Page /\ ZeroPage \in Page
  BY HeapAssumption DEF FormattedPage, ZeroPage, Page
<1>5. FormattedPage.free = Capacity /\ SlotSize * Len(FormattedPage.slots) = 0
  BY HeapAssumption DEF FormattedPage
<1> QED
  BY <1>1, <1>3, <1>4, <1>5, HeapAssumption DEF PageOK

\* An inserted row takes the next slot and the room it needs.
LEMMA InsertedOK ==
    ASSUME NEW page, PageOK(page), NEW row \in Rows, Fits(page, row),
           NEW q, q = Inserted(page, row), NEW n, n = Len(page.slots) + 1
    PROVE  /\ PageOK(q)
           /\ n \notin LiveSlots(page) /\ LiveSlots(q) = LiveSlots(page) \cup {n}
           /\ q.slots[n] = row
           /\ \A s \in LiveSlots(page) : q.slots[s] = page.slots[s]
<1>0. /\ page.slots \in Seq(Rows \cup {NoRow}) /\ Len(page.slots) \in Nat /\ page.free \in Nat
      /\ DOMAIN page.slots = 1 .. Len(page.slots) /\ LiveSlots(page) \subseteq 1 .. Len(page.slots)
      /\ page.free <= Capacity /\ IsFiniteSet(LiveBytes(page))
      /\ page.free + SlotSize * Len(page.slots) + LiveSize(page) <= Capacity
  BY PageFields DEF PageOK
<1>1. row.size \in Nat /\ row # NoRow /\ SlotSize \in Nat /\ Capacity \in Nat
  BY HeapAssumption, NoRowAssumption DEF Rows
<1>2. q.slots = Append(page.slots, row) /\ q.free = page.free - row.size - SlotSize
  BY DEF Inserted
<1>3. /\ q.slots \in Seq(Rows \cup {NoRow}) /\ Len(q.slots) = n
      /\ q.slots[n] = row
      /\ \A s \in 1 .. Len(page.slots) : q.slots[s] = page.slots[s]
  BY <1>0, <1>2, AppendProperties
<1>4. DOMAIN q.slots = (1 .. Len(page.slots)) \cup {n}
  BY <1>0, <1>3, LenProperties
<1>5. n \notin LiveSlots(page) /\ LiveSlots(q) = LiveSlots(page) \cup {n}
  BY <1>0, <1>1, <1>3, <1>4 DEF LiveSlots
<1> DEFINE own == {n} \X (1 .. row.size)
<1>6. LiveBytes(q) = LiveBytes(page) \cup own /\ LiveBytes(page) \cap own = {}
  BY <1>0, <1>3, <1>5 DEF LiveBytes
<1>7. IsFiniteSet(own) /\ Cardinality(own) = row.size
  BY <1>1, OwnBytes
<1> HIDE DEF own
<1>8. /\ IsFiniteSet(LiveBytes(q))
      /\ Cardinality(LiveBytes(page) \cup own)
            = Cardinality(LiveBytes(page)) + Cardinality(own) - Cardinality(LiveBytes(page) \cap own)
  BY <1>0, <1>6, <1>7, FS_Union
<1>9. Cardinality(LiveBytes(page) \cap own) = 0 /\ Cardinality(LiveBytes(page)) \in Nat
  BY <1>0, <1>6, FS_EmptySet, FS_CardinalityType
<1>10. LiveSize(q) = LiveSize(page) + row.size /\ LiveSize(page) \in Nat
  <2>1. LiveSize(page) = Cardinality(LiveBytes(page)) /\ LiveSize(q) = Cardinality(LiveBytes(page) \cup own)
    BY <1>6 DEF LiveSize
  <2>2. \A a, n1 \in Nat : a + n1 - 0 = a + n1
    OBVIOUS
  <2>3. Cardinality(LiveBytes(page) \cup own) = Cardinality(LiveBytes(page)) + row.size - 0
    BY <1>7, <1>8, <1>9
  <2> QED
    BY <2>1, <2>2, <2>3, <1>1, <1>9
<1>11. SlotSize * Len(q.slots) = SlotSize * Len(page.slots) + SlotSize /\ SlotSize * Len(page.slots) \in Nat
  <2>1. SlotSize * (Len(page.slots) + 1) = SlotSize * Len(page.slots) + SlotSize
    BY <1>0, <1>1
  <2> QED
    BY <2>1, <1>0, <1>1, <1>3
<1>12. page.free \in Nat /\ page.free >= row.size + SlotSize
  BY <1>0 DEF Fits
<1>13. q.free \in 0 .. Capacity
  <2>1. \A f \in Nat, r \in Nat, z \in Nat, c \in Nat : f >= r + z /\ f <= c => f - r - z \in 0 .. c
    OBVIOUS
  <2>2. page.free <= Capacity
    BY <1>0
  <2> QED
    BY <2>1, <2>2, <1>1, <1>2, <1>12
<1>14. q \in Page
  BY <1>2, <1>3, <1>13 DEF Page, Inserted
<1>15. q.free + SlotSize * Len(q.slots) + LiveSize(q) <= Capacity
  <2>1. /\ page.free \in Nat /\ SlotSize * Len(page.slots) \in Nat /\ LiveSize(page) \in Nat
        /\ row.size \in Nat /\ SlotSize \in Nat /\ Capacity \in Nat
        /\ page.free + SlotSize * Len(page.slots) + LiveSize(page) <= Capacity
    BY <1>0, <1>1, <1>10, <1>11
  <2>2. /\ q.free = page.free - row.size - SlotSize
        /\ SlotSize * Len(q.slots) = SlotSize * Len(page.slots) + SlotSize
        /\ LiveSize(q) = LiveSize(page) + row.size
    BY <1>2, <1>10, <1>11
  <2> QED
    BY <2>1, <2>2
<1> QED
  BY <1>3, <1>5, <1>0, <1>8, <1>14, <1>15 DEF PageOK

\* A deleted row gives back its bytes, and nothing else changes.
LEMMA ErasedOK ==
    ASSUME NEW page, PageOK(page), NEW s \in LiveSlots(page), NEW q, q = Erased(page, s)
    PROVE  /\ PageOK(q)
           /\ LiveSlots(q) = LiveSlots(page) \ {s}
           /\ Len(q.slots) = Len(page.slots) /\ q.free = page.free
           /\ \A t \in LiveSlots(q) : q.slots[t] = page.slots[t]
           /\ LiveSize(page) = LiveSize(q) + page.slots[s].size
<1>0. /\ page.slots \in Seq(Rows \cup {NoRow}) /\ Len(page.slots) \in Nat /\ page.free \in 0 .. Capacity
      /\ DOMAIN page.slots = 1 .. Len(page.slots) /\ LiveSlots(page) \subseteq 1 .. Len(page.slots)
      /\ page \in Page /\ IsFiniteSet(LiveBytes(page)) /\ page.slots[s].size \in Nat
  BY PageFields DEF PageOK
<1>1. q.slots = [page.slots EXCEPT ![s] = NoRow] /\ q.free = page.free
  BY <1>0 DEF Erased, Page
<1>2. q.slots \in Seq(Rows \cup {NoRow}) /\ Len(q.slots) = Len(page.slots)
  BY <1>0, <1>1, ExceptSeq
<1>3. q \in Page
  BY <1>0, <1>1, <1>2 DEF Page, Erased
<1>4. /\ DOMAIN q.slots = DOMAIN page.slots /\ q.slots[s] = NoRow
      /\ \A t \in DOMAIN page.slots : t # s => q.slots[t] = page.slots[t]
  BY <1>0, <1>1
<1>5. LiveSlots(q) = LiveSlots(page) \ {s} /\ \A t \in LiveSlots(q) : q.slots[t] = page.slots[t]
  BY <1>4 DEF LiveSlots
<1> DEFINE own == {s} \X (1 .. page.slots[s].size)
<1>6. LiveBytes(page) = LiveBytes(q) \cup own /\ LiveBytes(q) \cap own = {}
  BY <1>5 DEF LiveBytes
<1>7. IsFiniteSet(own) /\ Cardinality(own) = page.slots[s].size
  BY <1>0, OwnBytes
<1> HIDE DEF own
<1>8. IsFiniteSet(LiveBytes(q))
  BY <1>0, <1>6, FS_Subset
<1>9. Cardinality(LiveBytes(q) \cup own)
         = Cardinality(LiveBytes(q)) + Cardinality(own) - Cardinality(LiveBytes(q) \cap own)
  BY <1>7, <1>8, FS_Union
<1>10. /\ Cardinality(LiveBytes(q) \cap own) = 0 /\ Cardinality(LiveBytes(q)) \in Nat
       /\ Cardinality(LiveBytes(page)) \in Nat
  BY <1>0, <1>6, <1>8, FS_EmptySet, FS_CardinalityType
<1>11. Cardinality(LiveBytes(page)) = Cardinality(LiveBytes(q)) + page.slots[s].size
  <2>1. Cardinality(LiveBytes(page)) = Cardinality(LiveBytes(q)) + page.slots[s].size - 0
    BY <1>6, <1>7, <1>9, <1>10
  <2> QED
    BY <2>1, <1>0, <1>10
<1>12. /\ LiveSize(page) = LiveSize(q) + page.slots[s].size /\ LiveSize(q) \in Nat
       /\ LiveSize(page) \in Nat
  BY <1>10, <1>11 DEF LiveSize
<1>13. /\ page.free + SlotSize * Len(page.slots) + LiveSize(page) <= Capacity
       /\ page.free \in Nat /\ Capacity \in Nat /\ SlotSize * Len(page.slots) \in Nat
  BY <1>0, HeapAssumption DEF PageOK
<1>14. page.free + SlotSize * Len(page.slots) + LiveSize(q) <= Capacity
  <2>1. PICK m \in Nat, l \in Nat, z \in Nat, c \in Nat :
           /\ m = page.free + SlotSize * Len(page.slots) /\ l = LiveSize(q)
           /\ z = page.slots[s].size /\ c = Capacity
    <3>1. page.free + SlotSize * Len(page.slots) \in Nat
      BY <1>13
    <3> QED
      BY <3>1, <1>0, <1>12, <1>13
  <2>2. m + (l + z) <= c
    BY <2>1, <1>12, <1>13
  <2>3. m + l <= c
    BY <2>2
  <2> QED
    BY <2>1, <2>3
<1>15. q.free + SlotSize * Len(q.slots) + LiveSize(q) <= Capacity
  BY <1>1, <1>2, <1>14
<1> QED
  BY <1>1, <1>2, <1>3, <1>5, <1>8, <1>12, <1>15 DEF PageOK

\* compact() gives back all that no slot and no live record needs.
LEMMA CompactedOK ==
    ASSUME NEW page, PageOK(page), NEW q, q = Compacted(page)
    PROVE  /\ PageOK(q)
           /\ q.slots = page.slots /\ LiveSlots(q) = LiveSlots(page)
           /\ q.free + SlotSize * Len(page.slots) + LiveSize(page) = Capacity
<1>0. /\ page.slots \in Seq(Rows \cup {NoRow}) /\ Len(page.slots) \in Nat /\ page.free \in 0 .. Capacity
      /\ page \in Page /\ IsFiniteSet(LiveBytes(page))
  BY PageFields DEF PageOK
<1>1. q.slots = page.slots /\ q.free = Capacity - SlotSize * Len(page.slots) - LiveSize(page)
  BY <1>0 DEF Compacted, Page
<1>2. LiveSlots(q) = LiveSlots(page)
  BY <1>1 DEF LiveSlots
<1>3. LiveBytes(q) = LiveBytes(page)
  BY <1>1, <1>2 DEF LiveBytes
<1>4. LiveSize(page) \in Nat /\ LiveSize(q) = LiveSize(page)
  BY <1>0, <1>3, FS_CardinalityType DEF LiveSize
<1>5. SlotSize * Len(page.slots) \in Nat /\ Capacity \in Nat /\ page.free \in Nat
  BY <1>0, HeapAssumption
<1>6. page.free + SlotSize * Len(page.slots) + LiveSize(page) <= Capacity
  BY DEF PageOK
<1>7. /\ q.free \in 0 .. Capacity
      /\ q.free + SlotSize * Len(page.slots) + LiveSize(page) = Capacity
  BY <1>1, <1>4, <1>5, <1>6
<1>8. q \in Page
  BY <1>0, <1>1, <1>7 DEF Page, Compacted
<1>9. q.free + SlotSize * Len(q.slots) + LiveSize(q) <= Capacity
  BY <1>1, <1>4, <1>5, <1>7
<1> QED
  BY <1>0, <1>1, <1>2, <1>3, <1>7, <1>8, <1>9 DEF PageOK

\* updateRow's estimate of the space, made before the page is compacted, is never
\* too large: a row that should fit its page does (storage_manager.cpp:309-326).
LEMMA UpdateFits ==
    ASSUME NEW page, PageOK(page), NEW s \in LiveSlots(page), NEW new \in Rows,
           page.free + page.slots[s].size >= new.size + SlotSize
    PROVE  Fits(Compacted(Erased(page, s)), new)
<1> DEFINE e == Erased(page, s)
           q == Compacted(e)
<1>1. /\ PageOK(e) /\ Len(e.slots) = Len(page.slots)
      /\ LiveSize(page) = LiveSize(e) + page.slots[s].size
  BY ErasedOK
<1>2. PageOK(q) /\ q.free + SlotSize * Len(e.slots) + LiveSize(e) = Capacity
  BY <1>1, CompactedOK
<1>3. /\ q.free \in Nat /\ page.free \in Nat /\ page.slots[s].size \in Nat
      /\ Len(page.slots) \in Nat
  BY <1>2, PageFields DEF PageOK
<1>4. LiveSize(e) \in Nat
  BY <1>1, FS_CardinalityType DEF PageOK, LiveSize
<1>5. page.free + SlotSize * Len(page.slots) + LiveSize(page) <= Capacity
  BY DEF PageOK
<1>6. new.size \in Nat /\ SlotSize \in Nat /\ Capacity \in Nat /\ SlotSize * Len(page.slots) \in Nat
  <2>1. new.size \in Sizes
    BY DEF Rows
  <2>2. new.size \in Nat /\ SlotSize \in Nat /\ Capacity \in Nat
    BY <2>1, HeapAssumption
  <2> QED
    BY <2>2, <1>3
<1> HIDE DEF e, q
<1>7. q.free + SlotSize * Len(page.slots) + LiveSize(e) = Capacity
  <2>1. SlotSize * Len(e.slots) = SlotSize * Len(page.slots)
    BY <1>1
  <2> QED
    BY <2>1, <1>2
<1>8. q.free >= page.free + page.slots[s].size
  <2>1. LiveSize(page) = LiveSize(e) + page.slots[s].size
    BY <1>1
  <2>2. /\ SlotSize * Len(page.slots) \in Nat /\ Capacity \in Nat /\ LiveSize(e) \in Nat
        /\ q.free \in Nat /\ page.free \in Nat /\ page.slots[s].size \in Nat
    BY <1>3, <1>4, <1>6
  <2>3. PICK k \in Nat, l \in Nat, c \in Nat : k = SlotSize * Len(page.slots) /\ l = LiveSize(e) /\ c = Capacity
    BY <2>2
  <2>4. PICK f \in Nat, g \in Nat, z \in Nat : f = page.free /\ g = q.free /\ z = page.slots[s].size
    BY <2>2
  <2>5. f + k + (l + z) <= c
    BY <2>1, <2>3, <2>4, <1>5
  <2>6. g + k + l = c
    BY <2>3, <2>4, <1>7
  <2>7. g >= f + z
    BY <2>5, <2>6
  <2> QED
    BY <2>4, <2>7
<1>9. q.free >= new.size + SlotSize
  <2>0. page.free + page.slots[s].size \in Nat /\ new.size + SlotSize \in Nat
    BY <1>3, <1>6
  <2>1. PICK f \in Nat, g \in Nat, n \in Nat : f = page.free + page.slots[s].size /\ g = q.free /\ n = new.size + SlotSize
    BY <1>3, <2>0
  <2>2. g >= f /\ f >= n
    BY <2>1, <1>8
  <2> QED
    BY <2>1, <2>2
<1> QED
  BY <1>9 DEF Fits, q, e

-----------------------------------------------------------------------------
\* Rows, wherever they are: what one sequence of pages has of another.

\* The rows at tids are the same.
Agree(a, b, tids) == \A tid \in tids : RowIn(b, tid) = RowIn(a, tid)

SameRows(a, b) == TidsOf(b) = TidsOf(a) /\ Agree(a, b, TidsOf(a))

\* b has one row more.
AddsRow(a, b, new, row) ==
    /\ new \notin TidsOf(a) /\ TidsOf(b) = TidsOf(a) \cup {new}
    /\ RowIn(b, new) = row /\ Agree(a, b, TidsOf(a))

\* One row less.
DropsRow(a, b, old) ==
    /\ old \in TidsOf(a) /\ TidsOf(b) = TidsOf(a) \ {old}
    /\ Agree(a, b, TidsOf(a) \ {old})

\* One row for another.
MovesRow(a, b, old, new, row) ==
    /\ old \in TidsOf(a) /\ new \notin TidsOf(a)
    /\ TidsOf(b) = (TidsOf(a) \ {old}) \cup {new}
    /\ RowIn(b, new) = row /\ Agree(a, b, TidsOf(a) \ {old})

\* A tid is a page and one of its live slots.
LEMMA TidShape ==
    ASSUME NEW pages
    PROVE  /\ \A p, s : [page |-> p, slot |-> s] \in TidsOf(pages)
                            <=> p \in DOMAIN pages /\ s \in LiveSlots(pages[p])
           /\ \A tid \in TidsOf(pages) :
                 /\ tid = [page |-> tid.page, slot |-> tid.slot]
                 /\ tid.page \in DOMAIN pages /\ tid.slot \in LiveSlots(pages[tid.page])
<1>1. \A tid : tid \in TidsOf(pages) <=>
                \E p \in DOMAIN pages : \E s \in LiveSlots(pages[p]) : tid = [page |-> p, slot |-> s]
  BY DEF TidsOf
<1>2. ASSUME NEW p, NEW s
      PROVE  [page |-> p, slot |-> s] \in TidsOf(pages) <=> p \in DOMAIN pages /\ s \in LiveSlots(pages[p])
  <2>1. \A p1, s1 : [page |-> p, slot |-> s] = [page |-> p1, slot |-> s1] => p = p1 /\ s = s1
    OBVIOUS
  <2> QED
    BY <1>1, <2>1
<1>3. ASSUME NEW tid \in TidsOf(pages)
      PROVE  /\ tid = [page |-> tid.page, slot |-> tid.slot]
             /\ tid.page \in DOMAIN pages /\ tid.slot \in LiveSlots(pages[tid.page])
  <2>1. PICK p \in DOMAIN pages : \E s \in LiveSlots(pages[p]) : tid = [page |-> p, slot |-> s]
    BY <1>1
  <2>2. PICK s \in LiveSlots(pages[p]) : tid = [page |-> p, slot |-> s]
    BY <2>1
  <2> QED
    BY <2>2
<1> QED
  BY <1>2, <1>3

\* The rows of well-formed pages, and where they are.
LEMMA TidTypes ==
    ASSUME NEW pages \in Seq(Page)
    PROVE  \A tid \in TidsOf(pages) :
              /\ tid \in Tids /\ RowIn(pages, tid) \in Rows
              /\ pages[tid.page] \in Page
<1> SUFFICES ASSUME NEW tid \in TidsOf(pages)
             PROVE  tid \in Tids /\ RowIn(pages, tid) \in Rows /\ pages[tid.page] \in Page
  OBVIOUS
<1>1. /\ tid = [page |-> tid.page, slot |-> tid.slot]
      /\ tid.page \in DOMAIN pages /\ tid.slot \in LiveSlots(pages[tid.page])
  BY TidShape
<1>2. tid.page \in Nat /\ pages[tid.page] \in Page
  BY <1>1, LenProperties
<1>3. tid.slot \in Nat /\ pages[tid.page].slots[tid.slot] \in Rows
  BY <1>1, <1>2, PageFields
<1> QED
  BY <1>1, <1>2, <1>3 DEF Tids, RowIn

\* The rows at some slots of a page.
TidsAt(p, slots) == {[page |-> p, slot |-> s] : s \in slots}

\* Page p has another version in b, in which the slots gone are no longer live and
\* the slots come are.
ReplacesPage(a, b, p, gone, come) ==
    /\ a \in Seq(Page) /\ p \in DOMAIN a
    /\ DOMAIN b = DOMAIN a /\ \A r \in DOMAIN a : r # p => b[r] = a[r]
    /\ LiveSlots(b[p]) = (LiveSlots(a[p]) \ gone) \cup come
    /\ \A s \in LiveSlots(a[p]) \ gone : b[p].slots[s] = a[p].slots[s]

\* So it is with its rows, and with no others.
LEMMA PageReplaced ==
    ASSUME NEW a, NEW b, NEW p, NEW gone, NEW come, ReplacesPage(a, b, p, gone, come)
    PROVE  /\ TidsOf(b) = (TidsOf(a) \ TidsAt(p, gone)) \cup TidsAt(p, come)
           /\ Agree(a, b, TidsOf(a) \ TidsAt(p, gone))
<1> DEFINE q == b[p]
<1>1. /\ a \in Seq(Page) /\ p \in DOMAIN a
      /\ DOMAIN b = DOMAIN a
      /\ b[p] = q /\ \A r \in DOMAIN a : r # p => b[r] = a[r]
      /\ LiveSlots(q) = (LiveSlots(a[p]) \ gone) \cup come
      /\ \A s \in LiveSlots(a[p]) \ gone : q.slots[s] = a[p].slots[s]
  BY DEF ReplacesPage
<1> HIDE DEF q
<1> DEFINE Gone == {[page |-> p, slot |-> s] : s \in gone}
           Come == {[page |-> p, slot |-> s] : s \in come}
<1>0. TidsAt(p, gone) = Gone /\ TidsAt(p, come) = Come
  BY DEF TidsAt
<1>2. ASSUME NEW tid
      PROVE  tid \in TidsOf(b) <=> tid \in (TidsOf(a) \ Gone) \cup Come
  <2>1. CASE tid.page = p /\ tid = [page |-> tid.page, slot |-> tid.slot]
    <3>0. tid = [page |-> p, slot |-> tid.slot]
      BY <2>1
    <3>1. tid \in TidsOf(b) <=> tid.slot \in LiveSlots(q)
      <4>1. [page |-> p, slot |-> tid.slot] \in TidsOf(b) <=> p \in DOMAIN b /\ tid.slot \in LiveSlots(b[p])
        BY TidShape
      <4> QED
        BY <1>1, <3>0, <4>1
    <3>2. tid \in TidsOf(a) <=> tid.slot \in LiveSlots(a[p])
      <4>1. [page |-> p, slot |-> tid.slot] \in TidsOf(a) <=> p \in DOMAIN a /\ tid.slot \in LiveSlots(a[p])
        BY TidShape
      <4> QED
        BY <1>1, <3>0, <4>1
    <3>3. (tid \in Gone <=> tid.slot \in gone) /\ (tid \in Come <=> tid.slot \in come)
      BY <2>1
    <3> QED
      BY <1>1, <3>1, <3>2, <3>3
  <2>2. CASE ~(tid.page = p /\ tid = [page |-> tid.page, slot |-> tid.slot])
    <3>1. tid \notin Gone /\ tid \notin Come
      BY <2>2
    <3>2. tid \in TidsOf(b) <=> tid \in TidsOf(a)
      <4>1. CASE tid = [page |-> tid.page, slot |-> tid.slot]
        <5>1. tid.page # p
          BY <2>2, <4>1
        <5>2. [page |-> tid.page, slot |-> tid.slot] \in TidsOf(a)
                 <=> tid.page \in DOMAIN a /\ tid.slot \in LiveSlots(a[tid.page])
          BY TidShape
        <5>3. [page |-> tid.page, slot |-> tid.slot] \in TidsOf(b)
                 <=> tid.page \in DOMAIN b /\ tid.slot \in LiveSlots(b[tid.page])
          BY TidShape
        <5>4. tid.page \in DOMAIN a => b[tid.page] = a[tid.page]
          BY <1>1, <5>1
        <5> QED
          BY <1>1, <4>1, <5>2, <5>3, <5>4
      <4>2. CASE tid # [page |-> tid.page, slot |-> tid.slot]
        BY <4>2, TidShape
      <4> QED
        BY <4>1, <4>2
    <3> QED
      BY <3>1, <3>2
  <2> QED
    BY <2>1, <2>2
<1>3. ASSUME NEW tid \in TidsOf(a) \ Gone
      PROVE  RowIn(b, tid) = RowIn(a, tid)
  <2>1. /\ tid = [page |-> tid.page, slot |-> tid.slot]
        /\ tid.page \in DOMAIN a /\ tid.slot \in LiveSlots(a[tid.page])
    BY TidShape
  <2>2. CASE tid.page = p
    BY <1>1, <2>1, <2>2 DEF RowIn
  <2>3. CASE tid.page # p
    BY <1>1, <2>1, <2>3 DEF RowIn
  <2> QED
    BY <2>2, <2>3
<1> QED
  BY <1>0, <1>2, <1>3 DEF Agree

\* A new page brings no rows.
LEMMA PageAppended ==
    ASSUME NEW a \in Seq(Page), NEW b, b = Append(a, FormattedPage)
    PROVE  /\ b \in Seq(Page) /\ Len(b) = Len(a) + 1 /\ b[Len(a) + 1] = FormattedPage
           /\ \A p \in DOMAIN a : b[p] = a[p]
           /\ SameRows(a, b)
<1>1. FormattedPage \in Page /\ LiveSlots(FormattedPage) = {}
  BY BlankOK DEF PageOK
<1>2. /\ b \in Seq(Page) /\ Len(b) = Len(a) + 1 /\ b[Len(a) + 1] = FormattedPage
      /\ \A p \in 1 .. Len(a) : b[p] = a[p]
  BY <1>1, AppendProperties
<1>3. /\ DOMAIN a = 1 .. Len(a) /\ DOMAIN b = 1 .. Len(a) + 1 /\ Len(a) \in Nat
      /\ Len(a) + 1 \notin DOMAIN a /\ DOMAIN b = DOMAIN a \cup {Len(a) + 1}
  BY <1>2, LenProperties
<1>4. ASSUME NEW tid
      PROVE  tid \in TidsOf(b) <=> tid \in TidsOf(a)
  <2>1. CASE tid = [page |-> tid.page, slot |-> tid.slot]
    <3>1. /\ tid \in TidsOf(a) <=> tid.page \in DOMAIN a /\ tid.slot \in LiveSlots(a[tid.page])
          /\ tid \in TidsOf(b) <=> tid.page \in DOMAIN b /\ tid.slot \in LiveSlots(b[tid.page])
      <4>1. [page |-> tid.page, slot |-> tid.slot] \in TidsOf(a)
               <=> tid.page \in DOMAIN a /\ tid.slot \in LiveSlots(a[tid.page])
        BY TidShape
      <4>2. [page |-> tid.page, slot |-> tid.slot] \in TidsOf(b)
               <=> tid.page \in DOMAIN b /\ tid.slot \in LiveSlots(b[tid.page])
        BY TidShape
      <4> QED
        BY <2>1, <4>1, <4>2
    <3> QED
      BY <1>1, <1>2, <1>3, <3>1
  <2>2. CASE tid # [page |-> tid.page, slot |-> tid.slot]
    BY <2>2, TidShape
  <2> QED
    BY <2>1, <2>2
<1>5. \A tid \in TidsOf(a) : RowIn(b, tid) = RowIn(a, tid)
  BY <1>2, <1>3, TidShape DEF RowIn
<1> QED
  BY <1>2, <1>3, <1>4, <1>5 DEF SameRows, Agree

-----------------------------------------------------------------------------
\* What the calls of StorageManager do to the rows of a heap.

\* A page changed into another that keeps to its room.
LEMMA ChangedOK ==
    ASSUME NEW h, HeapOK(h), NEW p \in DOMAIN h.pages, NEW q, PageOK(q),
           NEW c, c = Changed(h, p, q)
    PROVE  HeapOK(c) /\ c.pages = [h.pages EXCEPT ![p] = q]
<1>1. /\ h.pages \in Seq(Page) /\ h.saved \in Seq(Page) /\ Len(h.saved) = Len(h.pages)
      /\ q \in Page /\ ZeroPage \in Page
      /\ h = [pages |-> h.pages, saved |-> h.saved, dirty |-> h.dirty]
  BY BlankOK DEF HeapOK, PageOK
<1>2. /\ c = [pages |-> c.pages, saved |-> c.saved, dirty |-> c.dirty]
      /\ c.pages = [h.pages EXCEPT ![p] = q]
      /\ c.saved = [h.saved EXCEPT ![p] = ZeroPage]
      /\ c.dirty = h.dirty \cup {p}
  BY <1>1 DEF Changed
<1>3. DOMAIN h.saved = DOMAIN h.pages
  BY <1>1, LenProperties
<1>4. /\ c.pages \in Seq(Page) /\ Len(c.pages) = Len(h.pages) /\ DOMAIN c.pages = DOMAIN h.pages
      /\ c.pages[p] = q /\ \A r \in DOMAIN h.pages : r # p => c.pages[r] = h.pages[r]
  BY <1>1, <1>2, ExceptSeq, LenProperties
<1>5. /\ c.saved \in Seq(Page) /\ Len(c.saved) = Len(h.saved)
      /\ \A r \in DOMAIN h.saved : r # p => c.saved[r] = h.saved[r]
  BY <1>1, <1>2, <1>3, ExceptSeq, LenProperties
<1>6. \A r \in DOMAIN c.pages : PageOK(c.pages[r])
  BY <1>4 DEF HeapOK
<1>7. \A r \in DOMAIN c.pages \ c.dirty : c.saved[r] = c.pages[r]
  BY <1>2, <1>3, <1>4, <1>5 DEF HeapOK
<1>8. Len(c.pages) <= MaxPages /\ c.dirty \subseteq DOMAIN c.pages
  BY <1>2, <1>4 DEF HeapOK
<1> QED
  BY <1>1, <1>2, <1>4, <1>5, <1>6, <1>7, <1>8 DEF HeapOK

\* A page added at the end of the file.
LEMMA NewPageOK ==
    ASSUME NEW h, HeapOK(h), Len(h.pages) # MaxPages, NEW p, p = Len(h.pages) + 1,
           NEW c, c = [pages |-> Append(h.pages, FormattedPage),
                       saved |-> Append(h.saved, ZeroPage),
                       dirty |-> h.dirty \cup {p}]
    PROVE  HeapOK(c) /\ p \in DOMAIN c.pages /\ c.pages[p] = FormattedPage /\ SameRows(h.pages, c.pages)
<1>1. /\ h.pages \in Seq(Page) /\ h.saved \in Seq(Page) /\ Len(h.saved) = Len(h.pages)
      /\ ZeroPage \in Page /\ PageOK(FormattedPage) /\ Len(h.pages) \in Nat
      /\ Len(h.pages) <= MaxPages /\ MaxPages \in Nat /\ h.dirty \subseteq DOMAIN h.pages
  BY BlankOK, HeapAssumption, LenProperties DEF HeapOK
<1>2. /\ c.pages = Append(h.pages, FormattedPage) /\ c.saved = Append(h.saved, ZeroPage)
      /\ c.dirty = h.dirty \cup {p}
      /\ c = [pages |-> c.pages, saved |-> c.saved, dirty |-> c.dirty]
  OBVIOUS
<1>3. /\ c.pages \in Seq(Page) /\ Len(c.pages) = p /\ c.pages[p] = FormattedPage
      /\ \A r \in DOMAIN h.pages : c.pages[r] = h.pages[r]
      /\ SameRows(h.pages, c.pages)
  BY <1>1, <1>2, PageAppended
<1>4. /\ c.saved \in Seq(Page) /\ Len(c.saved) = p
      /\ \A r \in 1 .. Len(h.saved) : c.saved[r] = h.saved[r]
  BY <1>1, <1>2, AppendProperties
<1>5. DOMAIN h.pages = 1 .. Len(h.pages) /\ DOMAIN c.pages = 1 .. p
  BY <1>1, <1>3, LenProperties
<1>6. DOMAIN c.pages = DOMAIN h.pages \cup {p} /\ p \in DOMAIN c.pages
  BY <1>1, <1>5
<1>7. \A r \in DOMAIN c.pages : PageOK(c.pages[r])
  BY <1>1, <1>3, <1>6 DEF HeapOK
<1>8. \A r \in DOMAIN c.pages \ c.dirty : c.saved[r] = c.pages[r]
  <2> SUFFICES ASSUME NEW r \in DOMAIN c.pages \ c.dirty
               PROVE  c.saved[r] = c.pages[r]
    OBVIOUS
  <2>1. r \in DOMAIN h.pages /\ r \notin h.dirty
    BY <1>2, <1>6
  <2>2. h.saved[r] = h.pages[r]
    BY <2>1 DEF HeapOK
  <2> QED
    BY <2>1, <2>2, <1>1, <1>3, <1>4, <1>5
<1>9. Len(c.pages) <= MaxPages
  BY <1>1, <1>3
<1>10. c.dirty \subseteq DOMAIN c.pages /\ Len(c.saved) = Len(c.pages)
  BY <1>1, <1>2, <1>3, <1>4, <1>6
<1> QED
  BY <1>2, <1>3, <1>4, <1>6, <1>7, <1>8, <1>9, <1>10 DEF HeapOK

\* A row inserted into a page it fits is one row more.
LEMMA InsertIntoPage ==
    ASSUME NEW h, HeapOK(h), NEW p \in DOMAIN h.pages, NEW row \in Rows, Fits(h.pages[p], row),
           NEW c, c = Changed(h, p, Inserted(h.pages[p], row))
    PROVE  HeapOK(c) /\ \E new : AddsRow(h.pages, c.pages, new, row)
<1> DEFINE page == h.pages[p]
           q == Inserted(page, row)
           n == Len(page.slots) + 1
           new == [page |-> p, slot |-> n]
<1>1. PageOK(page) /\ h.pages \in Seq(Page)
  BY DEF HeapOK
<1>2. /\ PageOK(q) /\ n \notin LiveSlots(page) /\ LiveSlots(q) = LiveSlots(page) \cup {n}
      /\ q.slots[n] = row /\ \A s \in LiveSlots(page) : q.slots[s] = page.slots[s]
  BY <1>1, InsertedOK
<1>3. HeapOK(c) /\ c.pages = [h.pages EXCEPT ![p] = q]
  BY <1>2, ChangedOK
<1>4. new \notin TidsOf(h.pages)
  BY <1>2, TidShape
<1> HIDE DEF q, n
<1>5. q \in Page
  BY <1>2 DEF PageOK
<1>6. ReplacesPage(h.pages, c.pages, p, {}, {n})
  BY <1>1, <1>2, <1>3, <1>5 DEF ReplacesPage
<1>7. TidsAt(p, {}) = {} /\ TidsAt(p, {n}) = {new}
  BY DEF TidsAt
<1> HIDE DEF new
<1>8. TidsOf(c.pages) = TidsOf(h.pages) \cup {new} /\ Agree(h.pages, c.pages, TidsOf(h.pages))
  <2>1. /\ TidsOf(c.pages) = (TidsOf(h.pages) \ TidsAt(p, {})) \cup TidsAt(p, {n})
        /\ Agree(h.pages, c.pages, TidsOf(h.pages) \ TidsAt(p, {}))
    BY <1>6, PageReplaced
  <2>2. TidsOf(h.pages) \ {} = TidsOf(h.pages)
    OBVIOUS
  <2> QED
    BY <2>1, <2>2, <1>7
<1>9. RowIn(c.pages, new) = row
  BY <1>1, <1>2, <1>3 DEF new, RowIn
<1>10. AddsRow(h.pages, c.pages, new, row)
  BY <1>4, <1>8, <1>9 DEF AddsRow
<1> QED
  BY <1>3, <1>10

\* A row erased from its page is one row less.
LEMMA EraseFromPage ==
    ASSUME NEW h, HeapOK(h), NEW p, NEW s, [page |-> p, slot |-> s] \in TidsOf(h.pages),
           NEW c, c = Changed(h, p, Erased(h.pages[p], s))
    PROVE  HeapOK(c) /\ DropsRow(h.pages, c.pages, [page |-> p, slot |-> s])
<1> DEFINE page == h.pages[p]
           q == Erased(page, s)
           old == [page |-> p, slot |-> s]
<1>1. p \in DOMAIN h.pages /\ s \in LiveSlots(page)
  BY TidShape
<1>2. PageOK(page) /\ h.pages \in Seq(Page)
  BY <1>1 DEF HeapOK
<1>3. /\ PageOK(q) /\ LiveSlots(q) = LiveSlots(page) \ {s}
      /\ \A t \in LiveSlots(q) : q.slots[t] = page.slots[t]
  BY <1>1, <1>2, ErasedOK
<1>4. HeapOK(c) /\ c.pages = [h.pages EXCEPT ![p] = q]
  BY <1>1, <1>3, ChangedOK
<1> HIDE DEF q
<1>5. q \in Page
  BY <1>3 DEF PageOK
<1>6. ReplacesPage(h.pages, c.pages, p, {s}, {})
  BY <1>1, <1>2, <1>3, <1>4 DEF ReplacesPage
<1>7. TidsAt(p, {}) = {} /\ TidsAt(p, {s}) = {old}
  BY DEF TidsAt
<1> HIDE DEF old
<1>8. TidsOf(c.pages) = TidsOf(h.pages) \ {old} /\ Agree(h.pages, c.pages, TidsOf(h.pages) \ {old})
  <2>1. /\ TidsOf(c.pages) = (TidsOf(h.pages) \ TidsAt(p, {s})) \cup TidsAt(p, {})
        /\ Agree(h.pages, c.pages, TidsOf(h.pages) \ TidsAt(p, {s}))
    BY <1>6, PageReplaced
  <2>2. (TidsOf(h.pages) \ {old}) \cup {} = TidsOf(h.pages) \ {old}
    OBVIOUS
  <2> QED
    BY <2>1, <2>2, <1>7
<1>9. DropsRow(h.pages, c.pages, old)
  BY <1>8 DEF DropsRow, old
<1> QED
  BY <1>4, <1>9 DEF old

\* A row updated in its page leaves its slot for a new one: a tid is not kept.
LEMMA UpdateInPageOK ==
    ASSUME NEW h, HeapOK(h), NEW p, NEW s, [page |-> p, slot |-> s] \in TidsOf(h.pages),
           NEW row \in Rows,
           h.pages[p].free + h.pages[p].slots[s].size >= row.size + SlotSize,
           NEW o, o = UpdateInPage(h, p, s, row)
    PROVE  /\ o.ok = TRUE /\ o.failed = FALSE /\ HeapOK(o.heap)
           /\ \E new : MovesRow(h.pages, o.heap.pages, [page |-> p, slot |-> s], new, row)
<1> DEFINE page == h.pages[p]
           erased == Erased(page, s)
           compacted == Compacted(erased)
           q == Inserted(compacted, row)
           n == Len(page.slots) + 1
           old == [page |-> p, slot |-> s]
           new == [page |-> p, slot |-> n]
           c == Changed(h, p, q)
<1>1. p \in DOMAIN h.pages /\ s \in LiveSlots(page)
  BY TidShape
<1>2. PageOK(page) /\ h.pages \in Seq(Page)
  BY <1>1 DEF HeapOK
<1>3. /\ PageOK(erased) /\ LiveSlots(erased) = LiveSlots(page) \ {s}
      /\ Len(erased.slots) = Len(page.slots)
      /\ \A t \in LiveSlots(erased) : erased.slots[t] = page.slots[t]
  BY <1>1, <1>2, ErasedOK
<1>4. PageOK(compacted) /\ compacted.slots = erased.slots /\ LiveSlots(compacted) = LiveSlots(erased)
  BY <1>3, CompactedOK
<1>5. Fits(compacted, row)
  BY <1>1, <1>2, UpdateFits
<1>6. o = Outcome(c, TRUE, FALSE)
  BY <1>5 DEF UpdateInPage
<1>7. n \notin LiveSlots(page)
  BY <1>2, PageFields DEF PageOK
<1>8. /\ PageOK(q) /\ LiveSlots(q) = LiveSlots(compacted) \cup {n}
      /\ q.slots[n] = row /\ \A t \in LiveSlots(compacted) : q.slots[t] = compacted.slots[t]
  <2>1. n = Len(compacted.slots) + 1
    BY <1>3, <1>4
  <2> HIDE DEF compacted, n
  <2> QED
    BY <2>1, <1>4, <1>5, InsertedOK
<1> HIDE DEF erased, compacted, q, n
<1>9. HeapOK(c) /\ c.pages = [h.pages EXCEPT ![p] = q]
  BY <1>1, <1>8, ChangedOK
<1> HIDE DEF c
<1>10. ReplacesPage(h.pages, c.pages, p, {s}, {n})
  <2>1. LiveSlots(q) = (LiveSlots(page) \ {s}) \cup {n}
    BY <1>3, <1>4, <1>8
  <2>2. \A t \in LiveSlots(page) \ {s} : q.slots[t] = page.slots[t]
    BY <1>3, <1>4, <1>8
  <2> QED
    BY <2>1, <2>2, <1>1, <1>2, <1>9 DEF ReplacesPage
<1>11. TidsAt(p, {s}) = {old} /\ TidsAt(p, {n}) = {new}
  BY DEF TidsAt
<1>12. /\ TidsOf(c.pages) = (TidsOf(h.pages) \ TidsAt(p, {s})) \cup TidsAt(p, {n})
       /\ Agree(h.pages, c.pages, TidsOf(h.pages) \ TidsAt(p, {s}))
  BY <1>10, PageReplaced
<1>13. new \notin TidsOf(h.pages)
  BY <1>7, TidShape
<1>14. RowIn(c.pages, new) = row
  BY <1>1, <1>2, <1>8, <1>9 DEF RowIn
<1> HIDE DEF new, old
<1>15. old \in TidsOf(h.pages)
  BY DEF old
<1>16. MovesRow(h.pages, c.pages, old, new, row)
  BY <1>11, <1>12, <1>13, <1>14, <1>15 DEF MovesRow
<1>17. o.ok = TRUE /\ o.failed = FALSE /\ o.heap = c
  BY <1>6 DEF Outcome
<1> QED
  BY <1>9, <1>16, <1>17 DEF old

\* What an insertion comes to: the row, or nothing.
InsertDone(h, row, o) ==
    /\ o = Outcome(o.heap, o.ok, o.failed) /\ o.ok \in BOOLEAN /\ o.failed \in BOOLEAN
    /\ HeapOK(o.heap)
    /\ o.ok => \E new : AddsRow(h.pages, o.heap.pages, new, row)
    /\ ~o.ok => SameRows(h.pages, o.heap.pages)

\* A new page, and the row in it if it fits.
LEMMA NewPageDone ==
    ASSUME NEW h, HeapOK(h), NEW row \in Rows, NEW failed \in BOOLEAN,
           NEW o \in NewPageOutcomes(h, row, failed)
    PROVE  InsertDone(h, row, o)
<1>1. CASE Len(h.pages) = MaxPages
  <2>1. o = Outcome(h, FALSE, failed)
    BY <1>1 DEF NewPageOutcomes
  <2>2. SameRows(h.pages, h.pages)
    BY DEF SameRows, Agree
  <2>3. o.heap = h /\ o.ok = FALSE /\ o.failed = failed /\ o = Outcome(o.heap, o.ok, o.failed)
    BY <2>1 DEF Outcome
  <2> QED
    BY <2>2, <2>3 DEF InsertDone
<1>2. CASE Len(h.pages) # MaxPages
  <2> DEFINE p == Len(h.pages) + 1
             new == [pages |-> Append(h.pages, FormattedPage),
                     saved |-> Append(h.saved, ZeroPage),
                     dirty |-> h.dirty \cup {p}]
             filled == Changed(new, p, Inserted(FormattedPage, row))
  <2>1. HeapOK(new) /\ p \in DOMAIN new.pages /\ new.pages[p] = FormattedPage /\ SameRows(h.pages, new.pages)
    BY <1>2, NewPageOK
  <2>2. o = IF Fits(FormattedPage, row) THEN Outcome(filled, TRUE, failed) ELSE Outcome(new, FALSE, failed)
    BY <1>2 DEF NewPageOutcomes
  <2> HIDE DEF p, new
  <2>3. CASE Fits(FormattedPage, row)
    <3>1. HeapOK(filled) /\ \E tid : AddsRow(new.pages, filled.pages, tid, row)
      BY <2>1, <2>3, InsertIntoPage
    <3> HIDE DEF filled
    <3>2. PICK tid : AddsRow(new.pages, filled.pages, tid, row)
      BY <3>1
    <3>3. AddsRow(h.pages, filled.pages, tid, row)
      BY <3>2, <2>1 DEF AddsRow, SameRows, Agree
    <3>4. o.heap = filled /\ o.ok = TRUE /\ o.failed = failed /\ o = Outcome(o.heap, o.ok, o.failed)
      BY <2>2, <2>3 DEF Outcome
    <3> QED
      BY <3>1, <3>3, <3>4 DEF InsertDone
  <2>4. CASE ~Fits(FormattedPage, row)
    <3>1. o.heap = new /\ o.ok = FALSE /\ o.failed = failed /\ o = Outcome(o.heap, o.ok, o.failed)
      BY <2>2, <2>4 DEF Outcome
    <3> QED
      BY <2>1, <3>1 DEF InsertDone
  <2> QED
    BY <2>3, <2>4
<1> QED
  BY <1>1, <1>2

\* insertRowInternal: "we don't lose data if insert fails".
LEMMA InsertOutcomesDone ==
    ASSUME NEW h, HeapOK(h), NEW row \in Rows, NEW o \in InsertOutcomes(h, row)
    PROVE  InsertDone(h, row, o)
<1> DEFINE last == Len(h.pages)
           c == Changed(h, last, Inserted(h.pages[last], row))
<1>1. \/ o \in NewPageOutcomes(h, row, FALSE) \/ o \in NewPageOutcomes(h, row, TRUE)
      \/ last > 0 /\ Fits(h.pages[last], row) /\ o = Outcome(c, TRUE, FALSE)
  BY DEF InsertOutcomes
<1>2. CASE last > 0 /\ Fits(h.pages[last], row) /\ o = Outcome(c, TRUE, FALSE)
  <2>1. last \in DOMAIN h.pages
    BY <1>2, LenProperties DEF HeapOK
  <2> HIDE DEF last
  <2>2. HeapOK(c) /\ \E new : AddsRow(h.pages, c.pages, new, row)
    BY <1>2, <2>1, InsertIntoPage
  <2> HIDE DEF c
  <2>3. o.heap = c /\ o.ok = TRUE /\ o.failed = FALSE /\ o = Outcome(o.heap, o.ok, o.failed)
    BY <1>2 DEF Outcome
  <2> QED
    BY <2>2, <2>3 DEF InsertDone
<1>3. CASE o \in NewPageOutcomes(h, row, FALSE) \/ o \in NewPageOutcomes(h, row, TRUE)
  BY <1>3, NewPageDone
<1> QED
  BY <1>1, <1>2, <1>3

\* What updateRow comes to: the new row for the old one; or both, "new row
\* inserted but can't delete old"; or nothing.
UpdateDone(h, old, row, o) ==
    /\ o.ok \in BOOLEAN /\ o.failed \in BOOLEAN /\ HeapOK(o.heap)
    /\ o.ok => \/ \E new : MovesRow(h.pages, o.heap.pages, old, new, row)
               \/ o.failed /\ \E new : AddsRow(h.pages, o.heap.pages, new, row)
    /\ ~o.ok => SameRows(h.pages, o.heap.pages)

\* Across pages.
LEMMA MoveDone ==
    ASSUME NEW h, HeapOK(h), NEW p, NEW s, [page |-> p, slot |-> s] \in TidsOf(h.pages),
           NEW row \in Rows, NEW o \in MoveOutcomes(h, p, s, row)
    PROVE  UpdateDone(h, [page |-> p, slot |-> s], row, o)
<1> DEFINE old == [page |-> p, slot |-> s]
<1>0. old \in TidsOf(h.pages)
  OBVIOUS
<1>1. PICK i \in InsertOutcomes(h, row) :
         o \in IF i.ok
               THEN {[i EXCEPT !.heap = Changed(@, p, Erased(@.pages[p], s))]}
                    \cup (IF MayFail THEN {[i EXCEPT !.failed = TRUE]} ELSE {})
               ELSE {i}
  BY DEF MoveOutcomes
<1>2. InsertDone(h, row, i)
  BY InsertOutcomesDone
<1>3. CASE ~i.ok
  <2>1. o = i
    BY <1>1, <1>3
  <2> QED
    BY <1>2, <1>3, <2>1 DEF InsertDone, UpdateDone
<1>4. CASE i.ok
  <2>1. PICK new : AddsRow(h.pages, i.heap.pages, new, row)
    BY <1>2, <1>4 DEF InsertDone
  <2>2. i = [heap |-> i.heap, ok |-> i.ok, failed |-> i.failed] /\ HeapOK(i.heap) /\ i.failed \in BOOLEAN
    BY <1>2 DEF InsertDone, Outcome
  <2> DEFINE c == Changed(i.heap, p, Erased(i.heap.pages[p], s))
  <2>3. \/ o = [i EXCEPT !.heap = c]
        \/ o = [i EXCEPT !.failed = TRUE]
    BY <1>1, <1>4
  <2>4. CASE o = [i EXCEPT !.failed = TRUE]
    <3>1. o.ok = TRUE /\ o.failed = TRUE /\ o.heap = i.heap
      BY <1>4, <1>2, <2>2, <2>4 DEF InsertDone
    <3> QED
      BY <2>1, <2>2, <3>1 DEF UpdateDone
  <2>5. CASE o = [i EXCEPT !.heap = c]
    <3>1. [page |-> p, slot |-> s] \in TidsOf(i.heap.pages)
      BY <2>1 DEF AddsRow
    <3>2. HeapOK(c) /\ DropsRow(i.heap.pages, c.pages, old)
      BY <2>2, <3>1, EraseFromPage
    <3> HIDE DEF c, old
    <3>3. o.ok = TRUE /\ o.failed = i.failed /\ o.heap = c
      BY <1>4, <1>2, <2>2, <2>5 DEF InsertDone
    <3>4. new \notin TidsOf(h.pages) /\ new # old
      BY <1>0, <2>1 DEF AddsRow
    <3>5. TidsOf(c.pages) = (TidsOf(h.pages) \ {old}) \cup {new}
      BY <2>1, <3>2, <3>4 DEF AddsRow, DropsRow
    <3>6. RowIn(c.pages, new) = row /\ Agree(h.pages, c.pages, TidsOf(h.pages) \ {old})
      BY <2>1, <3>2, <3>4 DEF AddsRow, DropsRow, Agree
    <3>7. MovesRow(h.pages, c.pages, old, new, row)
      BY <1>0, <3>4, <3>5, <3>6 DEF MovesRow
    <3> QED
      BY <2>2, <3>2, <3>3, <3>7 DEF UpdateDone, old
  <2> QED
    BY <2>3, <2>4, <2>5
<1> QED
  BY <1>3, <1>4

\* updateRow.
LEMMA UpdateOutcomesDone ==
    ASSUME NEW h, HeapOK(h), NEW tid \in TidsOf(h.pages), NEW row \in Rows,
           NEW o \in UpdateOutcomes(h, tid.page, tid.slot, row)
    PROVE  UpdateDone(h, tid, row, o)
<1> DEFINE p == tid.page
           s == tid.slot
<1>1. tid = [page |-> p, slot |-> s] /\ p \in DOMAIN h.pages /\ s \in LiveSlots(h.pages[p])
  BY TidShape
<1>2. SameRows(h.pages, h.pages)
  BY DEF SameRows, Agree
<1>3. \/ o = Outcome(h, FALSE, FALSE) \/ o = Outcome(h, FALSE, TRUE)
      \/ /\ h.pages[p].free + h.pages[p].slots[s].size >= row.size + SlotSize
         /\ o = UpdateInPage(h, p, s, row)
      \/ o \in MoveOutcomes(h, p, s, row)
  BY DEF UpdateOutcomes, FitsInPlace
<1> HIDE DEF p, s
<1>4. CASE o = Outcome(h, FALSE, FALSE) \/ o = Outcome(h, FALSE, TRUE)
  <2>1. o.heap = h /\ o.ok = FALSE /\ (o.failed = FALSE \/ o.failed = TRUE)
    <3>1. CASE o = Outcome(h, FALSE, FALSE)
      BY <3>1 DEF Outcome
    <3>2. CASE o = Outcome(h, FALSE, TRUE)
      BY <3>2 DEF Outcome
    <3> QED
      BY <1>4, <3>1, <3>2
  <2> QED
    BY <1>2, <2>1 DEF UpdateDone
<1>5. CASE /\ h.pages[p].free + h.pages[p].slots[s].size >= row.size + SlotSize
           /\ o = UpdateInPage(h, p, s, row)
  <2>1. [page |-> p, slot |-> s] \in TidsOf(h.pages)
    BY <1>1
  <2>2. /\ o.ok = TRUE /\ o.failed = FALSE /\ HeapOK(o.heap)
        /\ \E new : MovesRow(h.pages, o.heap.pages, [page |-> p, slot |-> s], new, row)
    BY <1>5, <2>1, UpdateInPageOK
  <2> QED
    BY <1>1, <2>2 DEF UpdateDone
<1>6. CASE o \in MoveOutcomes(h, p, s, row)
  <2>1. [page |-> p, slot |-> s] \in TidsOf(h.pages)
    BY <1>1
  <2>2. UpdateDone(h, [page |-> p, slot |-> s], row, o)
    BY <1>6, <2>1, MoveDone
  <2> QED
    BY <1>1, <2>2
<1> QED
  BY <1>3, <1>4, <1>5, <1>6

\* deleteRow.
LEMMA DeleteOutcomesDone ==
    ASSUME NEW h, HeapOK(h), NEW tid \in TidsOf(h.pages),
           NEW o \in DeleteOutcomes(h, tid.page, tid.slot)
    PROVE  /\ o.ok \in BOOLEAN /\ HeapOK(o.heap)
           /\ o.ok => DropsRow(h.pages, o.heap.pages, tid)
           /\ ~o.ok => o.heap = h
<1> DEFINE p == tid.page
           s == tid.slot
           c == Changed(h, p, Erased(h.pages[p], s))
<1>1. tid = [page |-> p, slot |-> s] /\ [page |-> p, slot |-> s] \in TidsOf(h.pages)
  BY TidShape
<1>2. o = Outcome(c, TRUE, FALSE) \/ o = Outcome(h, FALSE, TRUE)
  BY DEF DeleteOutcomes
<1> HIDE DEF p, s
<1>3. HeapOK(c) /\ DropsRow(h.pages, c.pages, tid)
  BY <1>1, EraseFromPage
<1> HIDE DEF c
<1>4. CASE o = Outcome(c, TRUE, FALSE)
  <2>1. o.heap = c /\ o.ok = TRUE
    BY <1>4 DEF Outcome
  <2> QED
    BY <1>3, <2>1
<1>5. CASE o = Outcome(h, FALSE, TRUE)
  <2>1. o.heap = h /\ o.ok = FALSE
    BY <1>5 DEF Outcome
  <2> QED
    BY <2>1
<1> QED
  BY <1>2, <1>4, <1>5

-----------------------------------------------------------------------------
\* Counting rows.

\* Where a row is.
Having(pages, row) == {tid \in TidsOf(pages) : RowIn(pages, tid) = row}

\* The bag counts the places of each row.
LEMMA BagCounts ==
    ASSUME NEW pages, IsFiniteSet(TidsOf(pages))
    PROVE  /\ Bag(pages) = [row \in Rows |-> Cardinality(Having(pages, row))]
           /\ \A row \in Rows : /\ IsFiniteSet(Having(pages, row))
                                /\ Bag(pages)[row] = Cardinality(Having(pages, row))
                                /\ Bag(pages)[row] \in Nat
                                /\ Having(pages, row) # {} => Bag(pages)[row] > 0
<1>1. Bag(pages) = [row \in Rows |-> Cardinality(Having(pages, row))]
  BY DEF Bag, Having
<1>2. ASSUME NEW row \in Rows
      PROVE  /\ IsFiniteSet(Having(pages, row))
             /\ Cardinality(Having(pages, row)) \in Nat
             /\ Having(pages, row) # {} => Cardinality(Having(pages, row)) > 0
  <2>1. Having(pages, row) \subseteq TidsOf(pages)
    BY DEF Having
  <2>2. IsFiniteSet(Having(pages, row))
    BY <2>1, FS_Subset
  <2>3. Cardinality(Having(pages, row)) \in Nat
    BY <2>2, FS_CardinalityType
  <2>4. Cardinality(Having(pages, row)) = 0 <=> Having(pages, row) = {}
    BY <2>2, FS_EmptySet
  <2> QED
    BY <2>2, <2>3, <2>4
<1> QED
  BY <1>1, <1>2

\* The same rows in the same places.
LEMMA SameBag ==
    ASSUME NEW a, NEW b, SameRows(a, b)
    PROVE  Bag(b) = Bag(a)
<1>1. \A row : Having(b, row) = Having(a, row)
  BY DEF SameRows, Agree, Having
<1>2. \A row : {tid \in TidsOf(b) : RowIn(b, tid) = row} = {tid \in TidsOf(a) : RowIn(a, tid) = row}
  BY <1>1 DEF Having
<1> QED
  BY <1>2 DEF Bag

\* One row more.
LEMMA BagAdds ==
    ASSUME NEW a, NEW b, IsFiniteSet(TidsOf(a)), NEW new, NEW row \in Rows, AddsRow(a, b, new, row)
    PROVE  IsFiniteSet(TidsOf(b)) /\ Bag(b) = [Bag(a) EXCEPT ![row] = @ + 1]
<1>1. IsFiniteSet(TidsOf(b))
  BY FS_AddElement DEF AddsRow
<1>2. Having(b, row) = Having(a, row) \cup {new} /\ new \notin Having(a, row)
  BY DEF AddsRow, Agree, Having
<1>3. \A r : r # row => Having(b, r) = Having(a, r)
  BY DEF AddsRow, Agree, Having
<1>4. Cardinality(Having(b, row)) = Cardinality(Having(a, row)) + 1
  BY <1>2, BagCounts, FS_AddElement
<1>5. ASSUME NEW r \in Rows
      PROVE  Bag(b)[r] = [Bag(a) EXCEPT ![row] = @ + 1][r]
  <2>1. /\ Bag(a)[r] = Cardinality(Having(a, r)) /\ Bag(b)[r] = Cardinality(Having(b, r))
        /\ DOMAIN Bag(a) = Rows
    BY <1>1, BagCounts
  <2>2. CASE r = row
    BY <1>4, <2>1, <2>2
  <2>3. CASE r # row
    BY <1>3, <2>1, <2>3
  <2> QED
    BY <2>2, <2>3
<1> QED
  BY <1>1, <1>5 DEF Bag

\* One row less, which was there.
LEMMA BagDrops ==
    ASSUME NEW a, NEW b, IsFiniteSet(TidsOf(a)), NEW old, DropsRow(a, b, old),
           NEW row \in Rows, RowIn(a, old) = row
    PROVE  /\ IsFiniteSet(TidsOf(b)) /\ Bag(a)[row] > 0
           /\ Bag(b) = [Bag(a) EXCEPT ![row] = @ - 1]
<1>1. IsFiniteSet(TidsOf(b))
  BY FS_Subset DEF DropsRow
<1>2. Having(b, row) = Having(a, row) \ {old} /\ old \in Having(a, row)
  BY DEF DropsRow, Agree, Having
<1>3. \A r : r # row => Having(b, r) = Having(a, r)
  BY DEF DropsRow, Agree, Having
<1>4. Cardinality(Having(b, row)) = Cardinality(Having(a, row)) - 1
  BY <1>2, BagCounts, FS_RemoveElement
<1>5. ASSUME NEW r \in Rows
      PROVE  Bag(b)[r] = [Bag(a) EXCEPT ![row] = @ - 1][r]
  <2>1. /\ Bag(a)[r] = Cardinality(Having(a, r)) /\ Bag(b)[r] = Cardinality(Having(b, r))
        /\ DOMAIN Bag(a) = Rows
    BY <1>1, BagCounts
  <2>2. CASE r = row
    BY <1>4, <2>1, <2>2
  <2>3. CASE r # row
    BY <1>3, <2>1, <2>3
  <2> QED
    BY <2>2, <2>3
<1>6. Bag(a)[row] > 0
  BY <1>2, BagCounts
<1> QED
  BY <1>1, <1>5, <1>6 DEF Bag

\* One row for another.
LEMMA BagMoves ==
    ASSUME NEW a, NEW b, IsFiniteSet(TidsOf(a)), NEW old, NEW new,
           NEW row \in Rows, MovesRow(a, b, old, new, row),
           NEW was \in Rows, RowIn(a, old) = was, was # row
    PROVE  /\ IsFiniteSet(TidsOf(b)) /\ Bag(a)[was] > 0
           /\ Bag(b) = [Bag(a) EXCEPT ![was] = @ - 1, ![row] = @ + 1]
<1>1. IsFiniteSet(TidsOf(b))
  <2>1. IsFiniteSet(TidsOf(a) \ {old})
    BY FS_Subset
  <2> QED
    BY <2>1, FS_AddElement DEF MovesRow
<1>2. Having(b, was) = Having(a, was) \ {old} /\ old \in Having(a, was)
  BY DEF MovesRow, Agree, Having
<1>3. Having(b, row) = Having(a, row) \cup {new} /\ new \notin Having(a, row)
  BY DEF MovesRow, Agree, Having
<1>4. \A r : r # row /\ r # was => Having(b, r) = Having(a, r)
  BY DEF MovesRow, Agree, Having
<1>5. Cardinality(Having(b, was)) = Cardinality(Having(a, was)) - 1
  BY <1>2, BagCounts, FS_RemoveElement
<1>6. Cardinality(Having(b, row)) = Cardinality(Having(a, row)) + 1
  BY <1>3, BagCounts, FS_AddElement
<1>7. ASSUME NEW r \in Rows
      PROVE  Bag(b)[r] = [Bag(a) EXCEPT ![was] = @ - 1, ![row] = @ + 1][r]
  <2>1. /\ Bag(a)[r] = Cardinality(Having(a, r)) /\ Bag(b)[r] = Cardinality(Having(b, r))
        /\ DOMAIN Bag(a) = Rows
    BY <1>1, BagCounts
  <2>2. CASE r = row
    BY <1>6, <2>1, <2>2
  <2>3. CASE r = was
    BY <1>5, <2>1, <2>3
  <2>4. CASE r # row /\ r # was
    BY <1>4, <2>1, <2>4
  <2> QED
    BY <2>2, <2>3, <2>4
<1>8. Bag(a)[was] > 0
  BY <1>2, BagCounts
<1> QED
  BY <1>1, <1>7, <1>8 DEF Bag

-----------------------------------------------------------------------------
\* What a statement has left to do.

\* One row less to do.
LEMMA TailTodo ==
    ASSUME NEW todo \in Seq(Todo), todo # <<>>, Distinct(todo)
    PROVE  /\ Tail(todo) \in Seq(Todo) /\ Distinct(Tail(todo)) /\ Head(todo) \in Todo
           /\ 1 \in DOMAIN todo /\ Head(todo) = todo[1]
           /\ \A i \in DOMAIN Tail(todo) : i + 1 \in DOMAIN todo /\ Tail(todo)[i] = todo[i + 1]
           /\ Pending(Tail(todo)) = Pending(todo) \ {Head(todo).tid}
           /\ Head(todo).tid \in Pending(todo)
           /\ \A tid, row : tid # Head(todo).tid => (WillBe(Tail(todo), tid, row) <=> WillBe(todo, tid, row))
           /\ \A row : WillBe(todo, Head(todo).tid, row) <=> Head(todo).new = row
<1> DEFINE rest == Tail(todo)
           next == Head(todo)
<1>1. /\ rest \in Seq(Todo) /\ next \in Todo /\ Len(rest) = Len(todo) - 1 /\ next = todo[1]
      /\ \A i \in 1 .. Len(rest) : rest[i] = todo[i + 1]
  BY HeadTailProperties
<1> HIDE DEF rest, next
<1>2. /\ Len(todo) \in Nat /\ Len(todo) > 0
      /\ DOMAIN todo = 1 .. Len(todo) /\ DOMAIN rest = 1 .. Len(todo) - 1
  BY <1>1, LenProperties, EmptySeq DEF rest
<1>3. /\ 1 \in DOMAIN todo
      /\ \A i \in DOMAIN rest : i + 1 \in DOMAIN todo /\ i + 1 # 1 /\ rest[i] = todo[i + 1]
      /\ \A j \in DOMAIN todo : j # 1 => j - 1 \in DOMAIN rest /\ rest[j - 1] = todo[j]
  BY <1>1, <1>2
<1>4. \A i \in DOMAIN rest : todo[i + 1].tid # next.tid
  BY <1>1, <1>3 DEF Distinct
<1>5. Distinct(rest)
  <2> SUFFICES ASSUME NEW i \in DOMAIN rest, NEW j \in DOMAIN rest, rest[i].tid = rest[j].tid
               PROVE  i = j
    BY DEF Distinct
  <2>1. i + 1 = j + 1
    BY <1>3 DEF Distinct
  <2> QED
    BY <2>1, <1>2
<1>6. Pending(rest) = Pending(todo) \ {next.tid} /\ next.tid \in Pending(todo)
  <2>1. next.tid \in Pending(todo)
    BY <1>1, <1>3 DEF Pending
  <2>2. ASSUME NEW tid \in Pending(rest)
        PROVE  tid \in Pending(todo) \ {next.tid}
    BY <1>3, <1>4 DEF Pending
  <2>3. ASSUME NEW tid \in Pending(todo), tid # next.tid
        PROVE  tid \in Pending(rest)
    <3>1. PICK j \in DOMAIN todo : todo[j].tid = tid
      BY DEF Pending
    <3>2. j # 1
      BY <1>1, <2>3, <3>1
    <3> QED
      BY <1>3, <3>1, <3>2 DEF Pending
  <2> QED
    BY <2>1, <2>2, <2>3
<1>7. ASSUME NEW tid, NEW row, tid # next.tid
      PROVE  WillBe(rest, tid, row) <=> WillBe(todo, tid, row)
  <2>1. ASSUME NEW j \in DOMAIN todo, todo[j].tid = tid, todo[j].new = row
        PROVE  WillBe(rest, tid, row)
    <3>1. j # 1
      BY <1>1, <1>7, <2>1
    <3> QED
      BY <1>3, <2>1, <3>1 DEF WillBe
  <2>2. ASSUME NEW i \in DOMAIN rest, rest[i].tid = tid, rest[i].new = row
        PROVE  WillBe(todo, tid, row)
    BY <1>3, <2>2 DEF WillBe
  <2> QED
    BY <2>1, <2>2 DEF WillBe
<1>8. \A row : WillBe(todo, next.tid, row) <=> next.new = row
  BY <1>1, <1>3 DEF WillBe, Distinct
<1> QED
  BY <1>1, <1>3, <1>5, <1>6, <1>7, <1>8 DEF rest, next

\* With nothing left to do, the rows are those of the table.
LEMMA AfterNothing ==
    ASSUME NEW pages
    PROVE  After(pages, <<>>) = Bag(pages)
<1>1. Pending(<<>>) = {}
  BY DEF Pending
<1>2. \A row : Places(pages, <<>>, row) = {tid \in TidsOf(pages) : RowIn(pages, tid) = row}
  BY <1>1 DEF Places
<1> QED
  BY <1>2 DEF After, Bag

\* The same rows in the same places.
LEMMA AfterSame ==
    ASSUME NEW a, NEW b, NEW todo, SameRows(a, b)
    PROVE  After(b, todo) = After(a, todo)
<1>1. \A row : Places(b, todo, row) = Places(a, todo, row)
  BY DEF SameRows, Agree, Places
<1> QED
  BY <1>1 DEF After

\* The next row is updated as planned, and may go elsewhere: what the statement
\* will have made of the table stays as it was.
LEMMA AfterMoves ==
    ASSUME NEW a, NEW b, IsFiniteSet(TidsOf(a)),
           NEW todo \in Seq(Todo), todo # <<>>, Distinct(todo), Pending(todo) \subseteq TidsOf(a),
           NEW next, next = Head(todo), NEW new, MovesRow(a, b, next.tid, new, next.new)
    PROVE  After(b, Tail(todo)) = After(a, todo)
<1> DEFINE rest == Tail(todo)
           old == next.tid
<1>1. /\ Pending(rest) = Pending(todo) \ {old} /\ old \in Pending(todo)
      /\ \A tid, row : tid # old => (WillBe(rest, tid, row) <=> WillBe(todo, tid, row))
      /\ \A row : WillBe(todo, old, row) <=> next.new = row
  <2>1. Pending(Tail(todo)) = Pending(todo) \ {Head(todo).tid} /\ Head(todo).tid \in Pending(todo)
    BY TailTodo
  <2>2. \A tid, row : tid # Head(todo).tid => (WillBe(Tail(todo), tid, row) <=> WillBe(todo, tid, row))
    BY TailTodo
  <2>3. \A row : WillBe(todo, Head(todo).tid, row) <=> Head(todo).new = row
    BY TailTodo
  <2> QED
    BY <2>1, <2>2, <2>3
<1>2. new \notin Pending(rest) /\ new \notin TidsOf(a) /\ new # old
  BY <1>1 DEF MovesRow
<1> HIDE DEF rest, old
<1>3. ASSUME NEW row \in Rows
      PROVE  Cardinality(Places(b, rest, row)) = Cardinality(Places(a, todo, row))
  <2> DEFINE others == Places(a, todo, row) \ {old}
  <2>1. others = {tid \in TidsOf(a) \ {old} :
                     IF tid \in Pending(rest) THEN WillBe(rest, tid, row) ELSE RowIn(b, tid) = row}
    BY <1>1 DEF Places, MovesRow, Agree, old
  <2>2. Places(b, rest, row) = others \cup (IF next.new = row THEN {new} ELSE {})
    <3>1. TidsOf(b) = (TidsOf(a) \ {old}) \cup {new} /\ RowIn(b, new) = next.new
      BY DEF MovesRow, old
    <3> QED
      BY <1>2, <2>1, <3>1 DEF Places
  <2>3. Places(a, todo, row) = others \cup (IF next.new = row THEN {old} ELSE {})
    BY <1>1 DEF Places, MovesRow, old
  <2>4. IsFiniteSet(others) /\ new \notin others /\ old \notin others
    <3>1. others \subseteq TidsOf(a)
      BY DEF Places
    <3> QED
      BY <3>1, <1>2, FS_Subset
  <2> HIDE DEF others
  <2>5. CASE next.new = row
    <3>1. Places(b, rest, row) = others \cup {new} /\ Places(a, todo, row) = others \cup {old}
      BY <2>2, <2>3, <2>5
    <3>2. Cardinality(others \cup {new}) = Cardinality(others) + 1
      BY <2>4, FS_AddElement
    <3>3. Cardinality(others \cup {old}) = Cardinality(others) + 1
      BY <2>4, FS_AddElement
    <3> QED
      BY <3>1, <3>2, <3>3
  <2>6. CASE next.new # row
    BY <2>2, <2>3, <2>6
  <2> QED
    BY <2>5, <2>6
<1> QED
  BY <1>3 DEF After, rest

\* The next row is deleted as planned.
LEMMA AfterDrops ==
    ASSUME NEW a, NEW b,
           NEW todo \in Seq(Todo), todo # <<>>, Distinct(todo), Pending(todo) \subseteq TidsOf(a),
           NEW next, next = Head(todo), next.new = NoRow, DropsRow(a, b, next.tid)
    PROVE  After(b, Tail(todo)) = After(a, todo)
<1> DEFINE rest == Tail(todo)
           old == next.tid
<1>1. /\ Pending(rest) = Pending(todo) \ {old} /\ old \in Pending(todo)
      /\ \A tid, row : tid # old => (WillBe(rest, tid, row) <=> WillBe(todo, tid, row))
      /\ \A row : WillBe(todo, old, row) <=> next.new = row
  <2>1. Pending(Tail(todo)) = Pending(todo) \ {Head(todo).tid} /\ Head(todo).tid \in Pending(todo)
    BY TailTodo
  <2>2. \A tid, row : tid # Head(todo).tid => (WillBe(Tail(todo), tid, row) <=> WillBe(todo, tid, row))
    BY TailTodo
  <2>3. \A row : WillBe(todo, Head(todo).tid, row) <=> Head(todo).new = row
    BY TailTodo
  <2> QED
    BY <2>1, <2>2, <2>3
<1> HIDE DEF rest, old
<1>2. ASSUME NEW row \in Rows
      PROVE  Places(b, rest, row) = Places(a, todo, row)
  <2>1. row # next.new
    BY NoRowAssumption
  <2>2. TidsOf(b) = TidsOf(a) \ {old} /\ Agree(a, b, TidsOf(a) \ {old})
    BY DEF DropsRow, old
  <2> QED
    BY <1>1, <2>1, <2>2 DEF Places, Agree
<1> QED
  BY <1>2 DEF After, rest

-----------------------------------------------------------------------------
\* The order of the iterator.

\* Tids by page and slot come one after the other, each once: InOrder lists them.
LEMMA InOrderLists ==
    ASSUME NEW S, S \subseteq Tids, IsFiniteSet(S), NEW q, q = InOrder(S), NEW n, n = Cardinality(S)
    PROVE  /\ n \in Nat /\ DOMAIN q = 1 .. n
           /\ \A k \in 1 .. n : q[k] \in S
           /\ \A j, k \in 1 .. n : q[j] = q[k] => j = k
           /\ \A tid \in S : \E k \in 1 .. n : q[k] = tid
<1> DEFINE Below(t) == {other \in S : Before(other, t)}
           rank == [t \in S |-> Cardinality(Below(t))]
           places == 0 .. n - 1
<1>1. n \in Nat
  BY FS_CardinalityType
<1>2. ASSUME NEW a \in S, NEW b \in S, a # b
      PROVE  Before(a, b) \/ Before(b, a)
  BY <1>2 DEF Before, Tids
<1>3. ASSUME NEW a \in S, NEW b \in S, NEW c \in S, Before(a, b), Before(b, c)
      PROVE  Before(a, c)
  BY <1>3 DEF Before, Tids
<1>4. \A a \in S : ~Before(a, a)
  BY DEF Before, Tids
<1>5. ASSUME NEW t \in S
      PROVE  IsFiniteSet(Below(t)) /\ Cardinality(Below(t)) \in Nat
  BY FS_Subset, FS_CardinalityType
<1>6. ASSUME NEW a \in S, NEW b \in S, Before(a, b)
      PROVE  Cardinality(Below(a)) < Cardinality(Below(b))
  <2>1. Below(a) \subseteq Below(b) /\ a \in Below(b) /\ a \notin Below(a)
    BY <1>3, <1>4, <1>6
  <2>2. Below(a) \cup {a} \subseteq Below(b)
    BY <2>1
  <2>3. IsFiniteSet(Below(a)) /\ IsFiniteSet(Below(b)) /\ Cardinality(Below(a)) \in Nat /\ Cardinality(Below(b)) \in Nat
    BY <1>5
  <2> HIDE DEF Below
  <2>4. Cardinality(Below(a) \cup {a}) = Cardinality(Below(a)) + 1
    BY <2>1, <2>3, FS_AddElement
  <2>5. Cardinality(Below(a) \cup {a}) <= Cardinality(Below(b))
    BY <2>2, <2>3, FS_Subset
  <2> QED
    BY <2>3, <2>4, <2>5
<1>7. ASSUME NEW t \in S
      PROVE  Cardinality(Below(t)) \in places
  <2>1. Below(t) \cup {t} \subseteq S /\ t \notin Below(t)
    BY <1>4
  <2>2. IsFiniteSet(Below(t)) /\ Cardinality(Below(t)) \in Nat
    BY <1>5
  <2> HIDE DEF Below
  <2>3. Cardinality(Below(t) \cup {t}) = Cardinality(Below(t)) + 1
    BY <2>1, <2>2, FS_AddElement
  <2>4. Cardinality(Below(t) \cup {t}) <= n
    BY <2>1, FS_Subset
  <2> QED
    BY <1>1, <2>2, <2>3, <2>4
<1> HIDE DEF Below
<1>8. rank \in Injection(S, places)
  <2>1. rank \in [S -> places]
    BY <1>7
  <2>2. ASSUME NEW a \in S, NEW b \in S, rank[a] = rank[b]
        PROVE  a = b
    BY <1>2, <1>5, <1>6, <2>2
  <2> QED
    BY <2>1, <2>2 DEF Injection, IsInjective
<1>9. IsFiniteSet(places) /\ Cardinality(places) = n
  <2>1. 0 \in Int /\ n - 1 \in Int
    BY <1>1
  <2>2. /\ IsFiniteSet(0 .. n - 1)
        /\ Cardinality(0 .. n - 1) = IF 0 > n - 1 THEN 0 ELSE (n - 1) - 0 + 1
    BY <2>1, FS_Interval
  <2> QED
    BY <1>1, <2>2
<1>10. \A i \in places : \E t \in S : Cardinality(Below(t)) = i
  <2>1. rank \in Surjection(S, places)
    <3> HIDE DEF rank, places
    <3> QED
      BY <1>8, <1>9, FS_Injection
  <2> QED
    BY <2>1 DEF Surjection
<1>11. q = [k \in 1 .. n |-> CHOOSE t \in S : Cardinality(Below(t)) = k - 1]
  BY DEF InOrder, Below
<1>12. ASSUME NEW k \in 1 .. n
       PROVE  q[k] \in S /\ Cardinality(Below(q[k])) = k - 1
  <2>1. k - 1 \in places
    BY <1>1
  <2>2. \E t \in S : Cardinality(Below(t)) = k - 1
    BY <1>10, <2>1
  <2>3. q[k] = CHOOSE t \in S : Cardinality(Below(t)) = k - 1
    BY <1>11
  <2> QED
    BY <2>2, <2>3
<1>13. ASSUME NEW j \in 1 .. n, NEW k \in 1 .. n, q[j] = q[k]
       PROVE  j = k
  <2>1. j - 1 = k - 1
    BY <1>12, <1>13
  <2> QED
    BY <2>1
<1>14. ASSUME NEW tid \in S
       PROVE  \E k \in 1 .. n : q[k] = tid
  <2>1. PICK i \in places : i = Cardinality(Below(tid))
    BY <1>7
  <2>2. i + 1 \in 1 .. n /\ (i + 1) - 1 = i
    BY <1>1
  <2>3. q[i + 1] \in S /\ Cardinality(Below(q[i + 1])) = Cardinality(Below(tid))
    BY <1>12, <2>1, <2>2
  <2>4. q[i + 1] = tid
    BY <1>2, <1>5, <1>6, <2>3
  <2> QED
    BY <2>2, <2>4
<1> QED
  BY <1>1, <1>11, <1>12, <1>13, <1>14

\* What the first pass leaves to do: each of the tids once.
LEMMA PlanLists ==
    ASSUME NEW S, S \subseteq Tids, IsFiniteSet(S),
           NEW plan, plan = [k \in DOMAIN InOrder(S) |-> plan[k]],
           \A k \in DOMAIN InOrder(S) : plan[k] \in Todo /\ plan[k].tid = InOrder(S)[k]
    PROVE  /\ plan \in Seq(Todo) /\ Distinct(plan) /\ Pending(plan) = S
           /\ DOMAIN plan = DOMAIN InOrder(S) /\ \A k \in DOMAIN plan : InOrder(S)[k] \in S
<1> DEFINE n == Cardinality(S)
           q == InOrder(S)
<1>1. /\ n \in Nat /\ DOMAIN q = 1 .. n
      /\ \A k \in 1 .. n : q[k] \in S
      /\ \A j, k \in 1 .. n : q[j] = q[k] => j = k
      /\ \A tid \in S : \E k \in 1 .. n : q[k] = tid
  BY InOrderLists
<1> HIDE DEF n, q
<1>2. plan = [k \in 1 .. n |-> plan[k]] /\ DOMAIN plan = 1 .. n
  BY <1>1 DEF q
<1>3. \A k \in 1 .. n : plan[k] \in Todo /\ plan[k].tid = q[k]
  BY <1>1 DEF q
<1>4. plan \in [1 .. n -> Todo]
  BY <1>2, <1>3
<1>5. plan \in Seq(Todo)
  BY <1>1, <1>4, SeqDef
<1>6. Distinct(plan)
  BY <1>1, <1>2, <1>3 DEF Distinct
<1>7. Pending(plan) = S
  BY <1>1, <1>2, <1>3 DEF Pending
<1> QED
  BY <1>1, <1>2, <1>5, <1>6, <1>7 DEF q

-----------------------------------------------------------------------------
\* Statements.

\* Between statements there is nothing to do.
LEMMA IdleOK ==
    ASSUME NEW pages, NEW exact \in BOOLEAN, NEW goal
    PROVE  StmtOK(pages, Idle(exact, goal))
<1>1. <<>> \in Seq(Todo) /\ DOMAIN <<>> = {}
  OBVIOUS
<1>2. Distinct(<<>>) /\ Pending(<<>>) = {}
  BY <1>1 DEF Distinct, Pending
<1> QED
  BY <1>1, <1>2 DEF StmtOK, Idle

\* A failure leaves nothing to do and no goal.
LEMMA FailedOK ==
    ASSUME NEW pages
    PROVE  StmtOK(pages, Failed) /\ GoalOK(pages, Failed)
<1>1. StmtOK(pages, Failed)
  BY IdleOK DEF Failed
<1>2. Failed.exact = FALSE
  BY DEF Failed, Idle
<1> QED
  BY <1>1, <1>2 DEF GoalOK

\* One row less to do: the others are where they were if the step kept them.
LEMMA RestOK ==
    ASSUME NEW a, NEW b, NEW s, StmtOK(a, s), s.todo # <<>>, NEW next, next = Head(s.todo),
           NEW exact \in BOOLEAN, NEW goal,
           NEW r, r = [op |-> s.op, todo |-> Tail(s.todo), exact |-> exact, goal |-> goal],
           TidsOf(a) \ {next.tid} \subseteq TidsOf(b), Agree(a, b, TidsOf(a) \ {next.tid})
    PROVE  StmtOK(b, r)
<1> DEFINE rest == Tail(s.todo)
<1>1. /\ s.todo \in Seq(Todo) /\ Distinct(s.todo) /\ Pending(s.todo) \subseteq TidsOf(a)
      /\ s.op \in {"none", "update", "delete"} /\ s.op # "none"
  BY DEF StmtOK
<1>2. /\ rest \in Seq(Todo) /\ Distinct(rest)
      /\ \A i \in DOMAIN rest : i + 1 \in DOMAIN s.todo /\ rest[i] = s.todo[i + 1]
      /\ Pending(rest) = Pending(s.todo) \ {next.tid}
  <2> DEFINE todo == s.todo
  <2>1. todo \in Seq(Todo) /\ todo # <<>> /\ Distinct(todo)
    BY <1>1
  <2>2. rest = Tail(todo) /\ next = Head(todo)
    OBVIOUS
  <2> HIDE DEF todo, rest
  <2>3. Tail(todo) \in Seq(Todo) /\ Distinct(Tail(todo))
    BY <2>1, TailTodo
  <2>4. \A i \in DOMAIN Tail(todo) : i + 1 \in DOMAIN todo /\ Tail(todo)[i] = todo[i + 1]
    BY <2>1, TailTodo
  <2>5. Pending(Tail(todo)) = Pending(todo) \ {Head(todo).tid}
    BY <2>1, TailTodo
  <2> QED
    BY <2>2, <2>3, <2>4, <2>5 DEF todo
<1> HIDE DEF rest
<1>3. ASSUME NEW i \in DOMAIN rest
      PROVE  /\ RowIn(b, rest[i].tid) = rest[i].old
             /\ s.op = "update" => NewVersion(rest[i].old, rest[i].new)
             /\ s.op = "delete" => rest[i].new = NoRow
  <2>1. /\ RowIn(a, rest[i].tid) = rest[i].old
        /\ s.op = "update" => NewVersion(rest[i].old, rest[i].new)
        /\ s.op = "delete" => rest[i].new = NoRow
    BY <1>2 DEF StmtOK
  <2>2. rest[i].tid \in Pending(rest)
    BY DEF Pending
  <2>3. rest[i].tid \in TidsOf(a) \ {next.tid}
    BY <1>1, <1>2, <2>2
  <2> QED
    BY <2>1, <2>3 DEF Agree
<1>4. r.op = s.op /\ r.todo = rest /\ r.exact = exact /\ r.goal = goal
  BY DEF rest
<1>5. Pending(rest) \subseteq TidsOf(b)
  BY <1>1, <1>2
<1>6. r = [op |-> r.op, todo |-> r.todo, exact |-> r.exact, goal |-> r.goal]
  OBVIOUS
<1> QED
  BY <1>1, <1>2, <1>3, <1>4, <1>5, <1>6 DEF StmtOK

\* The invariant holds of an empty table.
LEMMA InvInit == Init => IInv
<1> SUFFICES ASSUME Init PROVE IInv
  OBVIOUS
<1>1. heap.pages = <<>> /\ heap.saved = <<>> /\ heap.dirty = {} /\ stmt = Idle(TRUE, Bag(<<>>))
      /\ heap = [pages |-> heap.pages, saved |-> heap.saved, dirty |-> heap.dirty]
  BY DEF Init
<1>2. HeapOK(heap)
  <2>1. <<>> \in Seq(Page) /\ Len(<<>>) = 0 /\ DOMAIN <<>> = {}
    OBVIOUS
  <2> QED
    BY <1>1, <2>1, HeapAssumption DEF HeapOK
<1>3. TidsOf(heap.pages) = {}
  BY <1>1 DEF TidsOf
<1>4. IsFiniteSet(TidsOf(heap.pages))
  BY <1>3, FS_EmptySet
<1>5. StmtOK(heap.pages, stmt)
  BY <1>1, IdleOK
<1>6. stmt.exact = TRUE /\ stmt.goal = Bag(<<>>) /\ stmt.todo = <<>>
  BY <1>1 DEF Idle
<1>7. GoalOK(heap.pages, stmt)
  BY <1>1, <1>6, AfterNothing DEF GoalOK
<1> QED
  BY <1>2, <1>4, <1>5, <1>7 DEF IInv

\* The new version of a row that is not at its last.
LEMMA UpdatedVersion ==
    ASSUME NEW row \in Rows, row.ver < MaxVer, NEW size \in Sizes
    PROVE  Updated(row, size) \in Rows /\ NewVersion(row, Updated(row, size))
<1>1. row = [key |-> row.key, ver |-> row.ver, size |-> row.size] /\ row.key \in Keys /\ row.ver \in 0 .. MaxVer
  BY DEF Rows
<1>2. Updated(row, size) = [key |-> row.key, ver |-> row.ver + 1, size |-> size]
  <2>1. Updated(row, size) = [row EXCEPT !.ver = row.ver + 1, !.size = size]
    BY <1>1 DEF Updated
  <2>2. DOMAIN row = {"key", "ver", "size"}
    BY <1>1
  <2>3. Updated(row, size) = [key |-> row.key, ver |-> row.ver + 1, size |-> size]
    BY <1>1, <2>1, <2>2
  <2> QED
    BY <2>3
<1>3. row.ver + 1 \in 0 .. MaxVer
  BY <1>1, HeapAssumption
<1> QED
  BY <1>1, <1>2, <1>3 DEF Rows, NewVersion

\* The first pass of a statement: what it leaves to do at the tids S.
LEMMA PlanOK ==
    ASSUME IInv, NEW S, S \subseteq TidsOf(heap.pages),
           NEW op \in {"update", "delete"}, NEW exact \in BOOLEAN, NEW goal,
           NEW plan, plan = [k \in DOMAIN InOrder(S) |-> plan[k]],
           \A k \in DOMAIN InOrder(S) : InOrder(S)[k] \in S =>
              /\ plan[k] = [tid |-> InOrder(S)[k], old |-> RowAt(InOrder(S)[k]), new |-> plan[k].new]
              /\ op = "update" => NewVersion(RowAt(InOrder(S)[k]), plan[k].new)
              /\ op = "delete" => plan[k].new = NoRow
    PROVE  /\ StmtOK(heap.pages, [op |-> op, todo |-> plan, exact |-> exact, goal |-> goal])
           /\ Pending(plan) = S
           /\ \A tid \in S : \E k \in DOMAIN plan : plan[k].tid = tid
           /\ \A k \in DOMAIN plan : plan[k].tid = InOrder(S)[k] /\ InOrder(S)[k] \in S
           /\ DOMAIN plan = DOMAIN InOrder(S)
<1> DEFINE q == InOrder(S)
           s == [op |-> op, todo |-> plan, exact |-> exact, goal |-> goal]
<1>1. heap.pages \in Seq(Page) /\ IsFiniteSet(TidsOf(heap.pages))
  BY DEF IInv, HeapOK
<1>2. S \subseteq Tids /\ IsFiniteSet(S) /\ \A tid \in S : RowAt(tid) \in Rows
  BY <1>1, TidTypes, FS_Subset DEF RowAt
<1>3. \A k \in DOMAIN q : q[k] \in S
  BY <1>2, InOrderLists
<1>4. ASSUME NEW k \in DOMAIN q
      PROVE  /\ plan[k] \in Todo /\ plan[k].tid = q[k] /\ plan[k].old = RowAt(q[k])
             /\ op = "update" => NewVersion(plan[k].old, plan[k].new)
             /\ op = "delete" => plan[k].new = NoRow
  <2>1. q[k] \in S
    BY <1>3
  <2>2. /\ plan[k] = [tid |-> q[k], old |-> RowAt(q[k]), new |-> plan[k].new]
        /\ op = "update" => NewVersion(RowAt(q[k]), plan[k].new)
        /\ op = "delete" => plan[k].new = NoRow
    BY <2>1
  <2>3. plan[k].new \in Rows \cup {NoRow}
    BY <2>2 DEF NewVersion
  <2>4. q[k] \in Tids /\ RowAt(q[k]) \in Rows
    BY <2>1, <1>2
  <2> HIDE DEF q
  <2>5. plan[k] \in Todo
    BY <2>2, <2>3, <2>4 DEF Todo
  <2>6. plan[k].tid = q[k] /\ plan[k].old = RowAt(q[k])
    BY <2>2
  <2> QED
    BY <2>2, <2>5, <2>6
<1>5. plan = [k \in DOMAIN q |-> plan[k]]
  OBVIOUS
<1>6. /\ plan \in Seq(Todo) /\ Distinct(plan) /\ Pending(plan) = S
      /\ DOMAIN plan = DOMAIN q
  BY <1>2, <1>4, PlanLists
<1> HIDE DEF q
<1>7. \A tid \in S : \E k \in DOMAIN plan : plan[k].tid = tid
  BY <1>6 DEF Pending
<1>8. s.op = op /\ s.todo = plan /\ s.exact = exact /\ s.goal = goal
  OBVIOUS
<1>9. \A k \in DOMAIN plan :
         /\ RowIn(heap.pages, plan[k].tid) = plan[k].old
         /\ op = "update" => NewVersion(plan[k].old, plan[k].new)
         /\ op = "delete" => plan[k].new = NoRow
  BY <1>4, <1>6 DEF RowAt
<1>10. StmtOK(heap.pages, s)
  <2>1. s = [op |-> s.op, todo |-> s.todo, exact |-> s.exact, goal |-> s.goal]
    OBVIOUS
  <2> HIDE DEF s
  <2> QED
    BY <2>1, <1>6, <1>8, <1>9 DEF StmtOK
<1> QED
  BY <1>3, <1>4, <1>6, <1>7, <1>10 DEF q

\* The goal of an UPDATE whose first pass read every page is ahead of it.
LEMMA UpdateGoal ==
    ASSUME NEW K, NEW size, NEW plan,
           Pending(plan) = {tid \in TidsOf(heap.pages) : RowAt(tid).key \in K},
           \A k \in DOMAIN plan : plan[k].new = Updated(RowAt(plan[k].tid), size)
    PROVE  After(heap.pages, plan) = AfterUpdate(K, size)
<1>1. ASSUME NEW tid \in Pending(plan), NEW row
      PROVE  WillBe(plan, tid, row) <=> row = Updated(RowAt(tid), size)
  BY DEF WillBe, Pending
<1>2. ASSUME NEW row
      PROVE  Places(heap.pages, plan, row)
                = {tid \in TidsOf(heap.pages) :
                      row = IF RowAt(tid).key \in K THEN Updated(RowAt(tid), size) ELSE RowAt(tid)}
  <2>1. ASSUME NEW tid \in TidsOf(heap.pages)
        PROVE  (IF tid \in Pending(plan) THEN WillBe(plan, tid, row) ELSE RowIn(heap.pages, tid) = row)
                  <=> row = IF RowAt(tid).key \in K THEN Updated(RowAt(tid), size) ELSE RowAt(tid)
    <3>1. CASE tid \in Pending(plan)
      <4>1. RowAt(tid).key \in K
        BY <3>1
      <4> QED
        BY <1>1, <3>1, <4>1
    <3>2. CASE tid \notin Pending(plan)
      <4>1. RowAt(tid).key \notin K
        BY <3>2
      <4> QED
        BY <3>2, <4>1 DEF RowAt
    <3> QED
      BY <3>1, <3>2
  <2> QED
    BY <2>1 DEF Places
<1> QED
  BY <1>2 DEF After, AfterUpdate

\* Likewise for DELETE.
LEMMA DeleteGoal ==
    ASSUME NEW K, NEW plan,
           Pending(plan) = {tid \in TidsOf(heap.pages) : RowAt(tid).key \in K},
           \A k \in DOMAIN plan : plan[k].new = NoRow
    PROVE  After(heap.pages, plan) = AfterDelete(K)
<1>1. ASSUME NEW row \in Rows
      PROVE  Places(heap.pages, plan, row)
                = IF row.key \in K THEN {} ELSE {tid \in TidsOf(heap.pages) : RowIn(heap.pages, tid) = row}
  <2>1. \A tid : ~WillBe(plan, tid, row)
    BY NoRowAssumption DEF WillBe
  <2> QED
    BY <2>1 DEF Places, RowAt
<1>2. ASSUME NEW row \in Rows
      PROVE  Cardinality(Places(heap.pages, plan, row)) = AfterDelete(K)[row]
  <2>1. CASE row.key \in K
    BY <1>1, <2>1, FS_EmptySet DEF AfterDelete
  <2>2. CASE row.key \notin K
    BY <1>1, <2>2 DEF AfterDelete, Bag
  <2> QED
    BY <2>1, <2>2
<1> QED
  BY <1>2 DEF After, AfterDelete

-----------------------------------------------------------------------------
\* The steps: what each does to the bag, and that it keeps the invariant.

\* INSERT adds a row, or none.
LEMMA InsertStep ==
    ASSUME IInv, NEW key \in Keys, NEW size \in Sizes, InsertStmt(key, size)
    PROVE  /\ IInv' /\ stmt.op = "none" /\ stmt'.op = "none"
           /\ \/ Bag(heap'.pages) = Bag(heap.pages)
              \/ \E row \in Rows : Bag(heap'.pages) = [Bag(heap.pages) EXCEPT ![row] = @ + 1]
<1> DEFINE row == [key |-> key, ver |-> 0, size |-> size]
           before == Bag(heap.pages)
<1>1. HeapOK(heap) /\ IsFiniteSet(TidsOf(heap.pages)) /\ stmt.op = "none"
  BY DEF IInv, InsertStmt
<1>2. row \in Rows /\ row.key = key
  <2>1. 0 \in 0 .. MaxVer
    BY HeapAssumption
  <2> QED
    BY <2>1 DEF Rows
<1>3. before[row] = 0
  BY <1>2 DEF InsertStmt
<1>4. \/ stmt' = Idle(TRUE, before) /\ UNCHANGED heap
      \/ \E o \in InsertOutcomes(heap, row) :
            /\ heap' = o.heap
            /\ stmt' = Idle(TRUE, IF o.ok THEN [before EXCEPT ![row] = 1] ELSE before)
  BY DEF InsertStmt
<1> HIDE DEF row, before
<1>5. ASSUME NEW goal, stmt' = Idle(TRUE, goal), goal = Bag(heap'.pages)
      PROVE  StmtOK(heap'.pages, stmt') /\ GoalOK(heap'.pages, stmt') /\ stmt'.op = "none"
  <2>1. StmtOK(heap'.pages, stmt')
    BY <1>5, IdleOK
  <2>2. stmt'.op = "none" /\ stmt'.todo = <<>> /\ stmt'.goal = goal
    BY <1>5 DEF Idle
  <2>3. GoalOK(heap'.pages, stmt')
    BY <1>5, <2>2, AfterNothing DEF GoalOK
  <2> QED
    BY <2>1, <2>2, <2>3
<1>6. CASE stmt' = Idle(TRUE, before) /\ UNCHANGED heap
  BY <1>1, <1>5, <1>6 DEF IInv, before
<1>7. ASSUME NEW o \in InsertOutcomes(heap, row), heap' = o.heap,
             stmt' = Idle(TRUE, IF o.ok THEN [before EXCEPT ![row] = 1] ELSE before)
      PROVE  /\ IInv' /\ stmt'.op = "none"
             /\ Bag(heap'.pages) = before \/ Bag(heap'.pages) = [before EXCEPT ![row] = @ + 1]
  <2>1. InsertDone(heap, row, o)
    BY <1>1, <1>2, InsertOutcomesDone
  <2>2. HeapOK(heap')
    BY <1>7, <2>1 DEF InsertDone
  <2>3. CASE o.ok
    <3>1. PICK new : AddsRow(heap.pages, heap'.pages, new, row)
      BY <1>7, <2>1, <2>3 DEF InsertDone
    <3>2. IsFiniteSet(TidsOf(heap'.pages)) /\ Bag(heap'.pages) = [before EXCEPT ![row] = @ + 1]
      BY <1>1, <1>2, <3>1, BagAdds DEF before
    <3>3. Bag(heap'.pages) = [before EXCEPT ![row] = 1]
      BY <1>3, <3>2
    <3>4. stmt' = Idle(TRUE, Bag(heap'.pages))
      BY <1>7, <2>3, <3>3
    <3> QED
      BY <1>5, <2>2, <3>2, <3>4 DEF IInv
  <2>4. CASE ~o.ok
    <3>1. SameRows(heap.pages, heap'.pages)
      BY <1>7, <2>1, <2>4 DEF InsertDone
    <3>2. IsFiniteSet(TidsOf(heap'.pages)) /\ Bag(heap'.pages) = before
      BY <1>1, <3>1, SameBag DEF before, SameRows
    <3>3. stmt' = Idle(TRUE, Bag(heap'.pages))
      BY <1>7, <2>4, <3>2
    <3> QED
      BY <1>5, <2>2, <3>2, <3>3 DEF IInv
  <2> QED
    BY <2>3, <2>4
<1> QED
  BY <1>1, <1>2, <1>4, <1>6, <1>7 DEF before

\* The first pass of UPDATE changes no row.
LEMMA UpdateStep ==
    ASSUME IInv, NEW K \in SUBSET Keys, NEW size \in Sizes, UpdateStmt(K, size)
    PROVE  IInv' /\ stmt.op = "none" /\ stmt'.op = "update" /\ heap' = heap
<1>1. stmt.op = "none" /\ heap' = heap
  BY DEF UpdateStmt
<1>2. PICK skipped \in Unreadable :
         stmt' = [op |-> "update",
                  todo |-> [k \in DOMAIN Matching(skipped, K) |->
                               [tid |-> Matching(skipped, K)[k], old |-> RowAt(Matching(skipped, K)[k]),
                                new |-> Updated(RowAt(Matching(skipped, K)[k]), size)]],
                  exact |-> skipped = {},
                  goal |-> IF skipped = {} THEN AfterUpdate(K, size) ELSE NoBag]
  BY DEF UpdateStmt
<1> DEFINE S == {tid \in Scanned(skipped) : RowAt(tid).key \in K}
           q == InOrder(S)
           plan == [k \in DOMAIN q |-> [tid |-> q[k], old |-> RowAt(q[k]), new |-> Updated(RowAt(q[k]), size)]]
           exact == skipped = {}
           goal == IF skipped = {} THEN AfterUpdate(K, size) ELSE NoBag
<1>3. stmt' = [op |-> "update", todo |-> plan, exact |-> exact, goal |-> goal]
  BY <1>2 DEF Matching
<1>4. S \subseteq TidsOf(heap.pages) /\ (exact => S = {tid \in TidsOf(heap.pages) : RowAt(tid).key \in K})
  BY DEF Scanned
<1>5. ASSUME NEW tid \in S
      PROVE  RowAt(tid) \in Rows /\ RowAt(tid).ver < MaxVer
  <2>1. tid \in TidsOf(heap.pages) /\ RowAt(tid).key \in K
    BY <1>4
  <2>2. RowAt(tid) \in Rows
    BY <2>1, TidTypes DEF IInv, HeapOK, RowAt
  <2>3. Bag(heap.pages)[RowAt(tid)] > 0
    <3>1. tid \in Having(heap.pages, RowAt(tid))
      BY <2>1 DEF Having, RowAt
    <3> QED
      BY <2>2, <3>1, BagCounts DEF IInv
  <2> QED
    BY <2>1, <2>2, <2>3 DEF UpdateStmt
<1> HIDE DEF S
<1>6. \A k \in DOMAIN q : q[k] \in S =>
         /\ plan[k] = [tid |-> q[k], old |-> RowAt(q[k]), new |-> plan[k].new]
         /\ NewVersion(RowAt(q[k]), plan[k].new)
         /\ plan[k].new = Updated(RowAt(q[k]), size)
  <2> SUFFICES ASSUME NEW k \in DOMAIN q, q[k] \in S
               PROVE  /\ plan[k] = [tid |-> q[k], old |-> RowAt(q[k]), new |-> plan[k].new]
                      /\ NewVersion(RowAt(q[k]), plan[k].new)
                      /\ plan[k].new = Updated(RowAt(q[k]), size)
    OBVIOUS
  <2>1. plan[k] = [tid |-> q[k], old |-> RowAt(q[k]), new |-> Updated(RowAt(q[k]), size)]
    OBVIOUS
  <2>2. NewVersion(RowAt(q[k]), Updated(RowAt(q[k]), size))
    BY <1>5, UpdatedVersion
  <2> QED
    BY <2>1, <2>2
<1>7. plan = [k \in DOMAIN q |-> plan[k]] /\ exact \in BOOLEAN
  OBVIOUS
<1> HIDE DEF plan, exact, goal
<1>8. /\ StmtOK(heap.pages, stmt') /\ Pending(plan) = S
      /\ \A k \in DOMAIN plan : plan[k].tid = q[k] /\ q[k] \in S
      /\ DOMAIN plan = DOMAIN q
  BY <1>3, <1>4, <1>6, <1>7, PlanOK
<1>9. exact => After(heap.pages, plan) = goal
  <2> SUFFICES ASSUME exact
               PROVE  After(heap.pages, plan) = goal
    OBVIOUS
  <2>1. Pending(plan) = {tid \in TidsOf(heap.pages) : RowAt(tid).key \in K}
    BY <1>4, <1>8
  <2>2. \A k \in DOMAIN plan : plan[k].new = Updated(RowAt(plan[k].tid), size)
    BY <1>6, <1>8
  <2>3. goal = AfterUpdate(K, size)
    BY DEF exact, goal
  <2> QED
    BY <2>1, <2>2, <2>3, UpdateGoal
<1>10. GoalOK(heap.pages, stmt')
  BY <1>3, <1>9 DEF GoalOK
<1> QED
  BY <1>1, <1>3, <1>8, <1>10 DEF IInv

\* Nor does that of DELETE.
LEMMA DeleteStep ==
    ASSUME IInv, NEW K \in SUBSET Keys, DeleteStmt(K)
    PROVE  IInv' /\ stmt.op = "none" /\ stmt'.op = "delete" /\ heap' = heap
<1>1. stmt.op = "none" /\ heap' = heap
  BY DEF DeleteStmt
<1>2. PICK skipped \in Unreadable :
         stmt' = [op |-> "delete",
                  todo |-> [k \in DOMAIN Matching(skipped, K) |->
                               [tid |-> Matching(skipped, K)[k], old |-> RowAt(Matching(skipped, K)[k]),
                                new |-> NoRow]],
                  exact |-> skipped = {},
                  goal |-> IF skipped = {} THEN AfterDelete(K) ELSE NoBag]
  BY DEF DeleteStmt
<1> DEFINE S == {tid \in Scanned(skipped) : RowAt(tid).key \in K}
           q == InOrder(S)
           plan == [k \in DOMAIN q |-> [tid |-> q[k], old |-> RowAt(q[k]), new |-> NoRow]]
           exact == skipped = {}
           goal == IF skipped = {} THEN AfterDelete(K) ELSE NoBag
<1>3. stmt' = [op |-> "delete", todo |-> plan, exact |-> exact, goal |-> goal]
  BY <1>2 DEF Matching
<1>4. S \subseteq TidsOf(heap.pages) /\ (exact => S = {tid \in TidsOf(heap.pages) : RowAt(tid).key \in K})
  BY DEF Scanned
<1> HIDE DEF S
<1>5. \A k \in DOMAIN q :
         plan[k] = [tid |-> q[k], old |-> RowAt(q[k]), new |-> plan[k].new] /\ plan[k].new = NoRow
  OBVIOUS
<1>6. plan = [k \in DOMAIN q |-> plan[k]] /\ exact \in BOOLEAN
  OBVIOUS
<1> HIDE DEF plan, exact, goal
<1>7. /\ StmtOK(heap.pages, stmt') /\ Pending(plan) = S
      /\ DOMAIN plan = DOMAIN q
  BY <1>3, <1>4, <1>5, <1>6, PlanOK
<1>8. exact => After(heap.pages, plan) = goal
  <2> SUFFICES ASSUME exact
               PROVE  After(heap.pages, plan) = goal
    OBVIOUS
  <2>1. Pending(plan) = {tid \in TidsOf(heap.pages) : RowAt(tid).key \in K}
    BY <1>4, <1>7
  <2>2. \A k \in DOMAIN plan : plan[k].new = NoRow
    BY <1>5, <1>7
  <2>3. goal = AfterDelete(K)
    BY DEF exact, goal
  <2> QED
    BY <2>1, <2>2, <2>3, DeleteGoal
<1>9. GoalOK(heap.pages, stmt')
  BY <1>3, <1>8 DEF GoalOK
<1> QED
  BY <1>1, <1>3, <1>7, <1>9 DEF IInv

\* The second pass of UPDATE puts the new version of a row for it, or beside it
\* when the old one cannot be deleted; or it fails, and changes no row.
LEMMA UpdateRowStep ==
    ASSUME IInv, UpdateRow
    PROVE  /\ IInv' /\ stmt.op = "update"
           /\ \/ stmt'.op = "none" /\ Bag(heap'.pages) = Bag(heap.pages)
              \/ /\ stmt'.op = "update"
                 /\ \E was, row \in Rows :
                       /\ NewVersion(was, row) /\ Bag(heap.pages)[was] > 0
                       /\ \/ Bag(heap'.pages) = [Bag(heap.pages) EXCEPT ![was] = @ - 1, ![row] = @ + 1]
                          \/ Bag(heap'.pages) = [Bag(heap.pages) EXCEPT ![row] = @ + 1]
<1> DEFINE next == Head(stmt.todo)
           tid == next.tid
           was == next.old
           row == next.new
<1>1. /\ HeapOK(heap) /\ IsFiniteSet(TidsOf(heap.pages)) /\ StmtOK(heap.pages, stmt)
      /\ GoalOK(heap.pages, stmt) /\ stmt.op = "update" /\ stmt.todo # <<>>
  BY DEF IInv, UpdateRow
<1>2. /\ stmt.todo \in Seq(Todo) /\ Distinct(stmt.todo) /\ Pending(stmt.todo) \subseteq TidsOf(heap.pages)
      /\ stmt = [op |-> stmt.op, todo |-> stmt.todo, exact |-> stmt.exact, goal |-> stmt.goal]
      /\ stmt.exact \in BOOLEAN
  BY <1>1 DEF StmtOK
<1>3. /\ 1 \in DOMAIN stmt.todo /\ next = stmt.todo[1] /\ next \in Todo
      /\ tid \in Pending(stmt.todo)
  <2> DEFINE todo == stmt.todo
  <2>1. todo \in Seq(Todo) /\ todo # <<>> /\ Distinct(todo)
    BY <1>1, <1>2
  <2> HIDE DEF todo
  <2>2. 1 \in DOMAIN todo /\ Head(todo) = todo[1] /\ Head(todo) \in Todo
    BY <2>1, TailTodo
  <2>3. Head(todo).tid \in Pending(todo)
    BY <2>1, TailTodo
  <2> QED
    BY <2>2, <2>3 DEF todo
<1>4. RowIn(heap.pages, tid) = was /\ NewVersion(was, row)
  BY <1>1, <1>3 DEF StmtOK
<1>5. tid \in TidsOf(heap.pages) /\ was \in Rows /\ row \in Rows
  BY <1>2, <1>3, <1>4 DEF NewVersion, Todo
<1>6. PICK o \in UpdateOutcomes(heap, tid.page, tid.slot, row) :
         /\ heap' = o.heap
         /\ stmt' = CASE ~o.ok             -> Failed
                      [] o.ok /\ o.failed  -> [stmt EXCEPT !.todo = Tail(@), !.exact = FALSE, !.goal = NoBag]
                      [] o.ok /\ ~o.failed -> [stmt EXCEPT !.todo = Tail(@)]
  BY DEF UpdateRow
<1> HIDE DEF next, tid, was, row
<1>7. UpdateDone(heap, tid, row, o)
  BY <1>1, <1>5, <1>6, UpdateOutcomesDone
<1>8. HeapOK(heap') /\ o.ok \in BOOLEAN /\ o.failed \in BOOLEAN
  BY <1>6, <1>7 DEF UpdateDone
<1>9. was # row
  <2>1. was.ver \in 0 .. MaxVer /\ row.ver = was.ver + 1
    BY <1>4, <1>5 DEF NewVersion, Rows
  <2> QED
    BY <2>1, HeapAssumption
<1>10. was \in Rows /\ Bag(heap.pages)[was] > 0
  <2>1. tid \in Having(heap.pages, was)
    BY <1>4, <1>5 DEF Having
  <2> QED
    BY <1>1, <1>5, <2>1, BagCounts
<1>11. CASE ~o.ok
  <2>1. stmt' = Failed /\ SameRows(heap.pages, heap'.pages)
    BY <1>6, <1>7, <1>11 DEF UpdateDone
  <2>2. stmt'.op = "none" /\ Bag(heap'.pages) = Bag(heap.pages)
    BY <2>1, SameBag DEF Failed, Idle
  <2>3. IsFiniteSet(TidsOf(heap'.pages))
    BY <1>1, <2>1 DEF SameRows
  <2> QED
    BY <1>1, <1>8, <2>1, <2>2, <2>3, FailedOK DEF IInv
<1>12. CASE o.ok
  <2> DEFINE exact == ~o.failed /\ stmt.exact
             goal == IF o.failed THEN NoBag ELSE stmt.goal
  <2>1. /\ exact \in BOOLEAN
        /\ stmt' = [op |-> stmt.op, todo |-> Tail(stmt.todo), exact |-> exact, goal |-> goal]
        /\ exact => stmt.exact /\ goal = stmt.goal /\ ~o.failed
    <3>1. CASE o.failed
      <4>1. stmt' = [stmt EXCEPT !.todo = Tail(stmt.todo), !.exact = FALSE, !.goal = NoBag]
        BY <1>6, <1>8, <1>12, <3>1
      <4>2. exact = FALSE /\ goal = NoBag
        BY <3>1
      <4> HIDE DEF exact, goal
      <4> QED
        BY <1>2, <4>1, <4>2
    <3>2. CASE ~o.failed
      <4>1. stmt' = [stmt EXCEPT !.todo = Tail(stmt.todo)]
        BY <1>6, <1>8, <1>12, <3>2
      <4>2. exact = stmt.exact /\ goal = stmt.goal
        BY <1>2, <3>2
      <4> HIDE DEF exact, goal
      <4> QED
        BY <1>2, <3>2, <4>1, <4>2
    <3> QED
      BY <1>8, <3>1, <3>2
  <2> HIDE DEF exact, goal
  <2>2. /\ stmt'.op = "update" /\ stmt'.todo = Tail(stmt.todo) /\ stmt'.exact = exact /\ stmt'.goal = goal
    BY <1>1, <2>1
  <2>3. ASSUME TidsOf(heap.pages) \ {tid} \subseteq TidsOf(heap'.pages),
               Agree(heap.pages, heap'.pages, TidsOf(heap.pages) \ {tid})
        PROVE  StmtOK(heap'.pages, stmt')
    <3>1. next = Head(stmt.todo) /\ tid = next.tid
      BY DEF next, tid
    <3> QED
      BY <1>1, <2>1, <2>3, <3>1, RestOK
  <2>4. CASE \E new : MovesRow(heap.pages, heap'.pages, tid, new, row)
    <3>1. PICK new : MovesRow(heap.pages, heap'.pages, tid, new, row)
      BY <2>4
    <3>2. /\ IsFiniteSet(TidsOf(heap'.pages))
          /\ Bag(heap'.pages) = [Bag(heap.pages) EXCEPT ![was] = @ - 1, ![row] = @ + 1]
      BY <1>1, <1>4, <1>5, <1>9, <3>1, BagMoves
    <3>3. StmtOK(heap'.pages, stmt')
      BY <2>3, <3>1 DEF MovesRow
    <3>4. After(heap'.pages, Tail(stmt.todo)) = After(heap.pages, stmt.todo)
      <4>1. next = Head(stmt.todo) /\ tid = next.tid /\ row = next.new
        BY DEF next, tid, row
      <4> QED
        BY <1>1, <1>2, <3>1, <4>1, AfterMoves
    <3>5. GoalOK(heap'.pages, stmt')
      BY <1>1, <2>1, <2>2, <3>4 DEF GoalOK
    <3> QED
      BY <1>1, <1>4, <1>5, <1>8, <1>10, <2>2, <3>2, <3>3, <3>5 DEF IInv
  <2>5. CASE o.failed /\ \E new : AddsRow(heap.pages, heap'.pages, new, row)
    <3>1. PICK new : AddsRow(heap.pages, heap'.pages, new, row)
      BY <2>5
    <3>2. /\ IsFiniteSet(TidsOf(heap'.pages))
          /\ Bag(heap'.pages) = [Bag(heap.pages) EXCEPT ![row] = @ + 1]
      BY <1>1, <1>5, <3>1, BagAdds
    <3>3. StmtOK(heap'.pages, stmt')
      BY <2>3, <3>1 DEF AddsRow, Agree
    <3>4. GoalOK(heap'.pages, stmt')
      BY <2>1, <2>2, <2>5 DEF GoalOK
    <3> QED
      BY <1>1, <1>4, <1>5, <1>8, <1>10, <2>2, <3>2, <3>3, <3>4 DEF IInv
  <2> QED
    BY <1>6, <1>7, <1>12, <2>4, <2>5 DEF UpdateDone
<1> QED
  BY <1>8, <1>11, <1>12

\* The second pass of DELETE removes a row; or it fails, and changes none.
LEMMA DeleteRowStep ==
    ASSUME IInv, DeleteRow
    PROVE  /\ IInv' /\ stmt.op = "delete"
           /\ \/ stmt'.op = "none" /\ Bag(heap'.pages) = Bag(heap.pages)
              \/ /\ stmt'.op = "delete"
                 /\ \E was \in Rows : /\ Bag(heap.pages)[was] > 0
                                      /\ Bag(heap'.pages) = [Bag(heap.pages) EXCEPT ![was] = @ - 1]
<1> DEFINE next == Head(stmt.todo)
           tid == next.tid
           was == next.old
<1>1. /\ HeapOK(heap) /\ IsFiniteSet(TidsOf(heap.pages)) /\ StmtOK(heap.pages, stmt)
      /\ GoalOK(heap.pages, stmt) /\ stmt.op = "delete" /\ stmt.todo # <<>>
  BY DEF IInv, DeleteRow
<1>2. /\ stmt.todo \in Seq(Todo) /\ Distinct(stmt.todo) /\ Pending(stmt.todo) \subseteq TidsOf(heap.pages)
      /\ stmt = [op |-> stmt.op, todo |-> stmt.todo, exact |-> stmt.exact, goal |-> stmt.goal]
      /\ stmt.exact \in BOOLEAN
  BY <1>1 DEF StmtOK
<1>3. /\ 1 \in DOMAIN stmt.todo /\ next = stmt.todo[1] /\ next \in Todo
      /\ tid \in Pending(stmt.todo)
  <2> DEFINE todo == stmt.todo
  <2>1. todo \in Seq(Todo) /\ todo # <<>> /\ Distinct(todo)
    BY <1>1, <1>2
  <2> HIDE DEF todo
  <2>2. 1 \in DOMAIN todo /\ Head(todo) = todo[1] /\ Head(todo) \in Todo
    BY <2>1, TailTodo
  <2>3. Head(todo).tid \in Pending(todo)
    BY <2>1, TailTodo
  <2> QED
    BY <2>2, <2>3 DEF todo
<1>4. RowIn(heap.pages, tid) = was /\ next.new = NoRow
  BY <1>1, <1>3 DEF StmtOK
<1>5. tid \in TidsOf(heap.pages) /\ was \in Rows
  BY <1>2, <1>3 DEF Todo
<1>6. PICK o \in DeleteOutcomes(heap, tid.page, tid.slot) :
         heap' = o.heap /\ stmt' = IF o.ok THEN [stmt EXCEPT !.todo = Tail(@)] ELSE Failed
  BY DEF DeleteRow
<1> HIDE DEF next, tid, was
<1>7. /\ o.ok \in BOOLEAN /\ HeapOK(heap')
      /\ o.ok => DropsRow(heap.pages, heap'.pages, tid)
      /\ ~o.ok => heap' = heap
  BY <1>1, <1>5, <1>6, DeleteOutcomesDone
<1>8. CASE ~o.ok
  <2>1. heap' = heap /\ stmt' = Failed
    BY <1>6, <1>7, <1>8
  <2>2. stmt'.op = "none"
    BY <2>1 DEF Failed, Idle
  <2> QED
    BY <1>1, <2>1, <2>2, FailedOK DEF IInv
<1>9. CASE o.ok
  <2>1. DropsRow(heap.pages, heap'.pages, tid) /\ stmt' = [stmt EXCEPT !.todo = Tail(stmt.todo)]
    BY <1>6, <1>7, <1>9
  <2>2. stmt' = [op |-> stmt.op, todo |-> Tail(stmt.todo), exact |-> stmt.exact, goal |-> stmt.goal]
    BY <1>2, <2>1
  <2>3. next = Head(stmt.todo) /\ tid = next.tid
    BY DEF next, tid
  <2>4. StmtOK(heap'.pages, stmt')
    <3>1. TidsOf(heap.pages) \ {tid} \subseteq TidsOf(heap'.pages)
      BY <2>1 DEF DropsRow
    <3>2. Agree(heap.pages, heap'.pages, TidsOf(heap.pages) \ {tid})
      BY <2>1 DEF DropsRow
    <3> QED
      BY <1>1, <1>2, <2>2, <2>3, <3>1, <3>2, RestOK
  <2>5. After(heap'.pages, Tail(stmt.todo)) = After(heap.pages, stmt.todo)
    BY <1>1, <1>2, <1>4, <2>1, <2>3, AfterDrops
  <2>6. GoalOK(heap'.pages, stmt')
    BY <1>1, <2>2, <2>5 DEF GoalOK
  <2>7. /\ IsFiniteSet(TidsOf(heap'.pages)) /\ Bag(heap.pages)[was] > 0
        /\ Bag(heap'.pages) = [Bag(heap.pages) EXCEPT ![was] = @ - 1]
    BY <1>1, <1>4, <1>5, <2>1, BagDrops
  <2>8. stmt'.op = "delete"
    BY <1>1, <2>2
  <2> QED
    BY <1>1, <1>5, <1>7, <2>4, <2>6, <2>7, <2>8 DEF IInv
<1> QED
  BY <1>7, <1>8, <1>9

\* A statement with nothing left to do has reached its goal.
LEMMA EndStep ==
    ASSUME IInv, EndStmt
    PROVE  IInv' /\ stmt'.op = "none" /\ heap' = heap
<1>1. /\ heap' = heap /\ stmt.todo = <<>> /\ StmtOK(heap.pages, stmt) /\ GoalOK(heap.pages, stmt)
      /\ stmt' = IF stmt.exact THEN Idle(TRUE, stmt.goal) ELSE Failed
  BY DEF IInv, EndStmt
<1>2. CASE stmt.exact
  <2>1. stmt' = Idle(TRUE, stmt.goal)
    BY <1>1, <1>2
  <2>2. stmt'.op = "none" /\ stmt'.todo = <<>> /\ stmt'.goal = stmt.goal
    BY <2>1 DEF Idle
  <2>3. StmtOK(heap.pages, stmt')
    BY <2>1, IdleOK
  <2>4. GoalOK(heap.pages, stmt')
    BY <1>1, <1>2, <2>2 DEF GoalOK
  <2> QED
    BY <1>1, <2>2, <2>3, <2>4 DEF IInv
<1>3. CASE ~stmt.exact
  <2>1. stmt' = Failed
    BY <1>1, <1>3
  <2>2. stmt'.op = "none"
    BY <2>1 DEF Failed, Idle
  <2> QED
    BY <1>1, <2>1, <2>2, FailedOK DEF IInv
<1> QED
  BY <1>2, <1>3

\* Eviction changes no page: what it forgets is as it was saved.
LEMMA EvictStep ==
    ASSUME IInv, NEW p \in DOMAIN heap.pages, Evict(p)
    PROVE  IInv' /\ heap'.pages = heap.pages /\ stmt' = stmt
<1>1. HeapOK(heap) /\ stmt' = stmt
  BY DEF IInv, Evict
<1>2. /\ heap = [pages |-> heap.pages, saved |-> heap.saved, dirty |-> heap.dirty]
      /\ heap.pages \in Seq(Page) /\ heap.saved \in Seq(Page) /\ Len(heap.saved) = Len(heap.pages)
      /\ DOMAIN heap.pages = 1 .. Len(heap.pages) /\ DOMAIN heap.saved = 1 .. Len(heap.pages)
  BY <1>1, LenProperties DEF HeapOK
<1>3. p \in heap.dirty
  <2> SUFFICES ASSUME p \notin heap.dirty
               PROVE  FALSE
    OBVIOUS
  <2>1. heap' = [heap EXCEPT !.pages[p] = heap.saved[p]] /\ heap' # heap
    BY DEF Evict
  <2>2. heap.saved[p] = heap.pages[p]
    BY <1>1 DEF HeapOK
  <2>3. [heap.pages EXCEPT ![p] = heap.saved[p]] = heap.pages
    BY <1>2, <2>2
  <2>4. heap' = [pages |-> [heap.pages EXCEPT ![p] = heap.saved[p]], saved |-> heap.saved, dirty |-> heap.dirty]
    BY <1>2, <2>1
  <2> QED
    BY <1>2, <2>1, <2>3, <2>4
<1>4. heap' = [heap EXCEPT !.saved[p] = heap.pages[p], !.dirty = heap.dirty \ {p}]
  BY <1>3 DEF Evict
<1>5. heap' = [pages |-> heap.pages, saved |-> [heap.saved EXCEPT ![p] = heap.pages[p]],
               dirty |-> heap.dirty \ {p}]
  BY <1>2, <1>4
<1>6. /\ heap'.pages = heap.pages /\ heap'.dirty = heap.dirty \ {p}
      /\ heap'.saved = [heap.saved EXCEPT ![p] = heap.pages[p]]
      /\ heap' = [pages |-> heap'.pages, saved |-> heap'.saved, dirty |-> heap'.dirty]
  BY <1>5
<1>7. /\ heap'.saved \in Seq(Page) /\ Len(heap'.saved) = Len(heap.saved)
      /\ \A r \in DOMAIN heap.pages : heap'.saved[r] = IF r = p THEN heap.pages[p] ELSE heap.saved[r]
  <2>1. heap.pages[p] \in Page
    BY <1>1 DEF HeapOK, PageOK
  <2> QED
    BY <1>2, <1>6, <2>1, ExceptSeq
<1>8. \A r \in DOMAIN heap'.pages \ heap'.dirty : heap'.saved[r] = heap'.pages[r]
  BY <1>1, <1>6, <1>7 DEF HeapOK
<1>9. HeapOK(heap')
  BY <1>1, <1>2, <1>6, <1>7, <1>8 DEF HeapOK
<1> QED
  BY <1>1, <1>6, <1>9 DEF IInv

\* Every step keeps the invariant.
LEMMA InvNext == IInv /\ [Next]_vars => IInv'
<1> SUFFICES ASSUME IInv, [Next]_vars
             PROVE  IInv'
  OBVIOUS
<1>1. CASE \E k \in Keys, size \in Sizes : InsertStmt(k, size)
  BY <1>1, InsertStep
<1>2. CASE \E K \in SUBSET Keys \ {{}}, size \in Sizes : UpdateStmt(K, size)
  BY <1>2, UpdateStep
<1>3. CASE \E K \in SUBSET Keys \ {{}} : DeleteStmt(K)
  BY <1>3, DeleteStep
<1>4. CASE UpdateRow
  BY <1>4, UpdateRowStep
<1>5. CASE DeleteRow
  BY <1>5, DeleteRowStep
<1>6. CASE EndStmt
  BY <1>6, EndStep
<1>7. CASE \E p \in DOMAIN heap.pages : Evict(p)
  BY <1>7, EvictStep
<1>8. CASE UNCHANGED vars
  BY <1>8 DEF vars, IInv
<1> QED
  BY <1>1, <1>2, <1>3, <1>4, <1>5, <1>6, <1>7, <1>8 DEF Next

\* The inductive invariant holds of the specification.
LEMMA Invariance == Spec => []IInv
BY InvInit, InvNext, PTL DEF Spec

-----------------------------------------------------------------------------
\* The theorems.

\* The shape of the table: pages keep to their room, whatever is inserted, moved
\* and compacted, and a statement's flags are what they should be.
THEOREM TypeCorrect == Spec => []TypeOK
<1>1. IInv => TypeOK
  <2> SUFFICES ASSUME IInv
               PROVE  TypeOK
    OBVIOUS
  <2> QED
    BY DEF IInv, HeapOK, StmtOK, TypeOK
<1> QED
  BY <1>1, Invariance, PTL

\* The second pass of UPDATE and DELETE finds every row where the first one saw it
\* ("Two-pass to avoid iterator invalidation from page migration").
THEOREM TidsStable == Spec => []TidsStay
<1>1. IInv => TidsStay
  <2> SUFFICES ASSUME IInv, NEW i \in DOMAIN stmt.todo
               PROVE  RowAt(stmt.todo[i].tid) = stmt.todo[i].old
    BY DEF TidsStay
  <2> QED
    BY DEF IInv, StmtOK, RowAt
<1> QED
  BY <1>1, Invariance, PTL

\* A statement that met no failure did exactly what it says: every matching row
\* once, no other, and an INSERT that is refused nothing.
THEOREM Exactness == Spec => []StatementsExact
<1>1. IInv => StatementsExact
  <2> SUFFICES ASSUME IInv, stmt.op = "none", stmt.exact
               PROVE  Bag(heap.pages) = stmt.goal
    BY DEF StatementsExact
  <2>1. stmt.todo = <<>> /\ stmt.goal = After(heap.pages, stmt.todo)
    BY DEF IInv, StmtOK, GoalOK
  <2> QED
    BY <2>1, AfterNothing
<1> QED
  BY <1>1, Invariance, PTL

\* Whatever is evicted and whatever cannot be read, the table is the bag of rows
\* of RowStore: an update never removes a row without adding its new version, only
\* DELETE removes rows, and a failed insertion loses none.
THEOREM Refinement == Spec => IsRowStore
<1>1. Init => Table!Init
  <2> SUFFICES ASSUME Init
               PROVE  Table!Init
    OBVIOUS
  <2>1. heap.pages = <<>> /\ stmt.op = "none"
    BY DEF Init, Idle
  <2>2. TidsOf(<<>>) = {}
    BY DEF TidsOf
  <2>3. \A row : {tid \in TidsOf(<<>>) : RowIn(<<>>, tid) = row} = {}
    BY <2>2
  <2>4. Bag(<<>>) = [row \in Rows |-> 0]
    BY <2>3, FS_EmptySet DEF Bag
  <2> QED
    BY <2>1, <2>4 DEF Table!Init
<1>2. IInv /\ [Next]_vars => [Table!Next]_(Table!vars)
  <2> SUFFICES ASSUME IInv, [Next]_vars
               PROVE  [Table!Next]_(Table!vars)
    OBVIOUS
  <2>1. ASSUME NEW key \in Keys, NEW size \in Sizes, InsertStmt(key, size)
        PROVE  [Table!Next]_(Table!vars)
    BY <2>1, InsertStep DEF Table!Next, Table!Insert, Table!vars
  <2>2. ASSUME NEW K \in SUBSET Keys \ {{}}, NEW size \in Sizes, UpdateStmt(K, size)
        PROVE  [Table!Next]_(Table!vars)
    BY <2>2, UpdateStep DEF Table!Next, Table!Begin
  <2>3. ASSUME NEW K \in SUBSET Keys \ {{}}, DeleteStmt(K)
        PROVE  [Table!Next]_(Table!vars)
    BY <2>3, DeleteStep DEF Table!Next, Table!Begin
  <2>4. CASE UpdateRow
    <3>1. CASE stmt'.op = "none" /\ Bag(heap'.pages) = Bag(heap.pages)
      BY <3>1 DEF Table!Next, Table!End
    <3>2. CASE stmt'.op = "update"
      <4>1. PICK was \in Rows, row \in Rows :
               /\ NewVersion(was, row) /\ Bag(heap.pages)[was] > 0
               /\ \/ Bag(heap'.pages) = [Bag(heap.pages) EXCEPT ![was] = @ - 1, ![row] = @ + 1]
                  \/ Bag(heap'.pages) = [Bag(heap.pages) EXCEPT ![row] = @ + 1]
        BY <2>4, <3>2, UpdateRowStep
      <4>2. row \in Table!NewVersions(was)
        BY <4>1 DEF Table!NewVersions, NewVersion
      <4>3. stmt.op = "update"
        BY <2>4 DEF UpdateRow
      <4>4. Table!Replace(was) \/ Table!Duplicate(was)
        BY <3>2, <4>1, <4>2, <4>3 DEF Table!Replace, Table!Duplicate
      <4> QED
        BY <4>4 DEF Table!Next
    <3> QED
      BY <2>4, <3>1, <3>2, UpdateRowStep
  <2>5. CASE DeleteRow
    <3>1. CASE stmt'.op = "none" /\ Bag(heap'.pages) = Bag(heap.pages)
      BY <3>1 DEF Table!Next, Table!End
    <3>2. CASE stmt'.op = "delete"
      BY <2>5, <3>2, DeleteRowStep DEF Table!Next, Table!Remove
    <3> QED
      BY <2>5, <3>1, <3>2, DeleteRowStep
  <2>6. CASE EndStmt
    BY <2>6, EndStep DEF Table!Next, Table!End
  <2>7. ASSUME NEW p \in DOMAIN heap.pages, Evict(p)
        PROVE  [Table!Next]_(Table!vars)
    BY <2>7, EvictStep DEF Table!vars
  <2>8. CASE UNCHANGED vars
    BY <2>8 DEF vars, Table!vars
  <2> QED
    BY <2>1, <2>2, <2>3, <2>4, <2>5, <2>6, <2>7, <2>8 DEF Next
<1> QED
  BY <1>1, <1>2, Invariance, PTL DEF Spec, IsRowStore, Table!Spec
=============================================================================
