------------------------------ MODULE HeapPage ------------------------------
(***************************************************************************)
(* A page as the rows above it see it (storage/page.h without its bytes):  *)
(* slots with rows, and a number of free bytes.  HeapTable keeps its rows  *)
(* in such pages; SlottedPage has the bytes.                               *)
(***************************************************************************)
EXTENDS Integers, Sequences, FiniteSets

CONSTANTS
    Capacity,   \* room for slots and records in a page
    SlotSize,   \* Page::SLOT_SIZE
    NoRow       \* a deleted slot; a row has a size

FormattedPage == [slots |-> <<>>, free |-> Capacity]
ZeroPage == [slots |-> <<>>, free |-> 0]

\* Mutated form: the slot entry is left out.
FitsWithoutSlot(page, row) == page.free >= row.size

Fits(page, row) == page.free >= row.size + SlotSize

Inserted(page, row) ==
    [slots |-> Append(page.slots, row), free |-> page.free - row.size - SlotSize]

Erased(page, s) == [page EXCEPT !.slots[s] = NoRow]

LiveSlots(page) == {s \in DOMAIN page.slots : page.slots[s] # NoRow}

\* The bytes of the live records, as pairs slot, index.
LiveBytes(page) == UNION {{s} \X (1 .. page.slots[s].size) : s \in LiveSlots(page)}

LiveSize(page) == Cardinality(LiveBytes(page))

\* Mutated form: the entries of deleted slots are given up.
CompactedSlots(page) ==
    LET NotDeleted(row) == row # NoRow
        live == SelectSeq(page.slots, NotDeleted)
    IN  [slots |-> live, free |-> Capacity - SlotSize * Len(live) - LiveSize(page)]

Compacted(page) ==
    [page EXCEPT !.free = Capacity - SlotSize * Len(page.slots) - LiveSize(page)]

\* updateRow keeps to the page when the row fits once its old bytes are freed.
FitsInPlace(page, s, row) == page.free + page.slots[s].size >= row.size + SlotSize
=============================================================================
