---------------------------- MODULE SlottedPage ----------------------------
(***************************************************************************)
(* One page of a table file (storage/page.h) and the in-place branch of   *)
(* StorageManager::updateRow, its only caller of compact().                *)
(*                                                                         *)
(*   0 .. HeaderSize-1        the header                                   *)
(*   HeaderSize .. lower-1    the slot directory, growing upward           *)
(*   upper .. PageSize-1      the records, growing downward                *)
(*                                                                         *)
(* Slot i of the model is slot_id i-1 of the code.  The directory is a     *)
(* sequence of its own rather than bytes of the body: the two never meet   *)
(* as long as LayoutOK holds.  Sizes and offsets are those of the code     *)
(* scaled down, Word standing for the 2^16 values of a uint16_t.           *)
(***************************************************************************)
EXTENDS Integers, Sequences, FiniteSets

CONSTANTS PageSize,     \* PAGE_SIZE, 4096 in the code
          HeaderSize,   \* PageHeader::HEADER_SIZE, 64
          SlotSize,     \* Page::SLOT_SIZE, 4
          Word,         \* 2^16: sizes are uint16_t
          Bytes,        \* what a byte of a record may hold
          ZeroByte,     \* what memset leaves
          Records       \* the rows to store, serialized

ASSUME SizeAssumption ==
    /\ PageSize \in Nat /\ HeaderSize \in Nat /\ SlotSize \in Nat \ {0}
    /\ HeaderSize < PageSize /\ PageSize + SlotSize < Word /\ Word \in Nat
    /\ ZeroByte \in Bytes

\* A row has at least one byte and fits the uint16_t it is passed with.
ASSUME RecordAssumption ==
    \A r \in Records : r \in Seq(Bytes) /\ r # <<>> /\ Len(r) < Word

VARIABLE page   \* slots, the cursors lower and upper, and the bytes of the body

Offsets == HeaderSize .. PageSize - 1

SlotIds(p) == DOMAIN p.slots

Live(p, i) == p.slots[i].size > 0

FreeSpace(p) == IF p.upper <= p.lower THEN 0 ELSE p.upper - p.lower

\* Mutated form: the slot entry is left out of the sum.
NeededWithoutSlot(size) == size % Word

\* The sum is kept in a uint16_t.
Needed(size) == (size + SlotSize) % Word

\* Mutated form: insertRecord without its test of the free space.
AcceptsAnything(p, size) == size # 0

Accepts(p, size) == size # 0 /\ FreeSpace(p) >= Needed(size)

\* memcpy of a record; what falls outside the body is not modelled.
CopyIn(body, at, r) ==
    [a \in Offsets |-> IF a \in at .. at + Len(r) - 1 THEN r[a - at + 1] ELSE body[a]]

Inserted(p, r) ==
    LET at == p.upper - Len(r)
    IN  [slots |-> Append(p.slots, [at |-> at, size |-> Len(r)]),
         lower |-> p.lower + SlotSize,
         upper |-> at,
         body  |-> CopyIn(p.body, at, r)]

\* What getRecord answers: nothing for a deleted slot.
Record(p, i) ==
    [k \in 1 .. p.slots[i].size |-> p.body[p.slots[i].at + k - 1]]

Erased(p, i) == [p EXCEPT !.slots[i].size = 0]

-----------------------------------------------------------------------------
\* compact() lays the live records out again from the end of the page, in the
\* order of their slots: record i ends where the previous live one begins.

\* The bytes of the live records of the first i slots, as pairs slot, index.
LiveBytes(p, i) ==
    UNION {{j} \X (1 .. p.slots[j].size) : j \in 1 .. i}

Top(p, i) == PageSize - Cardinality(LiveBytes(p, i))

\* The live slot whose record covers offset a once laid out with these tops.
Covers(p, top, i, a) == Live(p, i) /\ a \in top[i] .. top[i] + p.slots[i].size - 1

\* Mutated form: the offsets are changed, but the records are not moved.
RelaidBodyInPlace(p, top) == p.body

RelaidBody(p, top) ==
    [a \in Offsets |->
        IF \E i \in SlotIds(p) : Covers(p, top, i, a)
        THEN LET i == CHOOSE i \in SlotIds(p) : Covers(p, top, i, a)
             IN  p.body[p.slots[i].at + (a - top[i])]
        ELSE p.body[a]]

\* Mutated form: compact() leaves upper where it was.
CompactedKeepsUpper(p) ==
    LET top == [i \in SlotIds(p) |-> Top(p, i)]
    IN  [slots |-> [i \in SlotIds(p) |->
                       IF Live(p, i) THEN [p.slots[i] EXCEPT !.at = top[i]]
                                     ELSE p.slots[i]],
         lower |-> p.lower,
         upper |-> p.upper,
         body  |-> RelaidBody(p, top)]

Compacted(p) ==
    LET top == [i \in SlotIds(p) |-> Top(p, i)]
    IN  [slots |-> [i \in SlotIds(p) |->
                       IF Live(p, i) THEN [p.slots[i] EXCEPT !.at = top[i]]
                                     ELSE p.slots[i]],
         lower |-> p.lower,
         upper |-> Top(p, Len(p.slots)),
         body  |-> RelaidBody(p, top)]

-----------------------------------------------------------------------------

EmptyBody == [a \in Offsets |-> ZeroByte]

\* A page made by the constructor, and one read back from a file that was
\* extended by zeros and never written: its cursors are zero.
FreshPage == [slots |-> <<>>, lower |-> HeaderSize, upper |-> PageSize, body |-> EmptyBody]
ZeroPage == [slots |-> <<>>, lower |-> 0, upper |-> 0, body |-> EmptyBody]

Init == page \in {FreshPage, ZeroPage}

InsertRecord(r) ==
    /\ Accepts(page, Len(r))
    /\ page' = Inserted(page, r)

\* nullopt: the page is full, or was never initialised.
InsertRefused(r) ==
    /\ ~Accepts(page, Len(r))
    /\ UNCHANGED page

DeleteRecord(i) ==
    /\ Live(page, i)
    /\ page' = Erased(page, i)

\* Nothing compacts a page without a directory: updateRow, the only caller, has
\* read a live record before.
Compact ==
    /\ page.slots # <<>>
    /\ page' = Compacted(page)

\* The row fits once its old bytes are freed (storage_manager.cpp:314): delete,
\* compact, insert, and no way back if the insertion is refused.
UpdateInPlace(i, r) ==
    /\ Live(page, i)
    /\ FreeSpace(page) + page.slots[i].size >= Len(r) + SlotSize
    /\ LET p == Compacted(Erased(page, i))
       IN  page' = IF Accepts(p, Len(r)) THEN Inserted(p, r) ELSE p

Next ==
    \/ \E r \in Records : InsertRecord(r) \/ InsertRefused(r)
    \/ \E i \in SlotIds(page) : DeleteRecord(i)
    \/ Compact
    \/ \E i \in SlotIds(page), r \in Records : UpdateInPlace(i, r)

Spec == Init /\ [][Next]_page

-----------------------------------------------------------------------------

Slots == [at : Offsets \cup {0}, size : 0 .. Word - 1]

\* The shape of a page; the body is bytes from end to end.
TypeOK ==
    page \in [slots : Seq(Slots), lower : 0 .. PageSize, upper : 0 .. PageSize,
              body : [Offsets -> Bytes]]

Extent(p, i) == p.slots[i].at .. p.slots[i].at + p.slots[i].size - 1

\* The directory ends below the records, every live record lies between upper
\* and the end of the page, and no two live records share a byte: what every
\* memcpy of page.h relies on without testing it (page.h:107-120, 171-185).
LayoutOK ==
    /\ page.lower <= page.upper /\ page.upper <= PageSize
    /\ page.slots # <<>> => page.lower = HeaderSize + SlotSize * Len(page.slots)
    /\ \A i \in SlotIds(page) : Extent(page, i) \subseteq page.upper .. PageSize - 1
    /\ \A i, j \in SlotIds(page) : i # j => Extent(page, i) \cap Extent(page, j) = {}

\* Compaction leaves no hole: after a compaction, and after an update in place,
\* every byte of the data area belongs to a live record (page.h:153-154).
CompactReclaims ==
    [][(Compact \/ \E i \in SlotIds(page), r \in Records : UpdateInPlace(i, r))
          => UNION {Extent(page', k) : k \in SlotIds(page')}
                = page'.upper .. PageSize - 1]_page

\* What getRecord answers for every slot, read from the bytes.
Store == INSTANCE SlotStore WITH slots <- [i \in SlotIds(page) |-> Record(page, i)]

\* Rows read back as they were written, whatever is inserted, deleted,
\* compacted or updated around them; slot ids are stable and never reused; an
\* update in place never loses the row: the branch "Insertion failed
\* unexpectedly" (storage_manager.cpp:323-325) is not reachable.
IsSlotStore == Store!Spec

\* A page without its bytes: of each row the size, and how many bytes are free.
RoomOf(p) == [slots |-> [i \in SlotIds(p) |-> [size |-> p.slots[i].size]],
              free  |-> FreeSpace(p)]

Heap == INSTANCE PageRoom WITH
    Capacity <- PageSize - HeaderSize, NoRow <- [size |-> 0],
    Rows <- {[size |-> Len(r)] : r \in Records}, room <- RoomOf(page)

\* HeapTable counts the bytes of a page from the sizes of its rows: so they are,
\* through holes, compactions and updates in place.
IsHeapPage == Heap!Spec

\* And a row is let in exactly when there are as many bytes (page.h:103).
RoomAgrees ==
    \A r \in Records : Accepts(page, Len(r)) <=> Heap!Fits(RoomOf(page), [size |-> Len(r)])
=============================================================================
