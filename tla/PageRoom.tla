------------------------------ MODULE PageRoom ------------------------------
(***************************************************************************)
(* What HeapTable takes for granted of a page: it is a HeapPage, whose     *)
(* free bytes can be told from the sizes of its rows, and an update that   *)
(* fits in place succeeds.  SlottedPage implements it.                     *)
(***************************************************************************)
EXTENDS HeapPage

CONSTANT Rows   \* records with a size

VARIABLE room

Init == room \in {FormattedPage, ZeroPage}

Insert(row) ==
    /\ Fits(room, row)
    /\ room' = Inserted(room, row)

Delete(s) == room' = Erased(room, s)

Compact ==
    /\ room.slots # <<>>
    /\ room' = Compacted(room)

Update(s, row) ==
    /\ FitsInPlace(room, s, row)
    /\ Fits(Compacted(Erased(room, s)), row)
    /\ room' = Inserted(Compacted(Erased(room, s)), row)

Next ==
    \/ \E row \in Rows : Insert(row)
    \/ \E s \in LiveSlots(room) : Delete(s)
    \/ Compact
    \/ \E s \in LiveSlots(room), row \in Rows : Update(s, row)

Spec == Init /\ [][Next]_room
=============================================================================
