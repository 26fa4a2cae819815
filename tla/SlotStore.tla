----------------------------- MODULE SlotStore -----------------------------
(***************************************************************************)
(* What a page promises the rows stored in it, without offsets or bytes:   *)
(* a growing array of slots.  A row keeps its slot until it is deleted,    *)
(* a slot is never used twice, and an update moves the row to a new slot   *)
(* at once or not at all.  SlottedPage implements it.                      *)
(***************************************************************************)
EXTENDS Integers, Sequences

CONSTANT Records        \* the rows, serialized: non-empty sequences of bytes

Deleted == <<>>         \* what getRecord answers for a deleted slot

VARIABLE slots          \* what getRecord answers for every slot

Init == slots = <<>>

Insert(r) == slots' = Append(slots, r)

Delete(i) ==
    /\ slots[i] # Deleted
    /\ slots' = [slots EXCEPT ![i] = Deleted]

Update(i, r) ==
    /\ slots[i] # Deleted
    /\ slots' = Append([slots EXCEPT ![i] = Deleted], r)

Next ==
    \/ \E r \in Records : Insert(r)
    \/ \E i \in DOMAIN slots : Delete(i)
    \/ \E i \in DOMAIN slots, r \in Records : Update(i, r)

Spec == Init /\ [][Next]_slots
=============================================================================
