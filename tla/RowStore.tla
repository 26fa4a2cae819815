------------------------------ MODULE RowStore ------------------------------
(***************************************************************************)
(* What a table promises the executor: a bag of rows that statements add   *)
(* to, replace in and remove from, one row at a time.  Pages and slots do  *)
(* not show, rows are only removed by DELETE, and an update never removes  *)
(* a row without adding its new version.  HeapTable implements it.         *)
(***************************************************************************)
EXTENDS Integers

CONSTANT AllRows        \* rows: records with a key, a version and a size

VARIABLES rows,         \* how often the table has each row
          op            \* the statement in progress: "none", "update" or "delete"

vars == <<rows, op>>

Init == rows = [r \in AllRows |-> 0] /\ op = "none"

Begin(o) == op = "none" /\ op' = o /\ UNCHANGED rows

End == op' = "none" /\ UNCHANGED rows

Insert(r) ==
    /\ op = "none" /\ UNCHANGED op
    /\ rows' = [rows EXCEPT ![r] = @ + 1]

NewVersions(r) == {new \in AllRows : new.key = r.key /\ new.ver = r.ver + 1}

Replace(r) ==
    /\ op = "update" /\ UNCHANGED op
    /\ rows[r] > 0
    /\ \E new \in NewVersions(r) : rows' = [rows EXCEPT ![r] = @ - 1, ![new] = @ + 1]

\* "Rare failure: new row inserted but can't delete old.  Results in duplicate
\* row" (storage_manager.cpp:340-341).
Duplicate(r) ==
    /\ op = "update" /\ UNCHANGED op
    /\ rows[r] > 0
    /\ \E new \in NewVersions(r) : rows' = [rows EXCEPT ![new] = @ + 1]

Remove(r) ==
    /\ op = "delete" /\ UNCHANGED op
    /\ rows[r] > 0
    /\ rows' = [rows EXCEPT ![r] = @ - 1]

Next ==
    \/ Begin("update") \/ Begin("delete") \/ End
    \/ \E r \in AllRows : Insert(r) \/ Replace(r) \/ Duplicate(r) \/ Remove(r)

Spec == Init /\ [][Next]_vars
=============================================================================
