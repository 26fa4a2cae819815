---------------------------- MODULE MCHeapTable ----------------------------
(***************************************************************************)
(* Model checking of HeapTable.  Keys are interchangeable, and everything  *)
(* checked is a safety property: symmetry is sound.                        *)
(***************************************************************************)
EXTENDS HeapTable, TLC

Symmetry == Permutations(Keys)
=============================================================================
