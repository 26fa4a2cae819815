--------------------------- MODULE MCSlottedPage ---------------------------
(***************************************************************************)
(* Model checking of SlottedPage with one row of each size of Sizes.  The  *)
(* bytes of a row differ from each other and from those of the other rows: *)
(* a copy to or from a wrong place shows.                                  *)
(***************************************************************************)
EXTENDS SlottedPage

CONSTANT Sizes

MCBytes == 0 .. 9
MCRecords == {[k \in 1 .. n |-> (3 * n + k) % 10] : n \in Sizes}
=============================================================================
