------------------------------ MODULE SqlOrder ------------------------------
(***************************************************************************)
(* The order of ORDER BY: the comparator Executor::sortResultRows gives to *)
(* std::sort, and what std::sort asks of it.  A sort key is a pair of a    *)
(* column of the rows and its direction.                                   *)
(***************************************************************************)
EXTENDS SqlValues, FiniteSetsExt

Precedes(keys, r, s) ==
  LET cmp(k)  == compareValues(r[k.column], s[k.column])
      decides == {i \in DOMAIN keys : cmp(keys[i]) # 0}
  IN  /\ decides # {}
      /\ LET k == keys[Min(decides)]
         IN  IF k.desc THEN cmp(k) > 0 ELSE cmp(k) < 0

\* rows the comparator tells apart in neither direction
Incomparable(keys, r, s) == ~Precedes(keys, r, s) /\ ~Precedes(keys, s, r)

\* Behaviour of std::sort is defined for such a comparator only.
StrictWeakOrder(keys, rows) ==
  /\ \A r, s \in rows : ~(Precedes(keys, r, s) /\ Precedes(keys, s, r))
  /\ \A r, s, q \in rows :
       /\ Precedes(keys, r, s) /\ Precedes(keys, s, q) => Precedes(keys, r, q)
       /\ Incomparable(keys, r, s) /\ Incomparable(keys, s, q) => Incomparable(keys, r, q)
=============================================================================
