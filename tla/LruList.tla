------------------------------ MODULE LruList ------------------------------
(***************************************************************************)
(* The replacement list of the buffer pool (storage/buffer/lru_replacer):  *)
(* one doubly linked list, head <-> young <-> midpoint <-> old <-> tail,   *)
(* cut in two sublists by the midpoint sentinel.  The operators below are  *)
(* the calls of the class as functions of its state, a record             *)
(*    young, old          the frames of the two sublists, head first       *)
(*    youngSize, oldSize  the counters young_size_ and old_size_           *)
(*    nodes               the keys of nodes_; Pin unlinks a node but keeps *)
(*                        its key, so nodes may exceed the linked frames   *)
(*    crashed             a null link of an unlinked node was dereferenced *)
(* LruReplacer is the class on its own, BufferPool calls it under latch_.  *)
(***************************************************************************)
EXTENDS Integers, Sequences, SequencesExt

CONSTANTS PoolSize,     \* frames managed (pool_size_)
          OldPct        \* percentage of old frames asked for (old_pct)

ASSUME PoolSizeAssumption == PoolSize \in Nat \ {0}
ASSUME OldPctAssumption == OldPct \in Int

Frames == 0 .. PoolSize - 1

Clamp(x, lo, hi) == IF x < lo THEN lo ELSE IF x > hi THEN hi ELSE x

TargetOldSize ==
    LET share == (PoolSize * Clamp(OldPct, 5, 95)) \div 100
    IN  IF share < 1 THEN 1 ELSE share

LruRecords ==
    [young : Seq(Frames), old : Seq(Frames), youngSize : Nat, oldSize : Nat,
     nodes : SUBSET Frames, crashed : BOOLEAN]

EmptyLru == [young |-> <<>>, old |-> <<>>, youngSize |-> 0, oldSize |-> 0,
             nodes |-> {}, crashed |-> FALSE]

Linked(l) == ToSet(l.young) \cup ToSet(l.old)

\* No frame is linked twice.
Distinct(s) == \A i, j \in DOMAIN s : s[i] = s[j] => i = j

\* Head to tail: the frame at the end is the next one to be evicted.
EvictionOrder(l) == l.young \o l.old

Position(s, f) == CHOOSE i \in DOMAIN s : s[i] = f

Without(s, f) == IF f \in ToSet(s) THEN RemoveAt(s, Position(s, f)) ELSE s

\* unlink() followed by the decrement of the counter of the node's sublist.
Unlink(l, f) ==
    IF f \in ToSet(l.old)
    THEN [l EXCEPT !.old = Without(@, f), !.oldSize = @ - 1]
    ELSE [l EXCEPT !.young = Without(@, f), !.youngSize = @ - 1]

\* Each turn of the loop moves the last young frame in front of the old ones
\* and makes oldSize grow: once entered, it only stops when young is empty.
Rebalance(l) ==
    IF l.oldSize > TargetOldSize /\ l.youngSize > 0
    THEN [l EXCEPT !.young = <<>>, !.old = l.young \o @,
                   !.youngSize = 0, !.oldSize = @ + l.youngSize]
    ELSE l

\* Mutated form: Pin reads in_old after it was overwritten, and always takes the
\* node off the young counter.
LruPinWrongCounter(l, f) ==
    IF f \in Linked(l)
    THEN [Unlink(l, f) EXCEPT !.youngSize = l.youngSize - 1, !.oldSize = l.oldSize]
    ELSE l

LruPin(l, f) ==
    CASE f \notin l.nodes     -> l
      [] f \in Linked(l)      -> Unlink(l, f)
      [] OTHER                -> [l EXCEPT !.crashed = TRUE]

\* Mutated form: Unpin without the test for a frame already in the list.
LruUnpinTwice(l, f) ==
    Rebalance([l EXCEPT !.old = <<f>> \o @, !.oldSize = @ + 1,
                        !.nodes = @ \cup {f}])

\* Mutated form: Unpin without the call of rebalance().
LruUnpinUnbalanced(l, f) ==
    IF f \in l.nodes
    THEN l
    ELSE [l EXCEPT !.old = <<f>> \o @, !.oldSize = @ + 1, !.nodes = @ \cup {f}]

LruUnpin(l, f) ==
    IF f \in l.nodes
    THEN l
    ELSE Rebalance([l EXCEPT !.old = <<f>> \o @, !.oldSize = @ + 1,
                             !.nodes = @ \cup {f}])

PutYoung(l, f) == [l EXCEPT !.young = <<f>> \o @, !.youngSize = @ + 1]

LruAccess(l, f) ==
    CASE f \notin l.nodes     -> l
      [] f \in ToSet(l.old)   -> Rebalance(PutYoung(Unlink(l, f), f))
      [] f \in ToSet(l.young) -> PutYoung(Unlink(l, f), f)
      [] OTHER                -> [l EXCEPT !.crashed = TRUE]

\* Evict takes the tail of the old sublist, or of the young one when the old
\* one is empty.
HasVictim(l) == EvictionOrder(l) # <<>>

\* Mutated form: the victim is the node after the midpoint, not before the tail.
VictimAtMidpoint(l) == Head(IF l.old # <<>> THEN l.old ELSE l.young)

Victim(l) == Last(IF l.old # <<>> THEN l.old ELSE l.young)

LruEvict(l) == [Unlink(l, Victim(l)) EXCEPT !.nodes = @ \ {Victim(l)}]

LruSize(l) == l.youngSize + l.oldSize
=============================================================================
