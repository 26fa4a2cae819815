---------------------------- MODULE LruReplacer ----------------------------
(***************************************************************************)
(* The class LruReplacer on its own: a caller that holds the pool's latch  *)
(* makes the four calls in any order, on any frame.                        *)
(***************************************************************************)
EXTENDS LruList

VARIABLES lru,      \* the list (see LruList)
          call      \* the last call: its name, frame and answer

vars == <<lru, call>>

Init ==
    /\ lru = EmptyLru
    /\ call = [op |-> "none", frame |-> 0, ok |-> TRUE]

Answer(op, f, ok) == call' = [op |-> op, frame |-> f, ok |-> ok]

Pin(f) ==
    /\ ~lru.crashed
    /\ lru' = LruPin(lru, f)
    /\ Answer("Pin", f, TRUE)

Unpin(f) ==
    /\ ~lru.crashed
    /\ lru' = LruUnpin(lru, f)
    /\ Answer("Unpin", f, TRUE)

Access(f) ==
    /\ ~lru.crashed
    /\ lru' = LruAccess(lru, f)
    /\ Answer("Access", f, TRUE)

Evict ==
    /\ ~lru.crashed
    /\ HasVictim(lru)
    /\ lru' = LruEvict(lru)
    /\ Answer("Evict", Victim(lru), TRUE)

EvictNothing ==
    /\ ~lru.crashed
    /\ ~HasVictim(lru)
    /\ UNCHANGED lru
    /\ Answer("Evict", 0, FALSE)

Next ==
    \/ \E f \in Frames : Pin(f) \/ Unpin(f) \/ Access(f)
    \/ Evict
    \/ EvictNothing

Spec == Init /\ [][Next]_vars

-----------------------------------------------------------------------------

CallOps == {"none", "Pin", "Unpin", "Access", "Evict"}

\* The shape of the list and of the record of the last call; the counters are
\* size_t and never wrap below zero.
TypeOK ==
    /\ lru \in LruRecords
    /\ call \in [op : CallOps, frame : Frames, ok : BOOLEAN]

\* The three descriptions of the list agree whatever the calls: every linked
\* frame is linked once and has a node (lru_replacer.cpp:66-68), and the
\* counters, which Size(), the loop of rebalance() and its early exit rely
\* on, are the lengths of the sublists.
ListConsistent ==
    /\ Distinct(EvictionOrder(lru))
    /\ Linked(lru) \subseteq lru.nodes
    /\ lru.youngSize = Len(lru.young)
    /\ lru.oldSize = Len(lru.old)

\* The old sublist exceeds its share only when no young frame is left:
\* rebalance() ran after every call that could grow it
\* (lru_replacer.cpp:37-47).
Rebalanced == lru.oldSize > TargetOldSize => lru.young = <<>>

\* The list without its sublists is the queue EvictionQueue describes; a frame
\* with a node and no place in the list is stranded.
Queue == INSTANCE EvictionQueue
             WITH queue    <- EvictionOrder(lru),
                  stranded <- lru.nodes \ Linked(lru),
                  ended    <- lru.crashed

\* The calls do what lru_replacer.h:38-55 says of frames that were never
\* pinned while listed: Unpin inserts a frame that is not in the list, Pin
\* removes one that is, Access makes it the most protected one, Evict takes the
\* least protected one, each of them is ignored otherwise, and no sublist,
\* rebalancing or counter disturbs the order of eviction.  A frame pinned while
\* listed is the exception, against lru_replacer.h:41-42 and :49: Unpin never
\* inserts it again, Pin and Access end the process, and only these do.
IsEvictionQueue == Queue!Spec
=============================================================================
