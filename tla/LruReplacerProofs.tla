------------------------- MODULE LruReplacerProofs -------------------------
(***************************************************************************)
(* For every pool size and every percentage: the type invariant, the      *)
(* consistency of the list, the balance of its sublists, and the          *)
(* implementation of EvictionQueue by LruReplacer.                        *)
(***************************************************************************)
EXTENDS LruReplacer, LruListProofs

-----------------------------------------------------------------------------
\* The invariant of the state machine.

IInv ==
    /\ LruOK(lru)
    /\ Balanced(lru)
    /\ call \in [op : CallOps, frame : Frames, ok : BOOLEAN]

\* The empty list satisfies the invariant.
LEMMA InvInit == Init => IInv
<1> SUFFICES ASSUME Init PROVE IInv
  OBVIOUS
<1>1. /\ <<>> \in Seq(Frames) /\ Len(<<>>) = 0
      /\ ToSet(<<>>) = {} /\ Distinct(<<>>)
  BY Nothing
<1>2. LruOK(EmptyLru) /\ Balanced(EmptyLru)
  BY <1>1 DEF EmptyLru, LruOK, LruRecords, Linked, Balanced
<1>3. 0 \in Frames
  BY PoolSizeAssumption DEF Frames
<1> QED
  BY <1>2, <1>3 DEF Init, IInv, CallOps

\* Every call preserves the invariant.
LEMMA InvNext == IInv /\ [Next]_vars => IInv'
<1> SUFFICES ASSUME IInv, [Next]_vars
             PROVE  IInv'
  OBVIOUS
<1>1. ASSUME NEW f \in Frames, Pin(f)
      PROVE  IInv'
  BY <1>1, PinOK DEF IInv, Pin, Answer, CallOps
<1>2. ASSUME NEW f \in Frames, Unpin(f)
      PROVE  IInv'
  BY <1>2, UnpinOK DEF IInv, Unpin, Answer, CallOps
<1>3. ASSUME NEW f \in Frames, Access(f)
      PROVE  IInv'
  BY <1>3, AccessOK DEF IInv, Access, Answer, CallOps
<1>4. CASE Evict
  <2>1. Victim(lru) \in Frames
    BY <1>4, VictimIsLast DEF IInv, Evict, LruOK, LruRecords
  <2>2. LruOK(lru') /\ Balanced(lru')
    BY <1>4, EvictOK DEF IInv, Evict
  <2> QED
    BY <1>4, <2>1, <2>2 DEF IInv, Evict, Answer, CallOps
<1>5. CASE EvictNothing
  <2>1. 0 \in Frames
    BY PoolSizeAssumption DEF Frames
  <2> QED
    BY <1>5, <2>1 DEF IInv, EvictNothing, Answer, CallOps
<1>6. CASE UNCHANGED vars
  BY <1>6 DEF IInv, vars
<1> QED
  BY <1>1, <1>2, <1>3, <1>4, <1>5, <1>6 DEF Next

\* The invariant holds in every reachable state.
LEMMA Invariance == Spec => []IInv
<1> QED
  BY InvInit, InvNext, PTL DEF Spec

\* The list and its counters are well-typed: no counter wraps below zero.
THEOREM TypeCorrect == Spec => []TypeOK
<1>1. IInv => TypeOK
  BY DEF IInv, TypeOK, LruOK
<1> QED
  BY Invariance, <1>1, PTL

\* Whatever the calls, a frame is linked once, has a node, and the counters
\* are the lengths of the sublists.
THEOREM Consistency == Spec => []ListConsistent
<1>1. IInv => ListConsistent
  BY OrderType DEF IInv, ListConsistent, LruOK
<1> QED
  BY Invariance, <1>1, PTL

\* The old sublist exceeds its share only when the young one is empty.
THEOREM Balance == Spec => []Rebalanced
<1>1. IInv => Rebalanced
  BY DEF IInv, Rebalanced, Balanced
<1> QED
  BY Invariance, <1>1, PTL

-----------------------------------------------------------------------------
\* The list implements the queue.

\* The empty list is the empty queue.
LEMMA QueueInit == Init => Queue!Init
<1> SUFFICES ASSUME Init PROVE Queue!Init
  OBVIOUS
<1>1. <<>> \o <<>> = <<>>
  OBVIOUS
<1>2. EvictionOrder(lru) = <<>> /\ lru.nodes \ Linked(lru) = {} /\ lru.crashed = FALSE
  BY <1>1 DEF Init, EmptyLru, EvictionOrder
<1> QED
  BY <1>2 DEF Init, Queue!Init

\* Every call is a step of the abstract queue: of the ones its header
\* describes unless the frame is stranded.
LEMMA QueueNext == IInv /\ [Next]_vars => [Queue!Next]_(Queue!vars)
<1> SUFFICES ASSUME IInv, [Next]_vars
             PROVE  Queue!Next \/ UNCHANGED Queue!vars
  OBVIOUS
<1> DEFINE q == EvictionOrder(lru)
           out == lru.nodes \ Linked(lru)
<1>0. /\ LruOK(lru) /\ Balanced(lru) /\ q \in Seq(Frames) /\ DOMAIN q = 1 .. Len(q)
      /\ ToSet(q) = Linked(lru) /\ out = Stranded(lru)
  BY OrderType, LenProperties DEF IInv, Stranded
<1>a. out' = Stranded(lru')
  BY DEF Stranded
<1>1. ASSUME NEW f \in Frames, Pin(f)
      PROVE  Queue!Next
  <2>1. /\ ~lru.crashed /\ lru' = LruPin(lru, f)
        /\ call' = [op |-> "Pin", frame |-> f, ok |-> TRUE]
    BY <1>1 DEF Pin, Answer
  <2>2. CASE f \in Linked(lru)
    <3>1. /\ \E i \in 1 .. Len(q) : q[i] = f /\ q' = RemoveAt(q, i)
          /\ out' = out \cup {f} /\ lru'.crashed = lru.crashed
      BY <1>0, <1>a, <2>1, <2>2, PinStrands
    <3> QED
      BY <1>0, <2>1, <3>1 DEF Queue!Next, Queue!Leave, Queue!Answer,
                              Queue!RemoveAt, RemoveAt
  <2>3. CASE f \notin Linked(lru) /\ f \notin out
    <3>1. q' = q /\ out' = out /\ lru'.crashed = lru.crashed
      BY <1>0, <2>1, <2>3, PinStrands
    <3> QED
      BY <1>0, <2>1, <2>3, <3>1 DEF Queue!Next, Queue!Pass, Queue!Queued,
                                    Queue!Answer, Queue!ToSet, ToSet
  <2>4. CASE f \in out
    <3>1. lru' = [lru EXCEPT !.crashed = TRUE]
      BY <1>0, <2>1, <2>4, PinStrands
    <3>2. q' = q /\ out' = out /\ lru'.crashed = TRUE
      <4>1. lru'.crashed \in BOOLEAN /\ lru'.crashed
        BY <1>0, <3>1 DEF LruOK, LruRecords
      <4> QED
        BY <1>0, <1>a, <3>1, <4>1, CrashKeeps
    <3> QED
      BY <2>1, <2>4, <3>2 DEF Queue!Next, Queue!NullLink, Queue!Answer
  <2> QED
    BY <2>2, <2>3, <2>4
<1>2. ASSUME NEW f \in Frames, Unpin(f)
      PROVE  Queue!Next
  <2>1. /\ ~lru.crashed /\ lru' = LruUnpin(lru, f)
        /\ call' = [op |-> "Unpin", frame |-> f, ok |-> TRUE]
    BY <1>2 DEF Unpin, Answer
  <2>2. CASE f \in Linked(lru)
    <3>1. q' = q /\ out' = out /\ lru'.crashed = lru.crashed
      BY <1>0, <2>1, <2>2, UnpinStrands
    <3> QED
      BY <1>0, <2>1, <2>2, <3>1 DEF Queue!Next, Queue!Stay, Queue!Queued,
                                    Queue!Answer, Queue!ToSet, ToSet
  <2>3. CASE f \in out
    <3>1. q' = q /\ out' = out /\ lru'.crashed = lru.crashed
      BY <1>0, <2>1, <2>3, UnpinStrands
    <3> QED
      BY <2>1, <2>3, <3>1 DEF Queue!Next, Queue!NotInserted, Queue!Answer
  <2>4. CASE f \notin Linked(lru) /\ f \notin out
    <3>1. /\ q' = lru.young \o (<<f>> \o lru.old)
          /\ out' = out /\ lru'.crashed = lru.crashed
      BY <1>0, <1>a, <2>1, <2>4, UnpinStrands
    <3>2. \E i \in 0 .. Len(q) :
             q' = SubSeq(q, 1, i) \o <<f>> \o SubSeq(q, i + 1, Len(q))
      <4>1. /\ Len(lru.young) \in 0 .. Len(q)
            /\ lru.young \o (<<f>> \o lru.old)
                  = SubSeq(q, 1, Len(lru.young)) \o <<f>>
                       \o SubSeq(q, Len(lru.young) + 1, Len(q))
        BY <1>0, MidpointOrder
      <4> QED
        BY <3>1, <4>1
    <3>3. f \notin ToSet(q)
      BY <1>0, <2>4
    <3> QED
      BY <2>1, <2>4, <3>1, <3>2, <3>3 DEF Queue!Next, Queue!Enter, Queue!Queued,
                                          Queue!Answer, Queue!ToSet, ToSet
  <2> QED
    BY <2>2, <2>3, <2>4
<1>3. ASSUME NEW f \in Frames, Access(f)
      PROVE  Queue!Next
  <2>1. /\ ~lru.crashed /\ lru' = LruAccess(lru, f)
        /\ call' = [op |-> "Access", frame |-> f, ok |-> TRUE]
    BY <1>3 DEF Access, Answer
  <2>2. CASE f \in Linked(lru)
    <3>1. /\ \E i \in 1 .. Len(q) : q[i] = f /\ q' = <<f>> \o RemoveAt(q, i)
          /\ out' = out /\ lru'.crashed = lru.crashed
      <4>1. /\ \E i \in 1 .. Len(q) :
                  q[i] = f /\ EvictionOrder(LruAccess(lru, f)) = <<f>> \o RemoveAt(q, i)
            /\ Stranded(LruAccess(lru, f)) = Stranded(lru)
            /\ LruAccess(lru, f).crashed = lru.crashed
        BY <1>0, <2>2, AccessStrands
      <4> QED
        BY <1>0, <1>a, <2>1, <4>1
    <3> QED
      BY <1>0, <2>1, <3>1 DEF Queue!Next, Queue!Protect, Queue!Answer,
                              Queue!RemoveAt, RemoveAt
  <2>3. CASE f \notin Linked(lru) /\ f \notin out
    <3>1. q' = q /\ out' = out /\ lru'.crashed = lru.crashed
      BY <1>0, <2>1, <2>3, AccessStrands
    <3> QED
      BY <1>0, <2>1, <2>3, <3>1 DEF Queue!Next, Queue!Pass, Queue!Queued,
                                    Queue!Answer, Queue!ToSet, ToSet
  <2>4. CASE f \in out
    <3>1. lru' = [lru EXCEPT !.crashed = TRUE]
      BY <1>0, <2>1, <2>4, AccessStrands
    <3>2. q' = q /\ out' = out /\ lru'.crashed = TRUE
      <4>1. lru'.crashed \in BOOLEAN /\ lru'.crashed
        BY <1>0, <3>1 DEF LruOK, LruRecords
      <4> QED
        BY <1>0, <1>a, <3>1, <4>1, CrashKeeps
    <3> QED
      BY <2>1, <2>4, <3>2 DEF Queue!Next, Queue!NullLink, Queue!Answer
  <2> QED
    BY <2>2, <2>3, <2>4
<1>4. CASE Evict
  <2>1. /\ ~lru.crashed /\ q # <<>> /\ q' = Front(q) /\ Victim(lru) = Last(q)
        /\ out' = out /\ lru'.crashed = lru.crashed
    BY <1>0, <1>4, <1>a, EvictOK, EvictStrands DEF Evict
  <2>2. call' = [op |-> "Evict", frame |-> Last(q), ok |-> TRUE]
    BY <1>4, <2>1 DEF Evict, Answer
  <2> QED
    BY <2>1, <2>2 DEF Queue!Next, Queue!Take, Queue!Answer,
              Queue!Front, Front, Queue!Last, Last
<1>5. CASE EvictNothing
  <2>1. /\ ~lru.crashed /\ q = <<>> /\ lru' = lru
        /\ call' = [op |-> "Evict", frame |-> 0, ok |-> FALSE]
    BY <1>5 DEF EvictNothing, HasVictim, Answer
  <2> QED
    BY <2>1 DEF Queue!Next, Queue!Refuse, Queue!Answer
<1>6. CASE UNCHANGED vars
  BY <1>6 DEF vars, Queue!vars
<1> QED
  BY <1>1, <1>2, <1>3, <1>4, <1>5, <1>6 DEF Next

\* Sublists, midpoint and rebalancing implement a plain queue of eviction in
\* which no call reorders frames it is not about, and in which Unpin, Pin and
\* Access depart from the header for frames pinned while listed and no other.
THEOREM Refinement == Spec => IsEvictionQueue
<1> QED
  BY Invariance, QueueInit, QueueNext, PTL DEF Spec, IsEvictionQueue, Queue!Spec
=============================================================================
