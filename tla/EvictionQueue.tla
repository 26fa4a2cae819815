--------------------------- MODULE EvictionQueue ---------------------------
(***************************************************************************)
(* What lru_replacer.h promises the caller of the replacement list,        *)
(* without sublists, nodes or counters: a queue of distinct frames, in     *)
(* which an accessed frame goes to the far end, a released one enters      *)
(* anywhere, a pinned one leaves, the victim is the frame at the near end, *)
(* and no call changes the order of the frames it is not about.            *)
(*                                                                         *)
(* A call is ignored in the three cases the header names and in no other.  *)
(* The class departs from the header for one kind of frame, one that was   *)
(* pinned while it was in the queue: it is stranded, and what calls do to  *)
(* it stands apart below.  LruReplacer implements the whole.               *)
(***************************************************************************)
EXTENDS Integers, Sequences, SequencesExt

CONSTANT Frames

VARIABLES queue,    \* most protected frame first
          stranded, \* the frames that were pinned while in the queue
          ended,    \* a call has ended the process
          call      \* the last call: its name, frame and answer

vars == <<queue, stranded, ended, call>>

Init ==
    /\ queue = <<>>
    /\ stranded = {}
    /\ ended = FALSE
    /\ call = [op |-> "none", frame |-> 0, ok |-> TRUE]

Answer(op, f, ok) == call' = [op |-> op, frame |-> f, ok |-> ok]

Queued(f) == f \in ToSet(queue)

-----------------------------------------------------------------------------
\* As lru_replacer.h says.

\* The frame enters between the first i frames and the others.
Enter(f) ==
    /\ ~Queued(f) /\ f \notin stranded
    /\ \E i \in 0 .. Len(queue) :
          queue' = SubSeq(queue, 1, i) \o <<f>> \o SubSeq(queue, i + 1, Len(queue))
    /\ UNCHANGED <<stranded, ended>>
    /\ Answer("Unpin", f, TRUE)

Leave(f) ==
    /\ \E i \in DOMAIN queue : queue[i] = f /\ queue' = RemoveAt(queue, i)
    /\ stranded' = stranded \cup {f}
    /\ UNCHANGED ended
    /\ Answer("Pin", f, TRUE)

Protect(f) ==
    /\ \E i \in DOMAIN queue : queue[i] = f /\ queue' = <<f>> \o RemoveAt(queue, i)
    /\ UNCHANGED <<stranded, ended>>
    /\ Answer("Access", f, TRUE)

\* "If the frame is already in the list, this is a no-op" (lru_replacer.h:42).
Stay(f) ==
    /\ Queued(f)
    /\ UNCHANGED <<queue, stranded, ended>>
    /\ Answer("Unpin", f, TRUE)

\* "If not in list (pinned): no-op" (lru_replacer.h:49), and Pin likewise.
Pass(f) ==
    /\ ~Queued(f) /\ f \notin stranded
    /\ UNCHANGED <<queue, stranded, ended>>
    /\ \E op \in {"Pin", "Access"} : Answer(op, f, TRUE)

Take ==
    /\ queue # <<>>
    /\ queue' = Front(queue)
    /\ UNCHANGED <<stranded, ended>>
    /\ Answer("Evict", Last(queue), TRUE)

Refuse ==
    /\ queue = <<>>
    /\ UNCHANGED <<queue, stranded, ended>>
    /\ Answer("Evict", 0, FALSE)

-----------------------------------------------------------------------------
\* Against lru_replacer.h: the calls on a stranded frame.

\* Unpin does not insert it, though it is not in the list (lru_replacer.h:41).
NotInserted(f) ==
    /\ f \in stranded
    /\ UNCHANGED <<queue, stranded, ended>>
    /\ Answer("Unpin", f, TRUE)

\* Pin and Access follow the null links of its node, where the header has a
\* no-op (lru_replacer.h:49).
NullLink(f) ==
    /\ f \in stranded
    /\ ended' = TRUE
    /\ UNCHANGED <<queue, stranded>>
    /\ \E op \in {"Pin", "Access"} : Answer(op, f, TRUE)

-----------------------------------------------------------------------------

Next ==
    /\ ~ended
    /\ \/ \E f \in Frames : \/ Enter(f) \/ Leave(f) \/ Protect(f)
                            \/ Stay(f) \/ Pass(f)
                            \/ NotInserted(f) \/ NullLink(f)
       \/ Take
       \/ Refuse

Spec == Init /\ [][Next]_vars
=============================================================================
