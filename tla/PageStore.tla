----------------------------- MODULE PageStore -----------------------------
(***************************************************************************)
(* What the buffer pool and the file below it promise the layer above:     *)
(* one array of pages in which a page, once formatted, only changes when   *)
(* a client changes it, and a client that obtains a page sees its latest   *)
(* version.  Frames, eviction, flushing and files do not show.             *)
(***************************************************************************)
EXTENDS Integers

CONSTANTS Threads, Pages, Zeros     \* Zeros: a page that was never formatted

VARIABLES store,    \* the content of each page
          seen      \* the content each client was given last

vars == <<store, seen>>

Fresh(p) == [page |-> p, ver |-> 1]

Init ==
    /\ \A p \in Pages : store[p] \in {Zeros, Fresh(p)}
    /\ seen = [t \in Threads |-> Zeros]

Obtain(t, p) ==
    /\ seen' = [seen EXCEPT ![t] = store[p]]
    /\ UNCHANGED store

Create(t, p) ==
    /\ store[p] = Zeros
    /\ store' = [store EXCEPT ![p] = Fresh(p)]
    /\ seen' = [seen EXCEPT ![t] = Fresh(p)]

Change(p) ==
    /\ store[p] # Zeros
    /\ store' = [store EXCEPT ![p].ver = @ + 1]
    /\ UNCHANGED seen

Next == \E p \in Pages : Change(p) \/ \E t \in Threads : Obtain(t, p) \/ Create(t, p)

Spec == Init /\ [][Next]_vars
=============================================================================
