----------------------------- MODULE BufferPool -----------------------------
(***************************************************************************)
(* The page cache (storage/buffer/buffer_pool) over one table file         *)
(* (storage/disk_manager), called by several threads.                      *)
(*                                                                         *)
(* What the global mutex latch_ protects is the record pool; a section of  *)
(* code that runs under latch_ is one step, and so is each piece of I/O    *)
(* done without it: the fseek, and the fread or fwrite that follows it on  *)
(* the same FILE*.  Only allocatePage does I/O with latch_ held: there the *)
(* variable latch names its owner, elsewhere it is Nobody.                 *)
(*                                                                         *)
(* The content of a page is the number of the page it was written for and  *)
(* a version: 1 as formatted by NewPage, one more for every change.        *)
(***************************************************************************)
EXTENDS LruList, FiniteSets

CONSTANTS
    Threads, Nobody,
    MaxPages,       \* bound: pages in the file
    Preallocated,   \* pages the file has when the pool is opened
    MaxVersion,     \* bound: versions of a page
    MaxPins,        \* bound: pages a client keeps pinned at a time
    Ops,            \* the calls clients make in this instance
    Faults          \* the I/O that may fail: subset of {"read", "write", "checkpoint", "alloc"}

ASSUME BoundAssumption ==
    /\ MaxPages \in Nat /\ Preallocated \in 0 .. MaxPages
    /\ MaxVersion \in Nat \ {0} /\ MaxPins \in Nat
    /\ Nobody \notin Threads

Pages == 0 .. MaxPages - 1
NoPage == -1
NoFrame == -1

VARIABLES
    pool,   \* frames, page_table_ and replacer_
    file,   \* pages on disk, their number num_pages, and the position of the FILE*
    latch,  \* owner of latch_ while it does I/O, or Nobody
    job,    \* per thread, the call in progress and where it stands
    held,   \* per thread, the pages it has pinned, with the frame it was given
    seen    \* per thread, the content it was handed last

vars == <<pool, file, latch, job, held, seen>>

Formatted(p) == [page |-> p, ver |-> 1]
Zeros == [page |-> NoPage, ver |-> 0]
Absent == [page |-> NoPage, ver |-> -1]     \* beyond the end of the file
Contents == {Zeros} \cup [page : Pages, ver : 1 .. MaxVersion]

\* Two threads on one FILE* may leave the position beyond the last page.
Positions == 0 .. MaxPages + Cardinality(Threads)

EmptyFrame == [page |-> NoPage, content |-> Zeros, state |-> "Empty", pin |-> 0,
               dirty |-> FALSE, readers |-> {}, writer |-> Nobody]

\* pid is the page a flush in progress writes, buffer its copy of the content,
\* todo what FlushAll has left, ok the outcome of the I/O.
Idle == [op |-> "none", pc |-> "idle", page |-> NoPage, frame |-> NoFrame,
         pid |-> NoPage, buffer |-> Zeros, todo |-> {}, ok |-> TRUE]

Init ==
    /\ pool = [frames |-> [f \in Frames |-> EmptyFrame],
               table  |-> [p \in Pages |-> NoFrame],
               lru    |-> EmptyLru]
    /\ file = [disk     |-> [q \in Positions |->
                                IF q < Preallocated THEN Formatted(q) ELSE Absent],
               numPages |-> Preallocated,
               pos      |-> 0]
    /\ latch = Nobody
    /\ job = [t \in Threads |-> Idle]
    /\ held = [t \in Threads |-> {}]
    /\ seen = [t \in Threads |-> Zeros]

-----------------------------------------------------------------------------
\* Helpers.

\* latch_ is free for t, or t has kept it.
Enter(t) == latch \in {Nobody, t}

\* A null dereference in the replacer has not ended the process.
Running == ~pool.lru.crashed

At(t, pc) == Running /\ job[t].pc = pc

May(t, op) == At(t, "idle") /\ op \in Ops

Call(op) == [Idle EXCEPT !.op = op]

Proceed(t, j, pc) == job' = [job EXCEPT ![t] = [j EXCEPT !.pc = pc]]

Return(t) == job' = [job EXCEPT ![t] = Idle]

Handle(p, f) == [page |-> p, frame |-> f, wrote |-> FALSE]

\* The call of t returns page p, which it will find in frame f.
HandOut(t, p, f) ==
    /\ Return(t)
    /\ held' = [held EXCEPT ![t] = @ \cup {Handle(p, f)}]
    /\ seen' = [seen EXCEPT ![t] = pool'.frames[f].content]

Cached(p) == pool.table[p] # NoFrame

\* Mutated form: a frame that is being loaded passes for an empty one.
EmptyOrLoading == {f \in Frames : pool.frames[f].state # "Ready"}

EmptyFrames == {f \in Frames : pool.frames[f].state = "Empty"}

Lowest(S) == CHOOSE x \in S : \A y \in S : x <= y

NeedsFlush(s, f) == s.frames[f].state = "Ready" /\ s.frames[f].dirty

\* Mutated form: the victim stays in the page table.
DroppedStaysInTable(s, f) == [s EXCEPT !.frames[f].state = "Empty"]

\* The end of findVictim: page_table_.erase(page_id), state = Empty.
Dropped(s, f) ==
    [s EXCEPT !.table = [p \in Pages |-> IF p = s.frames[f].page THEN NoFrame ELSE @[p]],
              !.frames[f].state = "Empty"]

\* FetchPage reserves a frame; it is not in the table before it is loaded.
Claimed(s, f, p) ==
    [s EXCEPT !.frames[f].page = p, !.frames[f].state = "Loading",
              !.frames[f].pin = 1, !.frames[f].dirty = FALSE,
              !.lru = LruPin(@, f)]

\* NewPage formats a page in its frame.
Installed(s, f, p) ==
    [s EXCEPT !.frames[f].page = p, !.frames[f].state = "Ready",
              !.frames[f].pin = 1, !.frames[f].dirty = TRUE,
              !.frames[f].content = Formatted(p),
              !.lru = LruPin(@, f), !.table[p] = f]

\* Mutated form: a cache hit does not count the pin of the caller.
HitUncounted(s, f) == [s EXCEPT !.lru = LruAccess(@, f)]

\* FetchPage of a cached page.
Hit(s, f) == [s EXCEPT !.frames[f].pin = @ + 1, !.lru = LruAccess(@, f)]

\* Mutated form: an unpin without changes forgets the changes of another one.
MarkedLast(s, f, wrote) == [s EXCEPT !.frames[f].dirty = wrote]

Marked(s, f, wrote) == [s EXCEPT !.frames[f].dirty = @ \/ wrote]

\* Mutated form: the frame does not return to the replacer.
UnpinnedOnly(s, f) == [s EXCEPT !.frames[f].pin = @ - 1]

\* fetch_sub, and replacer_.Unpin by whoever took the count to zero.
Unpinned(s, f) ==
    [s EXCEPT !.frames[f].pin = @ - 1,
              !.lru = IF s.frames[f].pin = 1 THEN LruUnpin(@, f) ELSE @]

\* fwrite at the position: what lay between the end of the file and it is zeros.
Written(c) ==
    [file EXCEPT !.disk = [q \in Positions |->
                              IF q = file.pos THEN c
                              ELSE IF q < file.pos /\ @[q] = Absent THEN Zeros ELSE @[q]],
                 !.pos = @ + 1]

-----------------------------------------------------------------------------
\* flushFrame and findVictim, on a pool state s reached under latch_.

\* flushFrame up to the point where it releases latch_.
StartFlush(t, j, f, s) ==
    /\ pool' = [s EXCEPT !.frames[f].dirty = FALSE]
    /\ latch' = Nobody
    /\ Proceed(t, [j EXCEPT !.frame = f, !.pid = s.frames[f].page], "flushSeek")
    /\ UNCHANGED <<held, seen>>

\* What FetchPage and NewPage do with the frame that findVictim returned.
UseFrame(t, j, f, s) ==
    /\ latch' = Nobody
    /\ \/ /\ j.op = "fetch"
          /\ pool' = Claimed(s, f, j.page)
          /\ Proceed(t, [j EXCEPT !.frame = f], "loadSeek")
          /\ UNCHANGED <<held, seen>>
       \/ /\ j.op = "new"
          /\ pool' = Installed(s, f, j.page)
          /\ HandOut(t, j.page, f)

\* nullptr, or INVALID_PAGE_ID: the call has changed nothing.
ReturnNull(t) ==
    /\ Return(t)
    /\ latch' = Nobody
    /\ UNCHANGED <<pool, held, seen>>

\* findVictim: a frame never used, or the victim of the replacer.
ObtainFrame(t, j) ==
    \/ /\ EmptyFrames # {}
       /\ UseFrame(t, j, Lowest(EmptyFrames), pool)
    \/ /\ EmptyFrames = {} /\ ~HasVictim(pool.lru)
       /\ ReturnNull(t)
    \/ /\ EmptyFrames = {} /\ HasVictim(pool.lru)
       /\ LET f == Victim(pool.lru)
              s == [pool EXCEPT !.lru = LruEvict(@)]
          IN  IF NeedsFlush(s, f) THEN StartFlush(t, j, f, s)
                                  ELSE UseFrame(t, j, f, Dropped(s, f))

\* FlushAll flushes the first frame of its snapshot that still holds its page
\* and is still dirty; it skips the others under latch_.
FlushNext(t, j, s) ==
    LET due == {e \in j.todo : NeedsFlush(s, e.frame) /\ s.frames[e.frame].page = e.page}
    IN  \/ /\ due # {}
           /\ LET f == Lowest({e.frame : e \in due})
              IN  StartFlush(t, [j EXCEPT !.todo = {e \in @ : e.frame > f}], f, s)
        \/ /\ due = {}
           /\ Return(t)
           /\ pool' = s
           /\ UNCHANGED <<latch, held, seen>>

-----------------------------------------------------------------------------
\* The calls a client makes.

\* FetchPage from the point where it holds latch_.
Lookup(t, j) ==
    LET f == pool.table[j.page]
    IN  /\ UNCHANGED file
        /\ \/ /\ Cached(j.page) /\ pool.frames[f].state = "Ready"
              /\ pool' = Hit(pool, f)
              /\ HandOut(t, j.page, f)
              /\ UNCHANGED latch
           \/ /\ Cached(j.page) /\ pool.frames[f].state = "Loading"
              /\ Proceed(t, [j EXCEPT !.frame = f], "wait")
              /\ UNCHANGED <<pool, latch, held, seen>>
           \/ /\ Cached(j.page) => pool.frames[f].state = "Empty"
              /\ ObtainFrame(t, j)

\* Clients ask for pages of the file that they do not hold yet.
FetchPage(t, p) ==
    /\ May(t, "fetch") /\ Enter(t)
    /\ p < file.numPages /\ \A h \in held[t] : h.page # p
    /\ Cardinality(held[t]) < MaxPins
    /\ Lookup(t, [Call("fetch") EXCEPT !.page = p])

\* allocatePage seeks to the end of the file, under latch_.
NewPage(t) ==
    /\ May(t, "new") /\ Enter(t)
    /\ file.numPages < MaxPages /\ Cardinality(held[t]) < MaxPins
    /\ latch' = t
    /\ file' = [file EXCEPT !.pos = file.numPages]
    /\ Proceed(t, [Call("new") EXCEPT !.page = file.numPages], "allocate")
    /\ UNCHANGED <<pool, held, seen>>

\* The client may unpin a page it has a latch on, but has done with.
UnpinPage(t, h) ==
    /\ At(t, "idle") \/ At(t, "unlatch")
    /\ Enter(t)
    /\ held' = [held EXCEPT ![t] = @ \ {h}]
    /\ LET f == pool.table[h.page]
       IN  pool' = IF ~Cached(h.page) \/ pool.frames[f].pin <= 0
                   THEN pool
                   ELSE Unpinned(Marked(pool, f, h.wrote), f)
    /\ UNCHANGED <<file, latch, job, seen>>

FlushPage(t, p) ==
    /\ May(t, "flush") /\ Enter(t)
    /\ Cached(p) /\ NeedsFlush(pool, pool.table[p])
    /\ StartFlush(t, Call("flush"), pool.table[p], pool)
    /\ UNCHANGED file

\* The snapshot of the dirty frames; they are flushed in the order of their numbers.
Snapshot ==
    {[frame |-> f, page |-> pool.frames[f].page] : f \in {g \in Frames : NeedsFlush(pool, g)}}

FlushAll(t) ==
    /\ May(t, "flushAll") /\ Enter(t)
    /\ FlushNext(t, [Call("flushAll") EXCEPT !.todo = Snapshot], pool)
    /\ UNCHANGED file

\* A client changes a page of rows through the pointer it was given.
Change(h) == [pool EXCEPT !.frames[h.frame].content.ver = @ + 1]
MayChange(h) == pool.frames[h.frame].content.ver \in 1 .. MaxVersion - 1
Wrote(t, h) == held' = [held EXCEPT ![t] = (@ \ {h}) \cup {[h EXCEPT !.wrote = TRUE]}]

\* Without a latch, as the storage manager does, which is single-threaded.
Modify(t, h) ==
    /\ May(t, "modify") /\ MayChange(h)
    /\ pool' = Change(h)
    /\ Wrote(t, h)
    /\ UNCHANGED <<file, latch, job, seen>>

\* Mutated form: a latch does not come with a pin.
LatchPageUnpinned(t, h, op) ==
    /\ May(t, op) /\ Enter(t) /\ Cached(h.page)
    /\ Proceed(t, [Call(op) EXCEPT !.page = h.page, !.frame = pool.table[h.page]], "acquire")
    /\ UNCHANGED <<pool, file, latch, held, seen>>

\* WLatchPage for an "edit", RLatchPage for a "look", on a page the client holds.
LatchPage(t, h, op) ==
    /\ May(t, op) /\ Enter(t) /\ Cached(h.page)
    /\ LET f == pool.table[h.page]
       IN  /\ pool' = [pool EXCEPT !.frames[f].pin = @ + 1]
           /\ Proceed(t, [Call(op) EXCEPT !.page = h.page, !.frame = f], "acquire")
    /\ UNCHANGED <<file, latch, held, seen>>

-----------------------------------------------------------------------------
\* The calls in progress.  Frame latches: a transfer takes the frame exclusively.

Free(f) == pool.frames[f].writer = Nobody /\ pool.frames[f].readers = {}

Lock(f, t) == [pool EXCEPT !.frames[f].writer = t]

\* Mutated form: a transfer keeps the frame latch.
UnlockForgotten(s, f) == s

Unlock(s, f) == [s EXCEPT !.frames[f].writer = Nobody]

\* FetchPage found the frame loading: it takes the frame latch shared, gives it
\* back, and looks again.
WaitLoaded(t) ==
    /\ At(t, "wait") /\ pool.frames[job[t].frame].writer = Nobody
    /\ Proceed(t, job[t], "recheck")
    /\ UNCHANGED <<pool, file, latch, held, seen>>

LookAgain(t) ==
    /\ At(t, "recheck") /\ Enter(t)
    /\ Lookup(t, job[t])

LoadSeek(t) ==
    /\ At(t, "loadSeek") /\ Free(job[t].frame)
    /\ pool' = Lock(job[t].frame, t)
    /\ file' = [file EXCEPT !.pos = job[t].page]
    /\ Proceed(t, job[t], "loadRead")
    /\ UNCHANGED <<latch, held, seen>>

\* Fewer bytes than a page: readPage fails and the frame is left as it was.
LoadRead(t) ==
    /\ At(t, "loadRead")
    /\ \E ok \in BOOLEAN :
          /\ ok => file.disk[file.pos] # Absent
          /\ ~ok => file.disk[file.pos] = Absent \/ "read" \in Faults
          /\ pool' = Unlock(IF ok THEN [pool EXCEPT !.frames[job[t].frame].content =
                                                        file.disk[file.pos]]
                                  ELSE pool, job[t].frame)
          /\ file' = IF ok THEN [file EXCEPT !.pos = @ + 1] ELSE file
          /\ Proceed(t, [job[t] EXCEPT !.ok = ok], "loadDone")
    /\ UNCHANGED <<latch, held, seen>>

\* Back under latch_: the page enters the table, or the frame is given up.
LoadDone(t) ==
    /\ At(t, "loadDone") /\ Enter(t)
    /\ LET f == job[t].frame
       IN  \/ /\ job[t].ok
              /\ pool' = [pool EXCEPT !.frames[f].state = "Ready", !.table[job[t].page] = f]
              /\ HandOut(t, job[t].page, f)
           \/ /\ ~job[t].ok
              /\ pool' = [pool EXCEPT !.frames[f].state = "Empty", !.frames[f].pin = 0]
              /\ Return(t)
              /\ UNCHANGED <<held, seen>>
    /\ UNCHANGED <<file, latch>>

\* The zeros are written, then NewPage looks for a frame.
Allocate(t) ==
    /\ At(t, "allocate")
    /\ \/ /\ file' = [Written(Zeros) EXCEPT !.numPages = @ + 1]
          /\ ObtainFrame(t, job[t])
       \/ /\ "alloc" \in Faults
          /\ ReturnNull(t)
          /\ UNCHANGED file

\* Mutated form: the frame is copied without its latch.
FlushSeekUnlatched(t) ==
    /\ At(t, "flushSeek")
    /\ file' = [file EXCEPT !.pos = job[t].pid]
    /\ Proceed(t, [job[t] EXCEPT !.buffer = pool.frames[job[t].frame].content], "flushWrite")
    /\ UNCHANGED <<pool, latch, held, seen>>

FlushSeek(t) ==
    /\ At(t, "flushSeek") /\ Free(job[t].frame)
    /\ pool' = Lock(job[t].frame, t)
    /\ file' = [file EXCEPT !.pos = job[t].pid]
    /\ Proceed(t, [job[t] EXCEPT !.buffer = pool.frames[job[t].frame].content], "flushWrite")
    /\ UNCHANGED <<latch, held, seen>>

\* "write": any write may fail; "checkpoint": those of FlushPage and FlushAll.
WriteMayFail(t) ==
    "write" \in Faults \/ ("checkpoint" \in Faults /\ job[t].op \in {"flush", "flushAll"})

FlushWrite(t) ==
    /\ At(t, "flushWrite")
    /\ pool' = Unlock(pool, job[t].frame)
    /\ \/ /\ file' = Written(job[t].buffer)
          /\ Proceed(t, [job[t] EXCEPT !.ok = TRUE], "flushDone")
       \/ /\ WriteMayFail(t)
          /\ Proceed(t, [job[t] EXCEPT !.ok = FALSE], "flushDone")
          /\ UNCHANGED file
    /\ UNCHANGED <<latch, held, seen>>

\* Back under latch_: a failed flush marks the frame dirty again; then the
\* caller of flushFrame goes on.
FlushDone(t) ==
    LET f == job[t].frame
        s == IF job[t].ok THEN pool ELSE [pool EXCEPT !.frames[f].dirty = TRUE]
        j == [job[t] EXCEPT !.pid = NoPage, !.buffer = Zeros, !.ok = TRUE]
    IN  /\ At(t, "flushDone") /\ Enter(t)
        /\ \/ /\ job[t].op \in {"fetch", "new"}
              /\ UseFrame(t, j, f, Dropped(s, f))
           \/ /\ job[t].op \in {"flush", "flushAll"}
              /\ FlushNext(t, j, s)
        /\ UNCHANGED file

\* The second half of WLatchPage and RLatchPage, outside latch_.
AcquireLatch(t) ==
    LET f == job[t].frame
    IN  /\ At(t, "acquire")
        /\ \/ /\ job[t].op = "edit" /\ Free(f)
              /\ pool' = Lock(f, t)
           \/ /\ job[t].op = "look" /\ pool.frames[f].writer = Nobody
              /\ pool' = [pool EXCEPT !.frames[f].readers = @ \cup {t}]
        /\ Proceed(t, job[t], "use")
        /\ UNCHANGED <<file, latch, held, seen>>

\* The client reads the page it has latched, and changes it under a write latch.
UseLatched(t) ==
    \E h \in held[t] :
        /\ At(t, "use") /\ h.page = job[t].page
        /\ Proceed(t, job[t], "unlatch")
        /\ \/ /\ job[t].op = "edit" /\ MayChange(h)
              /\ pool' = Change(h)
              /\ Wrote(t, h)
              /\ UNCHANGED seen
           \/ /\ job[t].op = "look" \/ ~MayChange(h)
              /\ seen' = [seen EXCEPT ![t] = pool.frames[h.frame].content]
              /\ UNCHANGED <<pool, held>>
        /\ UNCHANGED <<file, latch>>

\* WUnlatchPage, RUnlatchPage look the page up again.
UnlatchPage(t) ==
    /\ At(t, "unlatch") /\ Enter(t)
    /\ IF Cached(job[t].page)
       THEN Proceed(t, [job[t] EXCEPT !.frame = pool.table[job[t].page]], "release")
       ELSE Return(t)
    /\ UNCHANGED <<pool, file, latch, held, seen>>

\* Outside latch_: unlock, then fetch_sub; no other step depends on both.
ReleaseLatch(t) ==
    LET f == job[t].frame
    IN  /\ At(t, "release")
        /\ pool' = [pool EXCEPT !.frames[f].readers = @ \ {t}, !.frames[f].pin = @ - 1,
                                !.frames[f].writer = IF @ = t THEN Nobody ELSE @]
        /\ IF pool.frames[f].pin = 1 THEN Proceed(t, job[t], "rejoin") ELSE Return(t)
        /\ UNCHANGED <<file, latch, held, seen>>

RejoinReplacer(t) ==
    /\ At(t, "rejoin") /\ Enter(t)
    /\ pool' = [pool EXCEPT !.lru = LruUnpin(@, job[t].frame)]
    /\ Return(t)
    /\ UNCHANGED <<file, latch, held, seen>>

Request(t) ==
    \/ \E p \in Pages : FetchPage(t, p) \/ FlushPage(t, p)
    \/ NewPage(t)
    \/ FlushAll(t)
    \/ \E h \in held[t] : UnpinPage(t, h)
    \/ \E h \in held[t] : Modify(t, h)
    \/ \E h \in held[t], op \in {"edit", "look"} : LatchPage(t, h, op)

Continue(t) ==
    \/ WaitLoaded(t) \/ LookAgain(t) \/ LoadSeek(t) \/ LoadRead(t) \/ LoadDone(t)
    \/ Allocate(t) \/ FlushSeek(t) \/ FlushWrite(t) \/ FlushDone(t)
    \/ AcquireLatch(t) \/ UseLatched(t) \/ UnlatchPage(t) \/ ReleaseLatch(t)
    \/ RejoinReplacer(t)

Next == \E t \in Threads : Request(t) \/ Continue(t)

Spec == Init /\ [][Next]_vars

\* The operating system runs a thread that can go on, and no lock is lost.
FairSpec == Spec /\ \A t \in Threads : WF_vars(Continue(t))

-----------------------------------------------------------------------------

FrameType == [page : Pages \cup {NoPage}, content : Contents,
              state : {"Empty", "Loading", "Ready"}, pin : 0 .. 2 * Cardinality(Threads),
              dirty : BOOLEAN, readers : SUBSET Threads, writer : Threads \cup {Nobody}]

\* The shapes of the pool and of the file: counts stay non-negative and bounded.
TypeOK ==
    /\ pool.frames \in [Frames -> FrameType]
    /\ pool.table \in [Pages -> Frames \cup {NoFrame}]
    /\ file \in [disk : [Positions -> Contents \cup {Absent}],
                 numPages : Pages \cup {MaxPages}, pos : Positions]
    /\ latch \in Threads \cup {Nobody}
    /\ seen \in [Threads -> Contents]

-----------------------------------------------------------------------------
\* The latest content of a page: the cached copy, or else the one on disk, if
\* the file has that page.
Current(p) ==
    IF Cached(p) THEN pool.frames[pool.table[p]].content
    ELSE IF p < file.numPages THEN file.disk[p] ELSE Zeros

Store == INSTANCE PageStore WITH store <- [p \in Pages |-> Current(p)]

\* Caching does not show: a page keeps the changes made to it through misses,
\* evictions, flushes and failed reads, and whoever fetches it is given its
\* latest content.
IsPageStore == Store!Spec

\* The frame whose flush is in progress, and the page that flush is about.
Flushing(t, f) == job[t].frame = f /\ job[t].pc \in {"flushSeek", "flushWrite", "flushDone"}

\* A cached page that is not dirty can be dropped: it is on disk as it is in its
\* frame, unless a client that changed it has still to unpin it or its flush is
\* in progress.  A flush that fails leaves the page dirty.
CleanIsOnDisk ==
    \A p \in Pages :
        LET f == pool.table[p]
        IN  Cached(p) =>
               \/ pool.frames[f].dirty
               \/ file.disk[p] = pool.frames[f].content
               \/ \E t \in Threads : Flushing(t, f)
               \/ \E t \in Threads : \E h \in held[t] : h.page = p /\ h.wrote

\* Who has a pin on frame f: the clients that hold its page, and those between
\* RLatchPage or WLatchPage and the end of the unlatch.
Holders(f) == {t \in Threads : \E h \in held[t] : h.frame = f}
Latchers(f) ==
    {t \in Threads : job[t].frame = f
                     /\ job[t].pc \in {"acquire", "use", "unlatch", "release"}}

\* pin_count counts the pins that clients have, no more and no fewer: none is
\* lost or leaked through fetches, unpins and latches of several threads.
PinsAccounted ==
    \A f \in Frames :
        pool.frames[f].state = "Ready" =>
            pool.frames[f].pin = Cardinality(Holders(f)) + Cardinality(Latchers(f))

\* No frame is lost: one that holds an unpinned page can be evicted, unless it
\* is the victim of an eviction in progress or about to rejoin the replacer.
NoFrameLost ==
    \A f \in Frames :
        pool.frames[f].state = "Ready" /\ pool.frames[f].pin = 0 =>
            \/ f \in Linked(pool.lru)
            \/ \E t \in Threads : job[t].op \in {"fetch", "new"} /\ Flushing(t, f)
            \/ \E t \in Threads : job[t].pc = "rejoin" /\ job[t].frame = f

\* While a flush copies a frame to disk nobody changes it, and it copies what
\* the frame holds: a page is never written torn or late (buffer_pool.cpp:257).
FlushesCurrent ==
    \A t \in Threads :
        At(t, "flushWrite") => job[t].buffer = pool.frames[job[t].frame].content

\* pin_count "Reference count; >0 -> not evictable" (frame.h:41): the page a
\* client holds stays in the frame it was given.
PinnedStays ==
    \A t \in Threads : \A h \in held[t] :
        /\ pool.frames[h.frame].state = "Ready"
        /\ pool.frames[h.frame].page = h.page

\* "I/O failed: restore dirty flag so we retry later" (buffer_pool.cpp:264): no
\* content that was given to a client is lost, so no page is older than a
\* content of it seen before.
NothingLost ==
    \A t \in Threads :
        seen[t] # Zeros => Current(seen[t].page).ver >= seen[t].ver

\* A call neither hangs nor spins for ever on the others: when no new call
\* comes, those in progress all return.
CallsReturn ==
    <>[][\E t \in Threads : Continue(t)]_vars
        => <>[](~Running \/ \A t \in Threads : At(t, "idle"))
=============================================================================
