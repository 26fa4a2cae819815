-------------------------- MODULE BufferPoolProofs --------------------------
(***************************************************************************)
(* Proofs about BufferPool, for every size of the pool and of the file and *)
(* every failing call: the types, the pins, the frames, the flushes, and   *)
(* the array of pages that PageStore promises.                             *)
(*                                                                         *)
(* The first part is about the pool as the storage manager uses it: one    *)
(* thread that keeps one page at a time, and pages that come and go.  The  *)
(* second part, from Resident on, is about any number of threads on a pool *)
(* that holds the whole file.                                              *)
(***************************************************************************)
EXTENDS BufferPoolLemmas

-----------------------------------------------------------------------------
\* The steps of the client.

\* The pages as PageStore has them.
StoreOf(s, d) == [p \in Pages |-> Latest(s, d, p)]

\* A step that does not show in the pages.
LEMMA SameStore ==
    ASSUME NEW s, NEW d, NEW s2, NEW d2, SameLatest(s, d, s2, d2)
    PROVE  StoreOf(s2, d2) = StoreOf(s, d)
BY DEF SameLatest, StoreOf

\* One page changes.
Updated(st, st2, p, c) == st2 = [st EXCEPT ![p] = c]

\* A step that changes one page.
LEMMA NewStore ==
    ASSUME NEW s, NEW d, NEW s2, NEW p \in Pages, NEW c, Creates(s, d, s2, p, c)
    PROVE  Updated(StoreOf(s, d), StoreOf(s2, d), p, c)
BY DEF Creates, StoreOf, Updated

\* From pages st, thread t takes a step of PageStore.
Shows(t, st) ==
    \/ StoreOf(pool', file') = st /\ seen' = seen
    \/ \E p \in Pages : StoreOf(pool', file') = st /\ seen' = [seen EXCEPT ![t] = st[p]]
    \/ \E p \in Pages : /\ st[p] = Zeros /\ StoreOf(pool', file') = [st EXCEPT ![p] = Formatted(p)]
                        /\ seen' = [seen EXCEPT ![t] = Formatted(p)]
    \/ \E p \in Pages : /\ st[p] # Zeros /\ StoreOf(pool', file') = [st EXCEPT ![p].ver = @ + 1]
                        /\ seen' = seen

\* The thread is left with call j and pages hd.
Leaves(t, j, hd) ==
    /\ job' = [job EXCEPT ![t] = j] \/ (job' = job /\ j = job[t])
    /\ held' = [held EXCEPT ![t] = hd] \/ (held' = held /\ hd = held[t])
    /\ latch' \in Threads \cup {Nobody}
    /\ seen' = seen \/ \E c \in Contents : seen' = [seen EXCEPT ![t] = c]
    /\ Good(pool', file', j, hd)

\* That is the invariant again.
LEMMA LeavesIInv ==
    ASSUME NEW t, Threads = {t}, IInv, NEW j, NEW hd, Leaves(t, j, hd)
    PROVE  IInv'
<1>1. /\ job \in [Threads -> Jobs] /\ held \in [Threads -> SUBSET Handles]
      /\ seen \in [Threads -> Contents]
  BY DEF IInv
<1>2. j \in Jobs /\ hd \in SUBSET Handles /\ Good(pool', file', j, hd)
  BY DEF Leaves, Good, CallOK, HeldOK
<1>3. job' \in [Threads -> Jobs] /\ job'[t] = j
  BY <1>1, <1>2 DEF Leaves
<1>4. held' \in [Threads -> SUBSET Handles] /\ held'[t] = hd
  BY <1>1, <1>2 DEF Leaves
<1>5. seen' \in [Threads -> Contents] /\ latch' \in Threads \cup {Nobody}
  BY <1>1 DEF Leaves
<1>6. \A u \in Threads : Good(pool', file', job'[u], held'[u])
  BY <1>2, <1>3, <1>4
<1> QED
  BY <1>3, <1>4, <1>5, <1>6 DEF IInv

\* What the invariant says of the one thread.
LEMMA ThreadIs ==
    ASSUME NEW t, Threads = {t}, IInv
    PROVE  /\ Good(pool, file, job[t], held[t]) /\ job[t] \in Jobs /\ seen \in [Threads -> Contents]
           /\ PoolOK(pool) /\ PoolType(pool) /\ FileOK(pool, file) /\ file \in FileType
           /\ latch \in Threads \cup {Nobody}
<1>1. Good(pool, file, job[t], held[t]) /\ job[t] \in Jobs
  BY DEF IInv
<1> QED
  BY <1>1 DEF IInv, Good, PoolOK, FileOK

\* A page is handed out to the client.
LEMMA HandOutIs ==
    ASSUME NEW t, Threads = {t}, IInv, held[t] = {}, NEW p \in Pages, NEW f \in Frames,
           HandOut(t, p, f), latch' \in Threads \cup {Nobody}, pool'.frames[f].content \in Contents,
           Good(pool', file', Idle, {Handle(p, f)})
    PROVE  /\ \E j, hd : Leaves(t, j, hd)
           /\ seen' = [seen EXCEPT ![t] = pool'.frames[f].content]
<1> DEFINE c == pool'.frames[f].content
           hd == {Handle(p, f)}
<1>1. seen' = [seen EXCEPT ![t] = c] /\ job' = [job EXCEPT ![t] = Idle]
  BY DEF HandOut, Return
<1>2. held' = [held EXCEPT ![t] = hd]
  <2>1. held' = [held EXCEPT ![t] = held[t] \cup hd]
    BY DEF HandOut, IInv
  <2> QED
    BY <2>1
<1>3. c \in Contents /\ Good(pool', file', Idle, hd)
  OBVIOUS
<1> HIDE DEF c, hd
<1>4. Leaves(t, Idle, hd)
  BY <1>1, <1>2, <1>3 DEF Leaves
<1> QED
  BY <1>1, <1>4 DEF c

\* FetchPage and NewPage go on with an empty frame.
LEMMA UseFrameOK ==
    ASSUME NEW t, Threads = {t}, IInv, held[t] = {}, NEW s, Good(s, file', Idle, {}),
           NEW j \in Jobs, Wants(s, file', j, {}), NEW f \in Frames, s.frames[f].state = "Empty",
           UseFrame(t, j, f, s)
    PROVE  (\E k, hd : Leaves(t, k, hd)) /\ Shows(t, StoreOf(s, file'))
<1>1. /\ Cardinality(Threads) = 1 /\ latch' \in Threads \cup {Nobody}
      /\ 1 \in 0 .. 2 * Cardinality(Threads)
      /\ PoolType(s) /\ f \notin Linked(s.lru) /\ ~Ready(s, f)
      /\ j.page \in Pages /\ ~InTable(s, j.page) /\ j.page < file'.numPages
  BY OneThread, LinkedReady DEF UseFrame, Wants, Ready, Good, PoolOK
<1>2. ASSUME j.op = "fetch", pool' = Claimed(s, f, j.page),
             Proceed(t, [j EXCEPT !.frame = f], "loadSeek"), UNCHANGED <<held, seen>>
      PROVE  (\E k, hd : Leaves(t, k, hd)) /\ Shows(t, StoreOf(s, file'))
  <2> DEFINE k == [[j EXCEPT !.frame = f] EXCEPT !.pc = "loadSeek"]
  <2>1. Good(pool', file', k, {}) /\ SameLatest(s, file', pool', file')
    BY <1>1, <1>2, ClaimOK
  <2>2. job' = [job EXCEPT ![t] = k]
    BY <1>2 DEF Proceed
  <2> HIDE DEF k
  <2>3. Leaves(t, k, {})
    BY <1>1, <1>2, <2>1, <2>2 DEF Leaves
  <2>4. StoreOf(pool', file') = StoreOf(s, file') /\ seen' = seen
    BY <1>2, <2>1, SameStore
  <2> QED
    BY <2>3, <2>4 DEF Shows
<1>3. ASSUME j.op = "new", pool' = Installed(s, f, j.page), HandOut(t, j.page, f)
      PROVE  (\E k, hd : Leaves(t, k, hd)) /\ Shows(t, StoreOf(s, file'))
  <2> DEFINE p == j.page
             c == Formatted(p)
  <2>1. PICK w \in BOOLEAN : w /\ EnteredTo(s, pool', f, p, c, 1, w)
    BY <1>1, <1>3, InstalledIs
  <2>0. p \in Pages /\ ~InTable(s, p) /\ p < file'.numPages /\ HandOut(t, p, f)
    BY <1>1, <1>3
  <2> HIDE DEF p, c
  <2>2. /\ Good(pool', file', Idle, {Handle(p, f)})
        /\ pool'.frames[f].content = c /\ c \in Contents
        /\ Creates(s, file', pool', p, c)
    <3>1. w \/ file'.disk[p] = c
      BY <2>1
    <3>2. EnteredTo(s, pool', f, p, c, 1, w)
      BY <2>1
    <3> QED
      BY <1>1, <2>0, <3>1, <3>2, EnterOK
  <2>3. /\ \E k, hd : Leaves(t, k, hd)
        /\ seen' = [seen EXCEPT ![t] = pool'.frames[f].content]
    BY <1>1, <2>0, <2>2, HandOutIs
  <2>4. Updated(StoreOf(s, file'), StoreOf(pool', file'), p, c)
    BY <2>0, <2>2, NewStore
  <2>5. StoreOf(s, file')[p] = Zeros
    BY <1>1, <1>3, <2>0 DEF StoreOf, Latest, Wants, p
  <2> QED
    BY <2>0, <2>2, <2>3, <2>4, <2>5 DEF Shows, Updated, c
<1> QED
  BY <1>2, <1>3 DEF UseFrame

\* findVictim is called from a pool that rests.
LEMMA ObtainFrameOK ==
    ASSUME NEW t, Threads = {t}, IInv, held[t] = {}, Good(pool, file', Idle, {}),
           NEW j \in Jobs, Wants(pool, file', j, {}), ObtainFrame(t, j)
    PROVE  (\E k, hd : Leaves(t, k, hd)) /\ Shows(t, StoreOf(pool, file'))
<1>1. CASE EmptyFrames # {} /\ UseFrame(t, j, Lowest(EmptyFrames), pool)
  <2>1. Lowest(EmptyFrames) \in EmptyFrames
    <3>1. EmptyFrames \subseteq Nat
      BY Numbers DEF EmptyFrames
    <3> QED
      BY <1>1, <3>1, LowestIs
  <2>2. Lowest(EmptyFrames) \in Frames /\ pool.frames[Lowest(EmptyFrames)].state = "Empty"
    BY <2>1 DEF EmptyFrames
  <2> QED
    BY <1>1, <2>2, UseFrameOK
<1>2. CASE ReturnNull(t)
  <2>1. job' = [job EXCEPT ![t] = Idle] /\ held' = held /\ pool' = pool /\ seen' = seen
        /\ latch' \in Threads \cup {Nobody}
    BY <1>2 DEF ReturnNull, Return
  <2>2. Leaves(t, Idle, {})
    BY <2>1 DEF Leaves
  <2> QED
    BY <2>1, <2>2 DEF Shows
<1>3. ASSUME HasVictim(pool.lru), NEW f, f = Victim(pool.lru), NEW s,
             s = [pool EXCEPT !.lru = LruEvict(@)],
             IF NeedsFlush(s, f) THEN StartFlush(t, j, f, s) ELSE UseFrame(t, j, f, Dropped(s, f))
      PROVE  (\E k, hd : Leaves(t, k, hd)) /\ Shows(t, StoreOf(pool, file'))
  <2>1. /\ Evicting(s, file', f) /\ s.table = pool.table
        /\ SameLatest(pool, file', s, file')
        /\ ~s.frames[f].dirty => file'.disk[s.frames[f].page] = s.frames[f].content
    BY <1>3, EvictIs
  <2>2. Ready(s, f) /\ f \in Frames /\ PoolType(s) /\ s.frames[f].page \in Pages
    BY <2>1 DEF Evicting, PoolOK
  <2>3. Wants(s, file', j, {})
    BY <2>1 DEF Wants, InTable
  <2>4. StoreOf(s, file') = StoreOf(pool, file')
    BY <2>1, SameStore
  <2>5. CASE NeedsFlush(s, f)
    <3> DEFINE w == FALSE
               g == [[j EXCEPT !.frame = f, !.pid = s.frames[f].page] EXCEPT !.pc = "flushSeek"]
    <3>1. /\ pool' = [s EXCEPT !.frames[f].dirty = w] /\ latch' = Nobody
          /\ job' = [job EXCEPT ![t] = g] /\ held' = held /\ seen' = seen
      BY <1>3, <2>5 DEF StartFlush, Proceed
    <3>2. w \in BOOLEAN /\ ~w
      OBVIOUS
    <3>3. /\ g \in Jobs /\ g.pc = "flushSeek" /\ g.frame = f /\ g.pid = s.frames[f].page
          /\ g.op = j.op /\ g.page = j.page
      BY <2>2 DEF Jobs, Flushes
    <3> HIDE DEF w, g
    <3>4. ChangedTo(s, pool', f, s.frames[f].content, s.frames[f].pin, w) /\ pool'.lru = s.lru
      BY <2>2, <3>1, <3>2, MarkIs
    <3>5. Wants(s, file', g, {})
      BY <2>3, <3>3 DEF Wants
    <3>6. Good(pool', file', g, {}) /\ SameLatest(s, file', pool', file')
      BY <2>1, <3>2, <3>3, <3>4, <3>5, EvictFlush
    <3>7. Leaves(t, g, {})
      BY <3>1, <3>6 DEF Leaves
    <3>8. StoreOf(pool', file') = StoreOf(pool, file')
      BY <2>4, <3>6, SameStore
    <3> QED
      BY <3>1, <3>7, <3>8 DEF Shows
  <2>6. CASE ~NeedsFlush(s, f)
    <3> DEFINE r == Dropped(s, f)
    <3>1. UseFrame(t, j, f, r) /\ r = Dropped(s, f)
      BY <1>3, <2>6
    <3> HIDE DEF r
    <3>2. DroppedTo(s, r, f)
      BY <2>2, <3>1, DroppedIs
    <3>3. ~s.frames[f].dirty
      BY <2>2, <2>6 DEF NeedsFlush, Ready
    <3>4. /\ Good(r, file', Idle, {}) /\ r.frames[f].state = "Empty"
          /\ \A p \in Pages : InTable(r, p) => InTable(s, p)
          /\ SameLatest(s, file', r, file')
      BY <2>1, <3>2, <3>3, DropOK
    <3>5. Wants(r, file', j, {})
      BY <2>3, <3>4 DEF Wants
    <3>6. (\E k, hd : Leaves(t, k, hd)) /\ Shows(t, StoreOf(r, file'))
      BY <2>2, <3>1, <3>4, <3>5, UseFrameOK
    <3>7. StoreOf(r, file') = StoreOf(pool, file')
      BY <2>4, <3>4, SameStore
    <3> QED
      BY <3>6, <3>7
  <2> QED
    BY <2>5, <2>6
<1> QED
  BY <1>1, <1>2, <1>3 DEF ObtainFrame

\* Calls as they begin.
LEMMA CallIs ==
    ASSUME NEW op \in {"fetch", "new", "flush", "flushAll", "edit", "look"}
    PROVE  /\ Call(op) \in Jobs /\ Call(op).op = op /\ Call(op).pc = "idle"
           /\ \A p \in Pages : /\ [Call(op) EXCEPT !.page = p] \in Jobs
                               /\ [Call(op) EXCEPT !.page = p].op = op
                               /\ [Call(op) EXCEPT !.page = p].page = p
BY FirstValues DEF Call, Idle, Jobs

\* A thread between two calls.
LEMMA IdleIs ==
    ASSUME NEW t, Threads = {t}, IInv, At(t, "idle")
    PROVE  job[t] = Idle /\ Good(pool, file, Idle, held[t])
<1>1. Good(pool, file, job[t], held[t])
  BY ThreadIs
<1>2. job[t] = Idle
  BY <1>1 DEF At, Good, CallOK
<1> QED
  BY <1>1, <1>2

\* A client that may pin a page has none.
LEMMA NoPins ==
    ASSUME NEW t, Threads = {t}, IInv, MaxPins <= 1, Cardinality(held[t]) < MaxPins
    PROVE  held[t] = {}
<1>1. held[t] = {} \/ \E h \in Handles : held[t] = {h}
  BY ThreadIs DEF Good, HeldOK
<1>2. ASSUME NEW h, held[t] = {h}
      PROVE  FALSE
  <2>1. Cardinality(held[t]) = 1
    BY <1>2, FS_Singleton
  <2> QED
    BY <2>1, BoundAssumption
<1> QED
  BY <1>1, <1>2

\* FetchPage: from the table, or into a frame that has to be found.
LEMMA FetchPageStep ==
    ASSUME NEW t, Threads = {t}, IInv, MaxPins <= 1, NEW p \in Pages, FetchPage(t, p)
    PROVE  (\E k, hd : Leaves(t, k, hd)) /\ Shows(t, StoreOf(pool, file))
<1> DEFINE j == [Call("fetch") EXCEPT !.page = p]
           f == pool.table[p]
<1>1. /\ At(t, "idle") /\ held[t] = {} /\ p < file.numPages
      /\ latch \in Threads \cup {Nobody}
  BY NoPins, ThreadIs DEF FetchPage, May
<1>2. Good(pool, file, Idle, {}) /\ PoolOK(pool) /\ PoolType(pool) /\ Cardinality(Threads) = 1
  BY <1>1, IdleIs, ThreadIs, OneThread
<1>3. j \in Jobs /\ j.op = "fetch" /\ j.page = p
  BY CallIs
<1>4. Lookup(t, j) /\ file' = file
  BY DEF FetchPage, Lookup
<1> HIDE DEF j
<1>5. ASSUME Cached(p), pool' = Hit(pool, f), HandOut(t, p, f), UNCHANGED latch
      PROVE  (\E k, hd : Leaves(t, k, hd)) /\ Shows(t, StoreOf(pool, file))
  <2>1. InTable(pool, p) /\ f \in Frames /\ Ready(pool, f) /\ pool.frames[f].pin = 0
    BY <1>2, <1>5, AtRest DEF Cached, InTable, PoolOK, PoolType, FrameOf, Ready
  <2>2. pool.frames[f].pin + 1 \in 0 .. 2 * Cardinality(Threads)
    BY <1>2, <2>1
  <2>3. /\ ChangedTo(pool, pool', f, pool.frames[f].content, pool.frames[f].pin + 1,
                     pool.frames[f].dirty)
        /\ Linked(pool'.lru) = Linked(pool.lru)
    BY <1>2, <1>5, <2>1, <2>2, HitIs
  <2>4. /\ Good(pool', file, Idle, {Handle(p, f)}) /\ SameLatest(pool, file, pool', file)
        /\ pool'.frames[f].content = Latest(pool, file, p) /\ Latest(pool, file, p) \in Contents
    BY <1>2, <2>1, <2>3, HitOK
  <2>5. /\ \E k, hd : Leaves(t, k, hd)
        /\ seen' = [seen EXCEPT ![t] = pool'.frames[f].content]
    BY <1>1, <1>4, <1>5, <2>1, <2>4, HandOutIs
  <2>6. StoreOf(pool', file') = StoreOf(pool, file) /\ StoreOf(pool, file)[p] = Latest(pool, file, p)
    BY <1>4, <2>4, SameStore DEF StoreOf
  <2> QED
    BY <2>4, <2>5, <2>6 DEF Shows
<1>6. ASSUME ~InTable(pool, p), ObtainFrame(t, j)
      PROVE  (\E k, hd : Leaves(t, k, hd)) /\ Shows(t, StoreOf(pool, file))
  <2>1. Wants(pool, file', j, {}) /\ Good(pool, file', Idle, {})
    BY <1>1, <1>2, <1>3, <1>4, <1>6 DEF Wants
  <2> QED
    BY <1>1, <1>3, <1>4, <1>6, <2>1, ObtainFrameOK
<1>7. Cached(p) => pool.frames[f].state = "Ready"
  BY <1>2 DEF Cached, PoolOK, InTable, FrameOf
<1>8. Cached(p) <=> InTable(pool, p)
  BY DEF Cached, InTable
<1> QED
  BY <1>3, <1>4, <1>5, <1>6, <1>7, <1>8 DEF Lookup

\* A dirty page begins to be flushed, for FlushPage or FlushAll.
LEMMA StartFlushOK ==
    ASSUME NEW t, Threads = {t}, IInv, NEW s, Good(s, file', Idle, held[t]), NEW j \in Jobs,
           j.op \in {"flush", "flushAll"}, NEW f \in Frames, Ready(s, f), StartFlush(t, j, f, s)
    PROVE  (\E k, hd : Leaves(t, k, hd)) /\ Shows(t, StoreOf(s, file'))
<1> DEFINE w == FALSE
           g == [[j EXCEPT !.frame = f, !.pid = s.frames[f].page] EXCEPT !.pc = "flushSeek"]
<1>1. /\ pool' = [s EXCEPT !.frames[f].dirty = w] /\ latch' = Nobody
      /\ job' = [job EXCEPT ![t] = g] /\ held' = held /\ seen' = seen
  BY DEF StartFlush, Proceed
<1>2. w \in BOOLEAN /\ ~w
  OBVIOUS
<1>3. PoolType(s) /\ s.frames[f].page \in Pages
  BY DEF Good, PoolOK
<1>4. /\ g \in Jobs /\ g.pc = "flushSeek" /\ g.frame = f /\ g.pid = s.frames[f].page
      /\ g.op \in {"flush", "flushAll"}
  BY <1>3 DEF Jobs, Flushes
<1> HIDE DEF w, g
<1>5. ChangedTo(s, pool', f, s.frames[f].content, s.frames[f].pin, w) /\ pool'.lru = s.lru
  BY <1>1, <1>2, <1>3, MarkIs
<1>6. Good(pool', file', g, held[t]) /\ SameLatest(s, file', pool', file')
  BY <1>2, <1>4, <1>5, FlushBegins
<1>7. Leaves(t, g, held[t])
  BY <1>1, <1>6 DEF Leaves
<1>8. StoreOf(pool', file') = StoreOf(s, file')
  BY <1>6, SameStore
<1> QED
  BY <1>1, <1>7, <1>8 DEF Shows

\* FlushAll goes on from a pool s.
LEMMA FlushNextOK ==
    ASSUME NEW t, Threads = {t}, IInv, NEW s, Good(s, file', Idle, held[t]), NEW j \in Jobs,
           j.op \in {"flush", "flushAll"}, FlushNext(t, j, s)
    PROVE  (\E k, hd : Leaves(t, k, hd)) /\ Shows(t, StoreOf(s, file'))
<1> DEFINE due == {e \in j.todo : NeedsFlush(s, e.frame) /\ s.frames[e.frame].page = e.page}
           F == {e.frame : e \in due}
           f == Lowest(F)
           g == [j EXCEPT !.todo = {e \in @ : e.frame > f}]
<1>1. j.todo \subseteq [frame : Frames, page : Pages \cup {NoPage}]
  BY DEF Jobs
<1>2. CASE due # {} /\ StartFlush(t, g, f, s)
  <2>1. F # {} /\ F \subseteq Frames /\ \A x \in F : Ready(s, x)
    BY <1>1, <1>2 DEF NeedsFlush, Ready
  <2>2. F \subseteq Nat
    BY <2>1, Numbers
  <2> HIDE DEF F
  <2>3. f \in F
    BY <2>1, <2>2, LowestIs
  <2>4. f \in Frames /\ Ready(s, f)
    BY <2>1, <2>3
  <2> HIDE DEF f
  <2>5. g \in Jobs /\ g.op = j.op
    BY DEF Jobs
  <2> HIDE DEF g
  <2> QED
    BY <1>2, <2>4, <2>5, StartFlushOK
<1>3. CASE due = {} /\ Return(t) /\ pool' = s /\ UNCHANGED <<latch, held, seen>>
  <2>1. job' = [job EXCEPT ![t] = Idle] /\ latch' \in Threads \cup {Nobody}
    BY <1>3, ThreadIs DEF Return
  <2>2. Leaves(t, Idle, held[t])
    BY <1>3, <2>1 DEF Leaves
  <2> QED
    BY <1>3, <2>2 DEF Shows
<1> QED
  BY <1>2, <1>3 DEF FlushNext

\* NewPage seeks to the end of the file.
LEMMA NewPageStep ==
    ASSUME NEW t, Threads = {t}, IInv, MaxPins <= 1, NewPage(t)
    PROVE  (\E k, hd : Leaves(t, k, hd)) /\ Shows(t, StoreOf(pool, file))
<1> DEFINE n == file.numPages
           j == [[Call("new") EXCEPT !.page = n] EXCEPT !.pc = "allocate"]
<1>1. /\ At(t, "idle") /\ held[t] = {} /\ latch' \in Threads /\ n < MaxPages
      /\ file' = [file EXCEPT !.pos = n] /\ job' = [job EXCEPT ![t] = j]
      /\ pool' = pool /\ held' = held /\ seen' = seen
  BY NoPins DEF NewPage, May, Proceed
<1>2. Good(pool, file, Idle, {}) /\ file \in FileType
  BY <1>1, IdleIs, ThreadIs
<1>3. n \in Pages /\ n \in Positions
  <2>1. n \in Pages \cup {MaxPages}
    BY <1>2 DEF FileType
  <2>2. n \in Positions
    BY <2>1, OneThread
  <2> QED
    BY <1>1, <2>1, <2>2, Numbers
<1>4. Moved(file, file', n)
  BY <1>1, <1>2, <1>3, MovedIs
<1>5. j \in Jobs /\ j.pc = "allocate" /\ j.op = "new" /\ j.page = n
  BY <1>3, FirstValues DEF Call, Idle, Jobs
<1> HIDE DEF j
<1>6. Good(pool, file', j, {}) /\ SameLatest(pool, file, pool, file')
  BY <1>2, <1>3, <1>4, <1>5, NewOK
<1>7. Leaves(t, j, {})
  BY <1>1, <1>6 DEF Leaves
<1>8. StoreOf(pool', file') = StoreOf(pool, file)
  BY <1>1, <1>6, SameStore
<1> QED
  BY <1>1, <1>7, <1>8 DEF Shows

\* The new page is written, and given a frame; or nothing happens.
LEMMA AllocateStep ==
    ASSUME NEW t, Threads = {t}, IInv, Allocate(t)
    PROVE  (\E k, hd : Leaves(t, k, hd)) /\ Shows(t, StoreOf(pool, file))
<1> DEFINE j == job[t]
           p == j.page
<1>1. /\ Good(pool, file, j, held[t]) /\ j.pc = "allocate" /\ j \in Jobs
      /\ file \in FileType /\ FileOK(pool, file)
  BY ThreadIs DEF Allocate, At
<1>2. p \in Pages /\ p = file.numPages /\ file.pos = p /\ held[t] = {}
  BY <1>1 DEF Good, CallOK, AllocateOK
<1>3. CASE file' = [Written(Zeros) EXCEPT !.numPages = @ + 1] /\ ObtainFrame(t, j)
  <2> DEFINE d == Written(Zeros)
  <2>0. p + 1 \in Positions /\ \A q \in Pages : q \in Positions
    BY <1>2, OneThread
  <2>1. Zeros \in Contents
    BY FirstValues
  <2>2. file.pos <= file.numPages
    <3>1. file.pos = file.numPages /\ file.numPages \in Nat
      BY <1>2, Numbers
    <3> QED
      BY <3>1
  <2>3. file' = [d EXCEPT !.numPages = @ + 1] /\ d = Written(Zeros)
    BY <1>3
  <2> HIDE DEF d
  <2>4. WrittenTo(file, d, p, Zeros)
    BY <1>1, <1>2, <2>0, <2>1, <2>2, <2>3, WrittenIs
  <2>5. /\ d \in FileType /\ d.numPages = p /\ d.disk[p] = Zeros
        /\ \A q \in Pages : q # p => d.disk[q] = file.disk[q]
    BY <1>2, <2>4 DEF WrittenTo
  <2>6. file' = [d EXCEPT !.numPages = p + 1] /\ p + 1 \in Pages \cup {MaxPages}
    BY <1>2, <2>3, <2>5, Numbers DEF FileType
  <2>7. file' \in FileType /\ file'.numPages = p + 1 /\ file'.disk = d.disk
    BY <2>5, <2>6 DEF FileType
  <2>8. Extended(file, file', p)
    BY <2>5, <2>7 DEF Extended
  <2>9. Good(pool, file', Idle, {}) /\ Wants(pool, file', j, {}) /\ SameLatest(pool, file, pool, file')
    BY <1>1, <2>8, ExtendOK
  <2>10. (\E k, hd : Leaves(t, k, hd)) /\ Shows(t, StoreOf(pool, file'))
    BY <1>1, <1>2, <1>3, <2>9, ObtainFrameOK
  <2>11. StoreOf(pool, file') = StoreOf(pool, file)
    BY <2>9, SameStore
  <2> QED
    BY <2>10, <2>11
<1>4. CASE ReturnNull(t) /\ UNCHANGED file
  <2>1. job' = [job EXCEPT ![t] = Idle] /\ held' = held /\ pool' = pool /\ seen' = seen
        /\ latch' \in Threads \cup {Nobody} /\ file' = file
    BY <1>4 DEF ReturnNull, Return
  <2>2. Good(pool, file, Idle, {})
    BY <1>1, Untouched
  <2>3. Leaves(t, Idle, {})
    BY <1>2, <2>1, <2>2 DEF Leaves
  <2> QED
    BY <2>1, <2>3 DEF Shows
<1> QED
  BY <1>3, <1>4 DEF Allocate

\* UnpinPage finds the page of the client in the table.
LEMMA UnpinPageStep ==
    ASSUME NEW t, Threads = {t}, IInv, NEW h \in held[t], UnpinPage(t, h)
    PROVE  (\E k, hd : Leaves(t, k, hd)) /\ Shows(t, StoreOf(pool, file))
<1> DEFINE j == job[t]
           f == h.frame
<1>1. /\ Good(pool, file, j, held[t]) /\ PoolType(pool) /\ latch \in Threads \cup {Nobody}
      /\ j.pc \in {"idle", "unlatch"} /\ held \in [Threads -> SUBSET Handles]
  BY ThreadIs DEF UnpinPage, At, IInv
<1>2. /\ held[t] = {h} /\ f \in Frames /\ h.wrote \in BOOLEAN /\ pool.table[h.page] = f
      /\ InTable(pool, h.page)
      /\ pool.frames[f].pin = 1 + (IF Latches(j, f) THEN 1 ELSE 0)
  BY <1>1, OneHandle
<1>3. pool.frames[f].pin > 0 /\ pool.frames[f].pin - 1 \in 0 .. 2 * Cardinality(Threads)
  <2> DEFINE n == pool.frames[f].pin
  <2>1. n = 1 \/ n = 2
    BY <1>2
  <2> HIDE DEF n
  <2>2. n > 0 /\ n - 1 \in {0, 1, 2}
    BY <2>1
  <2>3. 0 .. 2 * Cardinality(Threads) = {0, 1, 2}
    BY OneThread
  <2> QED
    BY <2>2, <2>3 DEF n
<1>4. pool' = Unpinned(Marked(pool, f, h.wrote), f)
  BY <1>2, <1>3 DEF UnpinPage, Cached, InTable
<1>5. /\ held' = [held EXCEPT ![t] = {}] /\ file' = file /\ latch' = latch /\ job' = job
      /\ seen' = seen
  BY <1>1, <1>2 DEF UnpinPage
<1>6. UnpinnedTo(pool, pool', f, h.wrote)
  <2> DEFINE w == h.wrote
  <2>1. w \in BOOLEAN /\ pool' = Unpinned(Marked(pool, f, w), f)
    BY <1>2, <1>4
  <2> HIDE DEF w
  <2>2. UnpinnedTo(pool, pool', f, w)
    BY <1>1, <1>2, <1>3, <2>1, UnpinnedIs
  <2> QED
    BY <2>2 DEF w
<1>7. Good(pool', file, j, {}) /\ SameLatest(pool, file, pool', file)
  <2>1. PICK v \in BOOLEAN :
           /\ pool.frames[f].dirty \/ h.wrote => v
           /\ ChangedTo(pool, pool', f, pool.frames[f].content, pool.frames[f].pin - 1, v)
    BY <1>6 DEF UnpinnedTo
  <2>2. Linked(pool'.lru) = IF pool.frames[f].pin = 1 THEN Linked(pool.lru) \cup {f}
                            ELSE Linked(pool.lru)
    BY <1>6 DEF UnpinnedTo
  <2> QED
    BY <1>1, <2>1, <2>2, UnpinPageOK
<1>8. Leaves(t, j, {})
  BY <1>1, <1>5, <1>7 DEF Leaves
<1>9. StoreOf(pool', file') = StoreOf(pool, file)
  BY <1>5, <1>7, SameStore
<1> QED
  BY <1>5, <1>8, <1>9 DEF Shows

\* FlushPage of a dirty page.
LEMMA FlushPageStep ==
    ASSUME NEW t, Threads = {t}, IInv, NEW p \in Pages, FlushPage(t, p)
    PROVE  (\E k, hd : Leaves(t, k, hd)) /\ Shows(t, StoreOf(pool, file))
<1> DEFINE f == pool.table[p]
           j == Call("flush")
<1>1. Good(pool, file, Idle, held[t]) /\ PoolType(pool)
  BY IdleIs, ThreadIs DEF FlushPage, May
<1>2. f \in Frames /\ Ready(pool, f) /\ file' = file /\ StartFlush(t, j, f, pool)
  BY <1>1 DEF FlushPage, Cached, NeedsFlush, Ready, PoolType
<1>3. j \in Jobs /\ j.op = "flush"
  BY CallIs
<1> HIDE DEF j, f
<1> QED
  BY <1>1, <1>2, <1>3, StartFlushOK

\* FlushAll takes its snapshot.
LEMMA FlushAllStep ==
    ASSUME NEW t, Threads = {t}, IInv, FlushAll(t)
    PROVE  (\E k, hd : Leaves(t, k, hd)) /\ Shows(t, StoreOf(pool, file))
<1> DEFINE j == [Call("flushAll") EXCEPT !.todo = Snapshot]
<1>1. Good(pool, file, Idle, held[t]) /\ PoolType(pool)
  BY IdleIs, ThreadIs DEF FlushAll, May
<1>2. file' = file /\ FlushNext(t, j, pool)
  BY DEF FlushAll
<1>3. Snapshot \in SUBSET [frame : Frames, page : Pages \cup {NoPage}]
  BY <1>1 DEF Snapshot, PoolType, FrameType
<1>4. j \in Jobs /\ j.op = "flushAll"
  BY <1>3, CallIs DEF Jobs
<1> HIDE DEF j
<1> QED
  BY <1>1, <1>2, <1>4, FlushNextOK

\* A client changes its page, without a latch or with one.
LEMMA ChangeOK ==
    ASSUME NEW t, Threads = {t}, IInv, NEW h \in held[t], MayChange(h), pool' = Change(h),
           Wrote(t, h), UNCHANGED <<file, latch, seen>>, NEW j2,
           \/ job[t].pc = "idle" /\ j2 = job[t]
           \/ job[t].pc = "use" /\ j2.pc = "unlatch" /\ Further(job[t], j2),
           job' = [job EXCEPT ![t] = j2] \/ (job' = job /\ j2 = job[t])
    PROVE  (\E k, hd : Leaves(t, k, hd)) /\ Shows(t, StoreOf(pool, file))
<1> DEFINE j == job[t]
           f == h.frame
           b == pool.frames[f].content
           c == [b EXCEPT !.ver = b.ver + 1]
           h2 == [h EXCEPT !.wrote = TRUE]
<1>1. Good(pool, file, j, held[t]) /\ PoolType(pool) /\ held \in [Threads -> SUBSET Handles]
  BY ThreadIs DEF IInv
<1>2. /\ held[t] = {h} /\ h \in Handles /\ f \in Frames /\ h.page \in Pages
      /\ InTable(pool, h.page) /\ pool.table[h.page] = f
  BY <1>1, OneHandle
<1>3. b \in [page : Pages, ver : 1 .. MaxVersion] /\ b # Zeros /\ c \in Contents
  <2>1. b \in Contents /\ b.ver \in 1 .. MaxVersion - 1
    BY <1>1, <1>2 DEF MayChange, PoolType, FrameType
  <2>2. MaxVersion \in Nat /\ Zeros.ver = 0
    BY Numbers DEF Zeros
  <2>3. b # Zeros
    BY <2>1, <2>2
  <2>4. b \in [page : Pages, ver : 1 .. MaxVersion]
    BY <2>1, <2>3 DEF Contents
  <2>5. b.ver + 1 \in 1 .. MaxVersion
    BY <2>1, <2>2
  <2>6. c \in [page : Pages, ver : 1 .. MaxVersion]
    BY <2>4, <2>5
  <2> QED
    BY <2>3, <2>4, <2>6 DEF Contents
<1>4. pool' = [pool EXCEPT !.frames[f].content = c]
  BY <1>1, <1>2, <1>3 DEF Change, PoolType
<1>5. h2 \in Handles /\ h2.page = h.page /\ h2.frame = f /\ h2.wrote
  BY <1>2 DEF Handles
<1>6. held' = [held EXCEPT ![t] = {h2}]
  BY <1>1, <1>2 DEF Wrote
<1>7. StoreOf(pool, file)[h.page] = b
  BY <1>2 DEF StoreOf, Latest, FrameOf
<1> HIDE DEF c, h2
<1>8. ChangedTo(pool, pool', f, c, pool.frames[f].pin, pool.frames[f].dirty) /\ pool'.lru = pool.lru
  BY <1>1, <1>2, <1>3, <1>4, FillIs
<1>9. Good(pool', file, j2, {h2}) /\ Creates(pool, file, pool', h.page, c)
  BY <1>1, <1>2, <1>5, <1>8, ModifyOK
<1>10. Leaves(t, j2, {h2})
  BY <1>1, <1>6, <1>9, ThreadIs DEF Leaves
<1>11. Updated(StoreOf(pool, file), StoreOf(pool', file), h.page, c)
  BY <1>2, <1>9, NewStore
<1>12. Shows(t, StoreOf(pool, file))
  <2>1. c = [StoreOf(pool, file)[h.page] EXCEPT !.ver = @ + 1]
    BY <1>7 DEF c
  <2>2. StoreOf(pool', file') = [StoreOf(pool, file) EXCEPT ![h.page] = c]
    BY <1>11 DEF Updated
  <2>3. StoreOf(pool', file') = [StoreOf(pool, file) EXCEPT ![h.page].ver = @ + 1]
    BY <2>1, <2>2
  <2> QED
    BY <1>2, <1>3, <1>7, <2>3 DEF Shows
<1> QED
  BY <1>10, <1>12

\* Modify, as the storage manager changes pages.
LEMMA ModifyStep ==
    ASSUME NEW t, Threads = {t}, IInv, NEW h \in held[t], Modify(t, h)
    PROVE  (\E k, hd : Leaves(t, k, hd)) /\ Shows(t, StoreOf(pool, file))
<1>1. /\ job[t].pc = "idle" /\ MayChange(h) /\ pool' = Change(h) /\ Wrote(t, h)
      /\ UNCHANGED <<file, latch, seen>> /\ job' = job
  BY DEF Modify, May, At
<1> DEFINE j2 == job[t]
<1>2. j2 = job[t]
  OBVIOUS
<1> HIDE DEF j2
<1> QED
  BY <1>1, <1>2, ChangeOK

\* WLatchPage and RLatchPage pin the page they latch.
LEMMA LatchPageStep ==
    ASSUME NEW t, Threads = {t}, IInv, NEW h \in held[t], NEW op \in {"edit", "look"},
           LatchPage(t, h, op)
    PROVE  (\E k, hd : Leaves(t, k, hd)) /\ Shows(t, StoreOf(pool, file))
<1> DEFINE f == h.frame
           n == pool.frames[f].pin + 1
           j == [[Call(op) EXCEPT !.page = h.page, !.frame = f] EXCEPT !.pc = "acquire"]
<1>1. Good(pool, file, Idle, held[t]) /\ PoolType(pool)
  BY IdleIs, ThreadIs DEF LatchPage, May
<1>2. /\ f \in Frames /\ h.page \in Pages /\ pool.table[h.page] = f
      /\ pool.frames[f].pin = 1 + (IF Latches(Idle, f) THEN 1 ELSE 0)
  BY <1>1, OneHandle
<1>3. ~Latches(Idle, f)
  BY FirstValues DEF Latches, Latched
<1>4. n \in 0 .. 2 * Cardinality(Threads)
  <2>1. n = 2
    BY <1>2, <1>3
  <2> HIDE DEF n
  <2> QED
    BY <2>1, OneThread
<1>5. /\ pool' = [pool EXCEPT !.frames[f].pin = n] /\ job' = [job EXCEPT ![t] = j]
      /\ file' = file /\ latch' = latch /\ held' = held /\ seen' = seen
  BY <1>1, <1>2 DEF LatchPage, Proceed, PoolType
<1>6. j \in Jobs /\ j.op \in {"edit", "look"} /\ j.pc = "acquire" /\ j.page = h.page /\ j.frame = f
  BY <1>2, FirstValues DEF Call, Idle, Jobs, Latched
<1> HIDE DEF j
<1>7. /\ ChangedTo(pool, pool', f, pool.frames[f].content, pool.frames[f].pin + 1,
                   pool.frames[f].dirty)
      /\ pool'.lru = pool.lru
  <2>1. PoolType(pool) /\ f \in Frames /\ pool' = [pool EXCEPT !.frames[f].pin = n]
    BY <1>1, <1>2, <1>5
  <2> HIDE DEF n, f
  <2>2. ChangedTo(pool, pool', f, pool.frames[f].content, n, pool.frames[f].dirty)
        /\ pool'.lru = pool.lru
    BY <1>4, <2>1, PinIs
  <2> QED
    BY <2>2 DEF n
<1>8. Good(pool', file, j, held[t]) /\ SameLatest(pool, file, pool', file)
  BY <1>1, <1>6, <1>7, LatchPageOK
<1>9. Leaves(t, j, held[t])
  BY <1>5, <1>8, ThreadIs DEF Leaves
<1>10. StoreOf(pool', file') = StoreOf(pool, file)
  BY <1>5, <1>8, SameStore
<1> QED
  BY <1>5, <1>9, <1>10 DEF Shows

\* The page to load: the position is set, under the latch of the frame.
LEMMA LoadSeekStep ==
    ASSUME NEW t, Threads = {t}, IInv, LoadSeek(t)
    PROVE  (\E k, hd : Leaves(t, k, hd)) /\ Shows(t, StoreOf(pool, file))
<1> DEFINE j == job[t]
           f == j.frame
           j2 == [j EXCEPT !.pc = "loadRead"]
<1>1. Good(pool, file, j, held[t]) /\ PoolType(pool) /\ j \in Jobs /\ file \in FileType
  BY ThreadIs
<1>2. /\ j.pc \in Loads /\ pool' = [pool EXCEPT !.frames[f].writer = t]
      /\ file' = [file EXCEPT !.pos = j.page] /\ job' = [job EXCEPT ![t] = j2]
      /\ latch' = latch /\ held' = held /\ seen' = seen
  BY DEF LoadSeek, At, Lock, Proceed, Loads
<1>3. f \in Frames /\ j.page \in Positions
  <2>1. f \in Frames /\ j.page \in Pages
    BY <1>1, <1>2 DEF Good, CallOK, LoadOK, Wants
  <2> QED
    BY <2>1, OneThread
<1>4. Further(j, j2) /\ j2.pc = "loadRead"
  BY <1>1 DEF Further, Jobs, Loads
<1> HIDE DEF j2
<1>5. /\ ChangedTo(pool, pool', f, pool.frames[f].content, pool.frames[f].pin, pool.frames[f].dirty)
      /\ pool'.lru = pool.lru
  <2>1. PoolType(pool) /\ f \in Frames /\ t \in Threads \cup {Nobody}
    BY <1>1, <1>3
  <2>2. pool' = [pool EXCEPT !.frames[f].writer = t]
    BY <1>2
  <2> HIDE DEF j, f
  <2> QED
    BY <2>1, <2>2, LockIs
<1>6. Moved(file, file', j.page)
  BY <1>1, <1>2, <1>3, MovedIs
<1>7. j2.pc \in Loads /\ (j2.pc = "loadRead" => j.page = j.page) /\ j2.pc # "loadDone"
  BY <1>4 DEF Loads
<1>8. Good(pool', file', j2, held[t]) /\ SameLatest(pool, file, pool', file')
  BY <1>1, <1>2, <1>4, <1>5, <1>6, <1>7, LoadMoves
<1>9. Leaves(t, j2, held[t])
  BY <1>2, <1>8, ThreadIs DEF Leaves
<1>10. StoreOf(pool', file') = StoreOf(pool, file)
  BY <1>8, SameStore
<1> QED
  BY <1>2, <1>9, <1>10 DEF Shows

\* Two changes of one frame, one after the other.
LEMMA ChangedTwice ==
    ASSUME NEW s, NEW f, NEW s1, NEW s2, NEW c, NEW c2, NEW n, NEW n2, NEW w, NEW w2,
           ChangedTo(s, s1, f, c, n, w), ChangedTo(s1, s2, f, c2, n2, w2)
    PROVE  ChangedTo(s, s2, f, c2, n2, w2)
BY DEF ChangedTo, IsFrame

\* No change at all.
LEMMA ChangedNot ==
    ASSUME NEW s, PoolType(s), NEW f \in Frames
    PROVE  ChangedTo(s, s, f, s.frames[f].content, s.frames[f].pin, s.frames[f].dirty)
BY DEF ChangedTo, IsFrame

\* The page is read into the frame, or cannot be read.
LEMMA LoadReadStep ==
    ASSUME NEW t, Threads = {t}, IInv, LoadRead(t)
    PROVE  (\E k, hd : Leaves(t, k, hd)) /\ Shows(t, StoreOf(pool, file))
<1> DEFINE j == job[t]
           f == j.frame
           p == j.page
<1>1. Good(pool, file, j, held[t]) /\ PoolType(pool) /\ j \in Jobs /\ file \in FileType
  BY ThreadIs
<1>2. /\ j.pc = "loadRead" /\ latch' = latch /\ held' = held /\ seen' = seen
  BY DEF LoadRead, At
<1>3. f \in Frames /\ p \in Pages /\ file.pos = p
  BY <1>1, <1>2 DEF Good, CallOK, LoadOK, Wants, Loads
<1>4. PICK ok \in BOOLEAN :
         /\ ok => file.disk[file.pos] # Absent
         /\ pool' = Unlock(IF ok THEN [pool EXCEPT !.frames[f].content = file.disk[file.pos]]
                                 ELSE pool, f)
         /\ file' = IF ok THEN [file EXCEPT !.pos = @ + 1] ELSE file
         /\ Proceed(t, [j EXCEPT !.ok = ok], "loadDone")
  BY DEF LoadRead
<1> DEFINE j2 == [[j EXCEPT !.ok = ok] EXCEPT !.pc = "loadDone"]
           c == IF ok THEN file.disk[p] ELSE pool.frames[f].content
           x == IF ok THEN p + 1 ELSE p
           m == IF ok THEN [pool EXCEPT !.frames[f].content = file.disk[file.pos]] ELSE pool
<1>5. Further(j, j2) /\ j2.pc = "loadDone" /\ j2.ok = ok /\ job' = [job EXCEPT ![t] = j2]
  BY <1>1, <1>4 DEF Further, Jobs, Loads, Proceed
<1>6. p \in Positions /\ p + 1 \in Positions
  BY <1>3, OneThread
<1>7. c \in Contents
  <2>1. ok => file.disk[p] \in Contents
    BY <1>1, <1>3, <1>4, <1>6 DEF FileType
  <2>2. pool.frames[f].content \in Contents
    BY <1>1, <1>3 DEF PoolType, FrameType
  <2> QED
    BY <2>1, <2>2
<1>8. ChangedTo(pool, m, f, c, pool.frames[f].pin, pool.frames[f].dirty) /\ m.lru = pool.lru
  <2>1. CASE ok
    <3>1. m = [pool EXCEPT !.frames[f].content = c] /\ c = file.disk[p]
      BY <2>1, <1>3
    <3> HIDE DEF m, c
    <3> QED
      BY <3>1, <1>1, <1>3, <1>7, FillIs
  <2>2. CASE ~ok
    <3>1. m = pool /\ c = pool.frames[f].content
      BY <2>2
    <3> HIDE DEF m, c
    <3> QED
      BY <3>1, <1>1, <1>3, ChangedNot
  <2> QED
    BY <2>1, <2>2
<1>9. pool' = [m EXCEPT !.frames[f].writer = Nobody]
  BY <1>4 DEF Unlock
<1>10. Moved(file, file', x)
  <2>1. file' = [file EXCEPT !.pos = x]
    BY <1>1, <1>3, <1>4 DEF FileType
  <2>2. x \in Positions
    BY <1>6
  <2> HIDE DEF x
  <2> QED
    BY <2>1, <2>2, <1>1, MovedIs
<1>11. j2.pc \in Loads /\ j2.pc # "loadRead" /\ (j2.ok => c = file.disk[p])
  BY <1>5 DEF Loads
<1> HIDE DEF j2, c, x, m
<1>12. /\ PoolType(m) /\ m.frames[f].content = c /\ m.frames[f].pin = pool.frames[f].pin
       /\ m.frames[f].dirty = pool.frames[f].dirty
  BY <1>8 DEF ChangedTo, IsFrame
<1>13. /\ ChangedTo(m, pool', f, m.frames[f].content, m.frames[f].pin, m.frames[f].dirty)
       /\ pool'.lru = m.lru
  <2>1. f \in Frames /\ Nobody \in Threads \cup {Nobody}
    BY <1>3
  <2> HIDE DEF j, f
  <2> QED
    BY <1>9, <1>12, <2>1, LockIs
<1>14. ChangedTo(pool, pool', f, c, pool.frames[f].pin, pool.frames[f].dirty) /\ pool'.lru = pool.lru
  <2>1. ChangedTo(m, pool', f, c, pool.frames[f].pin, pool.frames[f].dirty)
    BY <1>12, <1>13
  <2> QED
    BY <2>1, <1>8, <1>13, ChangedTwice
<1>15. Good(pool', file', j2, held[t]) /\ SameLatest(pool, file, pool', file')
  <2>1. j.pc \in Loads
    BY <1>2 DEF Loads
  <2> QED
    BY <2>1, <1>1, <1>5, <1>10, <1>11, <1>14, LoadMoves
<1>16. Leaves(t, j2, held[t])
  BY <1>2, <1>5, <1>15, ThreadIs DEF Leaves
<1>17. StoreOf(pool', file') = StoreOf(pool, file)
  BY <1>15, SameStore
<1> QED
  BY <1>2, <1>16, <1>17 DEF Shows

\* The page enters the table, or the frame is given up.
LEMMA LoadDoneStep ==
    ASSUME NEW t, Threads = {t}, IInv, LoadDone(t)
    PROVE  (\E k, hd : Leaves(t, k, hd)) /\ Shows(t, StoreOf(pool, file))
<1> DEFINE j == job[t]
           f == j.frame
           p == j.page
<1>1. /\ Good(pool, file, j, held[t]) /\ PoolType(pool) /\ j.pc = "loadDone"
      /\ file' = file /\ latch' = latch /\ latch \in Threads \cup {Nobody}
  BY ThreadIs DEF LoadDone, At
<1>2. /\ f \in Frames /\ p \in Pages /\ p < file.numPages /\ ~InTable(pool, p)
      /\ pool.frames[f].state = "Loading" /\ pool.frames[f].page = p /\ pool.frames[f].pin = 1
      /\ (j.ok => pool.frames[f].content = file.disk[p])
  BY <1>1 DEF Good, CallOK, LoadOK, Wants, Loads
<1>3. held[t] = {} /\ Good(pool, file, Idle, {})
  BY <1>1, Untouched DEF Loads
<1>4. ~Ready(pool, f) /\ pool.frames[f].dirty \in BOOLEAN /\ pool.frames[f].content \in Contents
  BY <1>1, <1>2 DEF Ready, PoolType, FrameType
<1>5. CASE j.ok /\ pool' = Loaded(pool, f, p) /\ HandOut(t, p, f)
  <2> DEFINE c == pool.frames[f].content
             w == pool.frames[f].dirty
  <2>1. EnteredTo(pool, pool', f, p, c, 1, w)
    <3>1. EnteredTo(pool, pool', f, p, c, pool.frames[f].pin, w)
      BY <1>1, <1>2, <1>5, EnteredIs
    <3> QED
      BY <3>1, <1>2
  <2>2. w \in BOOLEAN /\ (w \/ file.disk[p] = c) /\ c = file.disk[p]
    BY <1>2, <1>4, <1>5
  <2> HIDE DEF c, w
  <2>3. /\ Good(pool', file, Idle, {Handle(p, f)})
        /\ pool'.frames[f].content = c /\ c \in Contents
        /\ Creates(pool, file, pool', p, c)
    <3>1. w \/ file.disk[p] = c
      BY <2>2
    <3>2. /\ Good(pool, file, Idle, {}) /\ p \in Pages /\ ~InTable(pool, p) /\ p < file.numPages
          /\ f \in Frames /\ ~Ready(pool, f) /\ w \in BOOLEAN
      BY <1>2, <1>3, <1>4, <2>2
    <3> HIDE DEF j, f, p
    <3> QED
      BY <2>1, <3>1, <3>2, EnterOK
  <2>4. /\ \E k, hd : Leaves(t, k, hd)
        /\ seen' = [seen EXCEPT ![t] = pool'.frames[f].content]
    BY <1>1, <1>2, <1>3, <1>5, <2>3, HandOutIs
  <2>5. Latest(pool, file, p) = c
    BY <1>2, <2>2 DEF Latest
  <2>6. SameLatest(pool, file, pool', file)
    BY <2>3, <2>5 DEF Creates, SameLatest
  <2>7. StoreOf(pool', file') = StoreOf(pool, file) /\ StoreOf(pool, file)[p] = c
    BY <1>1, <1>2, <2>5, <2>6, SameStore DEF StoreOf
  <2> QED
    BY <1>2, <2>3, <2>4, <2>7 DEF Shows
<1>6. CASE /\ ~j.ok /\ pool' = Emptied(pool, f) /\ Return(t) /\ UNCHANGED <<held, seen>>
  <2>1. EmptiedTo(pool, pool', f)
    BY <1>1, <1>2, <1>6, OneThread, EmptiedIs
  <2>2. Good(pool', file, Idle, {}) /\ SameLatest(pool, file, pool', file)
    BY <1>2, <1>3, <1>4, <2>1, EmptyOK
  <2>3. Leaves(t, Idle, {})
    BY <1>1, <1>3, <1>6, <2>2 DEF Leaves, Return
  <2>4. StoreOf(pool', file') = StoreOf(pool, file)
    BY <1>1, <2>2, SameStore
  <2> QED
    BY <1>6, <2>3, <2>4 DEF Shows
<1> QED
  BY <1>5, <1>6 DEF LoadDone, Loaded, Emptied

\* The page to flush: the position is set and the frame is copied, under its latch.
LEMMA FlushSeekStep ==
    ASSUME NEW t, Threads = {t}, IInv, FlushSeek(t)
    PROVE  (\E k, hd : Leaves(t, k, hd)) /\ Shows(t, StoreOf(pool, file))
<1> DEFINE j == job[t]
           f == j.frame
           c == pool.frames[f].content
           j2 == [[j EXCEPT !.buffer = c] EXCEPT !.pc = "flushWrite"]
<1>1. Good(pool, file, j, held[t]) /\ PoolType(pool) /\ j \in Jobs /\ file \in FileType
  BY ThreadIs
<1>2. /\ j.pc = "flushSeek" /\ pool' = [pool EXCEPT !.frames[f].writer = t]
      /\ file' = [file EXCEPT !.pos = j.pid] /\ job' = [job EXCEPT ![t] = j2]
      /\ latch' = latch /\ held' = held /\ seen' = seen
  BY DEF FlushSeek, At, Lock, Proceed
<1>3. f \in Frames /\ j.pid \in Positions
  <2>1. f \in Frames /\ j.pid \in Pages
    BY <1>1, <1>2 DEF Good, CallOK, FlushOK, Flushes
  <2> QED
    BY <2>1, OneThread
<1>4. c \in Contents
  BY <1>1, <1>3 DEF PoolType, FrameType
<1> HIDE DEF c
<1>5. Further(j, j2) /\ j2.pc = "flushWrite" /\ j2.buffer = c
  BY <1>1, <1>4 DEF Further, Jobs, Flushes
<1> HIDE DEF j2
<1>6. /\ ChangedTo(pool, pool', f, pool.frames[f].content, pool.frames[f].pin, pool.frames[f].dirty)
      /\ pool'.lru = pool.lru
  <2>1. PoolType(pool) /\ f \in Frames /\ t \in Threads \cup {Nobody}
    BY <1>1, <1>3
  <2>2. pool' = [pool EXCEPT !.frames[f].writer = t]
    BY <1>2
  <2> HIDE DEF j, f
  <2> QED
    BY <2>1, <2>2, LockIs
<1>7. Moved(file, file', j.pid)
  BY <1>1, <1>2, <1>3, MovedIs
<1>8. Good(pool', file', j2, held[t]) /\ SameLatest(pool, file, pool', file')
  <2>1. j2.buffer = pool.frames[f].content
    BY <1>5 DEF c
  <2> QED
    BY <1>1, <1>2, <1>5, <1>6, <1>7, <2>1, FlushSeeks
<1>9. Leaves(t, j2, held[t])
  BY <1>2, <1>8, ThreadIs DEF Leaves
<1>10. StoreOf(pool', file') = StoreOf(pool, file)
  BY <1>8, SameStore
<1> QED
  BY <1>2, <1>9, <1>10 DEF Shows

\* The copy is written, or cannot be written.
LEMMA FlushWriteStep ==
    ASSUME NEW t, Threads = {t}, IInv, FlushWrite(t)
    PROVE  (\E k, hd : Leaves(t, k, hd)) /\ Shows(t, StoreOf(pool, file))
<1> DEFINE j == job[t]
           f == j.frame
<1>1. /\ Good(pool, file, j, held[t]) /\ PoolType(pool) /\ j \in Jobs /\ file \in FileType
      /\ FileOK(pool, file)
  BY ThreadIs
<1>2. /\ j.pc = "flushWrite" /\ pool' = [pool EXCEPT !.frames[f].writer = Nobody]
      /\ latch' = latch /\ held' = held /\ seen' = seen
  BY DEF FlushWrite, At, Unlock
<1>3. /\ f \in Frames /\ j.pid \in Pages /\ file.pos = j.pid /\ pool.table[j.pid] = f
      /\ j.op \in {"fetch", "new", "flush", "flushAll"}
  BY <1>1, <1>2 DEF Good, CallOK, FlushOK, Flushes
<1>4. /\ ChangedTo(pool, pool', f, pool.frames[f].content, pool.frames[f].pin, pool.frames[f].dirty)
      /\ pool'.lru = pool.lru
  BY <1>1, <1>2, <1>3, LockIs
<1>5. ASSUME NEW j2, job' = [job EXCEPT ![t] = j2],
             Good(pool', file', j2, held[t]), SameLatest(pool, file, pool', file')
      PROVE  (\E k, hd : Leaves(t, k, hd)) /\ Shows(t, StoreOf(pool, file))
  <2>1. Leaves(t, j2, held[t])
    BY <1>2, <1>5, ThreadIs DEF Leaves
  <2>2. StoreOf(pool', file') = StoreOf(pool, file)
    BY <1>5, SameStore
  <2> QED
    BY <1>2, <2>1, <2>2 DEF Shows
<1>6. CASE file' = Written(j.buffer) /\ Proceed(t, [j EXCEPT !.ok = TRUE], "flushDone")
  <2> DEFINE j2 == [[j EXCEPT !.ok = TRUE] EXCEPT !.pc = "flushDone"]
  <2>1. Further(j, j2) /\ j2.pc = "flushDone" /\ j2.ok /\ job' = [job EXCEPT ![t] = j2]
    BY <1>1, <1>6 DEF Further, Jobs, Flushes, Proceed
  <2> HIDE DEF j2
  <2>2. WrittenTo(file, file', j.pid, j.buffer)
    <3>1. file.pos \in Pages /\ j.pid < file.numPages
      BY <1>1, <1>3, Numbers DEF FileOK, InTable
    <3>2. file.pos <= file.numPages
      <4>1. file.pos \in Nat /\ file.numPages \in Nat /\ file.pos < file.numPages
        BY <1>1, <1>3, <3>1, Numbers DEF FileType
      <4> QED
        BY <4>1
    <3>3. file.pos + 1 \in Positions /\ \A p \in Pages : p \in Positions
      BY <3>1, OneThread
    <3>4. j.buffer \in Contents
      BY <1>1 DEF Jobs
    <3> HIDE DEF j
    <3>5. WrittenTo(file, file', file.pos, j.buffer)
      BY <1>1, <1>6, <3>1, <3>2, <3>3, <3>4, WrittenIs
    <3> QED
      BY <1>3, <3>5
  <2>3. Good(pool', file', j2, held[t]) /\ SameLatest(pool, file, pool', file')
    BY <1>1, <1>2, <1>4, <2>1, <2>2, FlushWrites
  <2> QED
    BY <1>5, <2>1, <2>3
<1>7. CASE WriteMayFail(t) /\ Proceed(t, [j EXCEPT !.ok = FALSE], "flushDone") /\ UNCHANGED file
  <2> DEFINE j2 == [[j EXCEPT !.ok = FALSE] EXCEPT !.pc = "flushDone"]
  <2>1. Further(j, j2) /\ j2.pc = "flushDone" /\ ~j2.ok /\ job' = [job EXCEPT ![t] = j2]
    BY <1>1, <1>7 DEF Further, Jobs, Flushes, Proceed
  <2> HIDE DEF j2
  <2>2. "write" \in Faults \/ j.op \in {"flush", "flushAll"}
    BY <1>7 DEF WriteMayFail
  <2>3. Good(pool', file, j2, held[t]) /\ SameLatest(pool, file, pool', file)
    BY <1>1, <1>2, <1>4, <2>1, <2>2, FlushFails
  <2> QED
    BY <1>5, <1>7, <2>1, <2>3
<1> QED
  BY <1>6, <1>7 DEF FlushWrite

\* FlushPage returns, FlushAll goes on, or the frame of the victim is used.  A
\* page whose flush as a victim has failed is lost: that step shows.
LEMMA FlushDoneStep ==
    ASSUME NEW t, Threads = {t}, IInv, FlushDone(t)
    PROVE  /\ \E k, hd : Leaves(t, k, hd)
           /\ Shows(t, StoreOf(pool, file)) \/ "write" \in Faults
<1> DEFINE j == job[t]
           f == j.frame
           s == IF j.ok THEN pool ELSE [pool EXCEPT !.frames[f].dirty = TRUE]
           k == [j EXCEPT !.pid = NoPage, !.buffer = Zeros, !.ok = TRUE]
           w == IF j.ok THEN pool.frames[f].dirty ELSE TRUE
<1>1. Good(pool, file, j, held[t]) /\ PoolType(pool) /\ j \in Jobs /\ file \in FileType
  BY ThreadIs
<1>2. j.pc = "flushDone" /\ file' = file
  BY DEF FlushDone, At
<1>3. f \in Frames
  BY <1>1, <1>2 DEF Good, CallOK, FlushOK, Flushes
<1>4. k \in Jobs /\ k.op = j.op /\ k.page = j.page
  BY <1>1, FirstValues DEF Jobs
<1>5. w \in BOOLEAN /\ (w \/ j.ok) /\ (pool.frames[f].dirty => w)
  BY <1>1, <1>3 DEF PoolType, FrameType
<1>6. /\ j.op \in {"fetch", "new"} => UseFrame(t, k, f, Dropped(s, f))
      /\ j.op \in {"flush", "flushAll"} => FlushNext(t, k, s)
      /\ j.op \in {"fetch", "new", "flush", "flushAll"}
  BY DEF FlushDone
<1>7. ChangedTo(pool, s, f, pool.frames[f].content, pool.frames[f].pin, w) /\ s.lru = pool.lru
  <2>1. CASE j.ok
    <3>1. s = pool /\ w = pool.frames[f].dirty
      BY <2>1
    <3> HIDE DEF s, w
    <3> QED
      BY <3>1, <1>1, <1>3, ChangedNot
  <2>2. CASE ~j.ok
    <3>1. s = [pool EXCEPT !.frames[f].dirty = w]
      BY <2>2
    <3> HIDE DEF s, w
    <3> QED
      BY <3>1, <1>1, <1>3, <1>5, MarkIs
  <2> QED
    BY <2>1, <2>2
<1> HIDE DEF k, s, w
<1>8. CASE j.op \in {"fetch", "new"}
  <2> DEFINE r == Dropped(s, f)
  <2>1. /\ held[t] = {} /\ Evicting(s, file, f) /\ Wants(s, file, j, {})
        /\ SameLatest(pool, file, s, file)
        /\ file.disk[s.frames[f].page] = s.frames[f].content \/ "write" \in Faults
    BY <1>1, <1>2, <1>5, <1>7, <1>8, EvictEnds
  <2>2. UseFrame(t, k, f, r) /\ r = Dropped(s, f) /\ PoolType(s)
    BY <1>6, <1>8, <2>1 DEF Evicting, PoolOK
  <2> HIDE DEF r
  <2>3. DroppedTo(s, r, f)
    BY <1>3, <2>2, DroppedIs
  <2>4. /\ Good(r, file, Idle, {}) /\ r.frames[f].state = "Empty"
        /\ \A p \in Pages : InTable(r, p) => InTable(s, p)
        /\ file.disk[s.frames[f].page] = s.frames[f].content => SameLatest(s, file, r, file)
    BY <2>1, <2>3, DropOK
  <2>5. Wants(r, file, k, {})
    BY <1>4, <2>1, <2>4 DEF Wants
  <2>6. (\E i, hd : Leaves(t, i, hd)) /\ Shows(t, StoreOf(r, file'))
    BY <1>2, <1>3, <1>4, <2>1, <2>2, <2>4, <2>5, UseFrameOK
  <2>7. StoreOf(r, file) = StoreOf(pool, file) \/ "write" \in Faults
    <3>1. StoreOf(s, file) = StoreOf(pool, file)
      BY <2>1, SameStore
    <3>2. CASE file.disk[s.frames[f].page] = s.frames[f].content
      <4>1. StoreOf(r, file) = StoreOf(s, file)
        BY <3>2, <2>4, SameStore
      <4> QED
        BY <3>1, <4>1
    <3> QED
      BY <2>1, <3>2
  <2> QED
    BY <1>2, <2>6, <2>7
<1>9. CASE j.op \in {"flush", "flushAll"}
  <2>1. Good(s, file, Idle, held[t]) /\ SameLatest(pool, file, s, file)
    BY <1>1, <1>2, <1>5, <1>7, <1>9, FlushEnds
  <2>2. FlushNext(t, k, s) /\ k.op \in {"flush", "flushAll"} /\ Good(s, file', Idle, held[t])
    BY <1>2, <1>4, <1>6, <1>9, <2>1
  <2>3. (\E i, hd : Leaves(t, i, hd)) /\ Shows(t, StoreOf(s, file'))
    BY <1>4, <2>2, FlushNextOK
  <2>4. StoreOf(s, file') = StoreOf(pool, file)
    BY <1>2, <2>1, SameStore
  <2> QED
    BY <2>3, <2>4
<1> QED
  BY <1>6, <1>8, <1>9

\* A frame whose latch is taken shared.
LEMMA SharedIs ==
    ASSUME NEW s, PoolType(s), NEW f \in Frames, NEW t \in Threads, NEW s2,
           s2 = [s EXCEPT !.frames[f].readers = @ \cup {t}]
    PROVE  /\ ChangedTo(s, s2, f, s.frames[f].content, s.frames[f].pin, s.frames[f].dirty)
           /\ s2.lru = s.lru
<1> DEFINE r == s.frames[f].readers \cup {t}
           new == [s.frames[f] EXCEPT !.readers = r]
<1>1. s.frames[f] \in FrameType
  BY DEF PoolType
<1>2. new \in FrameType
  BY <1>1 DEF FrameType
<1>3. Changes(s, s2, f, new) /\ s2.lru = s.lru /\ s2.table = s.table /\ Tidy(s2.lru)
  BY DEF PoolType, Changes
<1>5. /\ new.page = s.frames[f].page /\ new.state = s.frames[f].state
      /\ new.content = s.frames[f].content /\ new.pin = s.frames[f].pin
      /\ new.dirty = s.frames[f].dirty
  BY <1>1 DEF FrameType
<1> HIDE DEF new
<1>6. ChangedTo(s, s2, f, new.content, new.pin, new.dirty)
  BY <1>2, <1>3, <1>5, ChangedIs
<1> QED
  BY <1>3, <1>5, <1>6

\* A call with a latch, whose step changes nothing but the latch of the frame.
LEMMA LatchOnly ==
    ASSUME NEW t, Threads = {t}, IInv, job[t].pc \in Latched, NEW j2, Further(job[t], j2),
           j2.pc \in Latched, job' = [job EXCEPT ![t] = j2], held' = held, latch' = latch,
           file' = file, pool'.lru = pool.lru,
           ChangedTo(pool, pool', job[t].frame, pool.frames[job[t].frame].content,
                     pool.frames[job[t].frame].pin, pool.frames[job[t].frame].dirty),
           seen' = seen \/ \E p \in Pages : seen' = [seen EXCEPT ![t] = Latest(pool, file, p)]
                                            /\ Latest(pool, file, p) \in Contents
    PROVE  (\E k, hd : Leaves(t, k, hd)) /\ Shows(t, StoreOf(pool, file))
<1>1. Good(pool, file, job[t], held[t])
  BY ThreadIs
<1>2. Good(pool', file, j2, held[t]) /\ SameLatest(pool, file, pool', file)
  BY <1>1, LatchMoves
<1>3. Leaves(t, j2, held[t])
  BY <1>2, ThreadIs DEF Leaves
<1>4. StoreOf(pool', file') = StoreOf(pool, file)
  BY <1>2, SameStore
<1>5. \A p \in Pages : StoreOf(pool, file)[p] = Latest(pool, file, p)
  BY DEF StoreOf
<1> QED
  BY <1>3, <1>4, <1>5 DEF Shows

\* What is known of the frame of a latch.
LEMMA LatchIs ==
    ASSUME NEW t, Threads = {t}, IInv, job[t].pc \in Latched \cup {"rejoin"}
    PROVE  /\ job[t].frame \in Frames /\ job[t].page \in Pages /\ job[t] \in Jobs
           /\ pool.table[job[t].page] = job[t].frame /\ job[t].op \in {"edit", "look"}
           /\ PoolType(pool) /\ Ready(pool, job[t].frame)
<1>1. Good(pool, file, job[t], held[t]) /\ PoolOK(pool) /\ job[t] \in Jobs
  BY ThreadIs
<1>2. /\ job[t].frame \in Frames /\ job[t].page \in Pages
      /\ pool.table[job[t].page] = job[t].frame /\ job[t].op \in {"edit", "look"}
  BY <1>1 DEF Good, CallOK, LatchOK
<1>3. InTable(pool, job[t].page)
  BY <1>2, Numbers DEF InTable
<1>4. Ready(pool, job[t].frame) /\ PoolType(pool)
  BY <1>1, <1>2, <1>3 DEF PoolOK, FrameOf, Ready
<1> QED
  BY <1>1, <1>2, <1>4

\* A step from one point of a latched call to another.
LEMMA FurtherIs ==
    ASSUME NEW j \in Jobs, NEW pc \in Latched \cup {"rejoin"}
    PROVE  Further(j, [j EXCEPT !.pc = pc]) /\ [j EXCEPT !.pc = pc].pc = pc
BY DEF Further, Jobs

\* The latch of the frame is taken.
LEMMA AcquireLatchStep ==
    ASSUME NEW t, Threads = {t}, IInv, AcquireLatch(t)
    PROVE  (\E k, hd : Leaves(t, k, hd)) /\ Shows(t, StoreOf(pool, file))
<1> DEFINE j == job[t]
           f == j.frame
           j2 == [j EXCEPT !.pc = "use"]
<1>1. /\ j.pc \in Latched /\ job' = [job EXCEPT ![t] = j2] /\ file' = file /\ latch' = latch
      /\ held' = held /\ seen' = seen
  BY DEF AcquireLatch, At, Proceed, Latched
<1>2. f \in Frames /\ j \in Jobs /\ PoolType(pool)
  BY <1>1, LatchIs
<1>3. Further(j, j2) /\ j2.pc \in Latched
  BY <1>2, FurtherIs DEF Latched
<1> HIDE DEF j2
<1>4. CASE pool' = Lock(f, t)
  <2>1. pool' = [pool EXCEPT !.frames[f].writer = t]
    BY <1>4 DEF Lock
  <2>2. /\ ChangedTo(pool, pool', f, pool.frames[f].content, pool.frames[f].pin, pool.frames[f].dirty)
        /\ pool'.lru = pool.lru
    BY <1>2, <2>1, LockIs
  <2> QED
    BY <1>1, <1>3, <2>2, LatchOnly
<1>5. CASE pool' = [pool EXCEPT !.frames[f].readers = @ \cup {t}]
  <2>1. /\ ChangedTo(pool, pool', f, pool.frames[f].content, pool.frames[f].pin, pool.frames[f].dirty)
        /\ pool'.lru = pool.lru
    BY <1>2, <1>5, SharedIs
  <2> QED
    BY <1>1, <1>3, <2>1, LatchOnly
<1> QED
  BY <1>4, <1>5 DEF AcquireLatch

\* The client changes the latched page, or looks at it.
LEMMA UseLatchedStep ==
    ASSUME NEW t, Threads = {t}, IInv, UseLatched(t)
    PROVE  (\E k, hd : Leaves(t, k, hd)) /\ Shows(t, StoreOf(pool, file))
<1> DEFINE j == job[t]
           f == j.frame
           j2 == [j EXCEPT !.pc = "unlatch"]
<1>1. PICK h \in held[t] :
         /\ j.pc = "use" /\ h.page = j.page /\ job' = [job EXCEPT ![t] = j2]
         /\ \/ MayChange(h) /\ pool' = Change(h) /\ Wrote(t, h) /\ UNCHANGED seen
            \/ /\ seen' = [seen EXCEPT ![t] = pool.frames[h.frame].content]
               /\ UNCHANGED <<pool, held>>
         /\ file' = file /\ latch' = latch
  BY DEF UseLatched, At, Proceed
<1>2. f \in Frames /\ j \in Jobs /\ PoolType(pool) /\ j.pc \in Latched
  BY <1>1, LatchIs DEF Latched
<1>3. Further(j, j2) /\ j2.pc = "unlatch" /\ j2.pc \in Latched
  BY <1>2, FurtherIs DEF Latched
<1>4. Good(pool, file, j, held[t]) /\ FileOK(pool, file)
  BY ThreadIs
<1> HIDE DEF j2
<1>5. CASE MayChange(h) /\ pool' = Change(h) /\ Wrote(t, h) /\ UNCHANGED seen
  BY <1>1, <1>3, <1>5, ChangeOK
<1>6. CASE seen' = [seen EXCEPT ![t] = pool.frames[h.frame].content] /\ UNCHANGED <<pool, held>>
  <2>1. h.page \in Pages /\ pool.table[h.page] = h.frame /\ InTable(pool, h.page) /\ h.frame \in Frames
    BY <1>4, OneHandle
  <2>2. Latest(pool, file, h.page) = pool.frames[h.frame].content
    BY <2>1 DEF Latest, FrameOf
  <2>3. Latest(pool, file, h.page) \in Contents
    BY <1>2, <2>1, <2>2 DEF PoolType, FrameType
  <2>4. /\ ChangedTo(pool, pool', f, pool.frames[f].content, pool.frames[f].pin, pool.frames[f].dirty)
        /\ pool'.lru = pool.lru
    BY <1>2, <1>6, ChangedNot
  <2>5. \E p \in Pages : seen' = [seen EXCEPT ![t] = Latest(pool, file, p)]
                         /\ Latest(pool, file, p) \in Contents
    BY <1>6, <2>1, <2>2, <2>3
  <2> QED
    BY <1>1, <1>2, <1>3, <1>6, <2>4, <2>5, LatchOnly
<1> QED
  BY <1>1, <1>5, <1>6

\* The page of the latch is looked up, and is still where it was.
LEMMA UnlatchPageStep ==
    ASSUME NEW t, Threads = {t}, IInv, UnlatchPage(t)
    PROVE  (\E k, hd : Leaves(t, k, hd)) /\ Shows(t, StoreOf(pool, file))
<1> DEFINE j == job[t]
           f == j.frame
           j2 == [j EXCEPT !.pc = "release"]
<1>1. j.pc \in Latched /\ pool' = pool /\ file' = file /\ latch' = latch /\ held' = held /\ seen' = seen
  BY DEF UnlatchPage, At, Latched
<1>2. f \in Frames /\ j \in Jobs /\ PoolType(pool) /\ pool.table[j.page] = f /\ Cached(j.page)
  BY <1>1, LatchIs, Numbers DEF Cached
<1>3. job' = [job EXCEPT ![t] = j2]
  <2>1. [j EXCEPT !.frame = f] = j
    BY <1>2 DEF Jobs
  <2> QED
    BY <1>2, <2>1 DEF UnlatchPage, Proceed
<1>4. Further(j, j2) /\ j2.pc \in Latched
  BY <1>2, FurtherIs DEF Latched
<1> HIDE DEF j2
<1>5. /\ ChangedTo(pool, pool', f, pool.frames[f].content, pool.frames[f].pin, pool.frames[f].dirty)
      /\ pool'.lru = pool.lru
  BY <1>1, <1>2, ChangedNot
<1> QED
  BY <1>1, <1>3, <1>4, <1>5, LatchOnly

\* The latch and its pin are given back.
LEMMA ReleaseLatchStep ==
    ASSUME NEW t, Threads = {t}, IInv, ReleaseLatch(t)
    PROVE  (\E k, hd : Leaves(t, k, hd)) /\ Shows(t, StoreOf(pool, file))
<1> DEFINE j == job[t]
           f == j.frame
           n == pool.frames[f].pin
           j2 == IF n = 1 THEN [j EXCEPT !.pc = "rejoin"] ELSE Idle
<1>1. /\ j.pc = "release" /\ job' = [job EXCEPT ![t] = j2] /\ file' = file /\ latch' = latch
      /\ held' = held /\ seen' = seen /\ pool' = Released(pool, f, t)
  BY DEF ReleaseLatch, Released, At, Proceed, Return
<1>2. f \in Frames /\ j \in Jobs /\ PoolType(pool) /\ Ready(pool, f)
  BY <1>1, LatchIs DEF Latched
<1>3. Good(pool, file, j, held[t])
  BY ThreadIs
<1>4. n - 1 \in 0 .. 2 * Cardinality(Threads)
  <2>1. Latches(j, f)
    BY <1>1 DEF Latches, Latched
  <2>2. n = 1 \/ n = 2
    BY <1>2, <1>3, <2>1 DEF Good, PinsOK
  <2> HIDE DEF n
  <2>3. n - 1 \in {0, 1, 2}
    BY <2>2
  <2>4. 0 .. 2 * Cardinality(Threads) = {0, 1, 2}
    BY OneThread
  <2> QED
    BY <2>3, <2>4
<1>5. /\ ChangedTo(pool, pool', f, pool.frames[f].content, pool.frames[f].pin - 1,
                   pool.frames[f].dirty)
      /\ pool'.lru = pool.lru
  <2>1. t \in Threads /\ pool' = Released(pool, f, t)
    BY <1>1
  <2> QED
    BY <1>2, <1>4, <2>1, ReleasedIs
<1>6. \/ n = 1 /\ Further(j, j2) /\ j2.pc = "rejoin"
      \/ n # 1 /\ j2 = Idle
  BY <1>2, FurtherIs
<1> HIDE DEF j2
<1>7. j.pc = "release" /\ f = job[t].frame /\ file' = file
  BY <1>1
<1>8. Good(pool', file, j2, held[t]) /\ SameLatest(pool, file, pool', file)
  <2>1. CASE n = 1 /\ Further(j, j2) /\ j2.pc = "rejoin"
    BY <1>3, <1>5, <1>7, <2>1, ReleaseOK
  <2>2. CASE n # 1 /\ j2 = Idle
    BY <1>3, <1>5, <1>7, <2>2, ReleaseOK
  <2> QED
    BY <1>6, <2>1, <2>2
<1>9. Leaves(t, j2, held[t])
  BY <1>1, <1>8, ThreadIs DEF Leaves
<1>10. StoreOf(pool', file') = StoreOf(pool, file)
  BY <1>7, <1>8, SameStore
<1> QED
  BY <1>1, <1>9, <1>10 DEF Shows

\* The replacer is told.
LEMMA RejoinReplacerStep ==
    ASSUME NEW t, Threads = {t}, IInv, RejoinReplacer(t)
    PROVE  (\E k, hd : Leaves(t, k, hd)) /\ Shows(t, StoreOf(pool, file))
<1> DEFINE j == job[t]
           f == j.frame
           l == LruUnpin(pool.lru, f)
<1>1. /\ j.pc = "rejoin" /\ pool' = [pool EXCEPT !.lru = l] /\ job' = [job EXCEPT ![t] = Idle]
      /\ file' = file /\ latch' = latch /\ held' = held /\ seen' = seen
  BY DEF RejoinReplacer, At, Return
<1>2. f \in Frames /\ PoolType(pool) /\ Good(pool, file, j, held[t])
  BY <1>1, LatchIs, ThreadIs
<1>3. Tidy(l) /\ Linked(l) = Linked(pool.lru) \cup {f}
  BY <1>2, TidyUnpin DEF PoolType
<1> HIDE DEF l
<1>4. /\ PoolType(pool') /\ pool'.table = pool.table /\ pool'.frames = pool.frames
      /\ Linked(pool'.lru) = Linked(pool.lru) \cup {f}
  BY <1>1, <1>2, <1>3, RelinkedIs
<1>5. Good(pool', file, Idle, held[t]) /\ SameLatest(pool, file, pool', file)
  BY <1>1, <1>2, <1>4, RejoinOK
<1>6. Leaves(t, Idle, held[t])
  BY <1>1, <1>5, ThreadIs DEF Leaves
<1>7. StoreOf(pool', file') = StoreOf(pool, file)
  BY <1>1, <1>5, SameStore
<1> QED
  BY <1>1, <1>6, <1>7 DEF Shows

-----------------------------------------------------------------------------
\* The specification.

\* The pool and the file as they are opened.
LEMMA InvInit ==
    ASSUME NEW t, Threads = {t}, Init
    PROVE  IInv
<1>1. /\ DOMAIN pool = {"frames", "table", "lru"} /\ pool.lru = EmptyLru
      /\ pool.frames = [f \in Frames |-> EmptyFrame] /\ pool.table = [p \in Pages |-> NoFrame]
  BY DEF Init
<1>2. EmptyFrame \in FrameType /\ EmptyFrame.state = "Empty"
  <2>1. 0 \in 0 .. 2 * Cardinality(Threads)
    BY OneThread
  <2> QED
    BY <2>1, FirstFrame DEF EmptyFrame
<1>3. \A f \in Frames : ~Ready(pool, f)
  BY <1>1, <1>2 DEF Ready
<1>4. \A p \in Pages : ~InTable(pool, p)
  BY <1>1 DEF InTable
<1>5. PoolOK(pool)
  <2>1. PoolType(pool) /\ Linked(pool.lru) = {}
    BY <1>1, <1>2, TidyEmpty DEF PoolType
  <2> QED
    BY <1>3, <1>4, <2>1 DEF PoolOK
<1>6. FileOK(pool, file)
  <2> DEFINE disk == [q \in Positions |-> IF q < Preallocated THEN Formatted(q) ELSE Absent]
  <2>1. file = [disk |-> disk, numPages |-> Preallocated, pos |-> 0]
    BY DEF Init
  <2>2. Positions = 0 .. MaxPages + 1 /\ MaxPages \in Nat /\ Preallocated \in 0 .. MaxPages
    BY OneThread, BoundAssumption
  <2>3. \A q \in Positions : q < Preallocated => q \in Pages
    BY <2>2 DEF Pages
  <2>4. \A q \in Positions : disk[q] \in Contents \cup {Absent}
    BY <2>3, FirstValues
  <2>5. \A p \in Pages : p \in Positions
    BY OneThread
  <2>6. \A p \in Pages : p < Preallocated => disk[p] \in Contents
    BY <2>5, FirstValues
  <2>7. disk \in [Positions -> Contents \cup {Absent}]
    BY <2>4
  <2> HIDE DEF disk
  <2>8. Preallocated \in Pages \cup {MaxPages} /\ 0 \in Positions
    BY <2>2 DEF Pages
  <2>9. file \in FileType
    BY <2>1, <2>7, <2>8 DEF FileType
  <2> QED
    BY <1>4, <2>1, <2>6, <2>9 DEF FileOK
<1>7. Good(pool, file, Idle, {})
  BY <1>3, <1>4, <1>5, <1>6, Rests
<1>8. /\ latch = Nobody /\ job = [u \in Threads |-> Idle] /\ held = [u \in Threads |-> {}]
      /\ seen = [u \in Threads |-> Zeros]
  BY DEF Init
<1> QED
  BY <1>7, <1>8, FirstValues DEF IInv

\* A step leaves the thread with a call and pages that fit the pool, and shows as
\* a step of PageStore, but for a failed write.
LEMMA Step ==
    ASSUME NEW t, Threads = {t}, IInv, MaxPins <= 1, Next
    PROVE  /\ \E k, hd : Leaves(t, k, hd)
           /\ Shows(t, StoreOf(pool, file)) \/ "write" \in Faults
<1>1. CASE \E p \in Pages : FetchPage(t, p)
  BY <1>1, FetchPageStep
<1>2. CASE \E p \in Pages : FlushPage(t, p)
  BY <1>2, FlushPageStep
<1>3. CASE NewPage(t)
  BY <1>3, NewPageStep
<1>4. CASE FlushAll(t)
  BY <1>4, FlushAllStep
<1>5. CASE \E h \in held[t] : UnpinPage(t, h)
  BY <1>5, UnpinPageStep
<1>6. CASE \E h \in held[t] : Modify(t, h)
  BY <1>6, ModifyStep
<1>7. CASE \E h \in held[t], op \in {"edit", "look"} : LatchPage(t, h, op)
  BY <1>7, LatchPageStep
<1>8. CASE WaitLoaded(t) \/ LookAgain(t)
  <2>1. job[t].pc \notin {"wait", "recheck"}
    BY ThreadIs DEF Jobs, Loads, Flushes, Latched
  <2> QED
    BY <1>8, <2>1 DEF WaitLoaded, LookAgain, At
<1>9. CASE LoadSeek(t) \/ LoadRead(t) \/ LoadDone(t)
  BY <1>9, LoadSeekStep, LoadReadStep, LoadDoneStep
<1>10. CASE Allocate(t)
  BY <1>10, AllocateStep
<1>11. CASE FlushSeek(t) \/ FlushWrite(t)
  BY <1>11, FlushSeekStep, FlushWriteStep
<1>12. CASE FlushDone(t)
  BY <1>12, FlushDoneStep
<1>13. CASE AcquireLatch(t) \/ UseLatched(t) \/ UnlatchPage(t)
  BY <1>13, AcquireLatchStep, UseLatchedStep, UnlatchPageStep
<1>14. CASE ReleaseLatch(t) \/ RejoinReplacer(t)
  BY <1>14, ReleaseLatchStep, RejoinReplacerStep
<1>15. Request(t) \/ Continue(t)
  BY DEF Next
<1>16. CASE Request(t)
  BY <1>1, <1>2, <1>3, <1>4, <1>5, <1>6, <1>7, <1>16 DEF Request
<1>17. CASE Continue(t)
  BY <1>8, <1>9, <1>10, <1>11, <1>12, <1>13, <1>14, <1>17 DEF Continue
<1> QED
  BY <1>15, <1>16, <1>17

\* Every step keeps the invariant.
LEMMA InvNext ==
    ASSUME NEW t, Threads = {t}, MaxPins <= 1, IInv, [Next]_vars
    PROVE  IInv'
<1>1. CASE Next
  <2>1. PICK k, hd : Leaves(t, k, hd)
    BY <1>1, Step
  <2> QED
    BY <2>1, LeavesIInv
<1>2. CASE UNCHANGED vars
  BY <1>2 DEF vars, IInv
<1> QED
  BY <1>1, <1>2

\* The inductive invariant holds of the specification.
LEMMA Invariance ==
    ASSUME OneClient
    PROVE  Spec => []IInv
<1>1. PICK t \in Threads : Threads = {t}
  BY DEF OneClient
<1>2. MaxPins <= 1
  BY DEF OneClient
<1>3. Init => IInv
  BY <1>1, InvInit
<1>4. IInv /\ [Next]_vars => IInv'
  BY <1>1, <1>2, InvNext
<1> QED
  BY <1>3, <1>4, PTL DEF Spec

-----------------------------------------------------------------------------
\* The theorems.

\* Frames, table and file have their shapes: no count of pins goes below zero, and
\* the file is never read or written beyond the page that is being added.
THEOREM TypeCorrect ==
    ASSUME OneClient
    PROVE  Spec => []TypeOK
<1>1. PICK t \in Threads : Threads = {t}
  BY DEF OneClient
<1>2. IInv => TypeOK
  <2> SUFFICES ASSUME IInv
               PROVE  TypeOK
    OBVIOUS
  <2>1. PoolType(pool) /\ file \in FileType /\ latch \in Threads \cup {Nobody}
        /\ seen \in [Threads -> Contents]
    BY <1>1, ThreadIs
  <2> QED
    BY <2>1 DEF TypeOK, PoolType, FileType
<1> QED
  BY <1>2, Invariance, PTL

\* The page a client holds stays in the frame it was given ("Reference count; >0
\* -> not evictable"): what fails when a client keeps more pages than one holds here.
THEOREM PinnedInPlace ==
    ASSUME OneClient
    PROVE  Spec => []PinnedStays
<1>1. PICK t \in Threads : Threads = {t}
  BY DEF OneClient
<1>2. IInv => PinnedStays
  <2> SUFFICES ASSUME IInv, NEW h \in held[t]
               PROVE  pool.frames[h.frame].state = "Ready" /\ pool.frames[h.frame].page = h.page
    BY <1>1 DEF PinnedStays
  <2>1. Good(pool, file, job[t], held[t])
    BY <1>1, ThreadIs
  <2> QED
    BY <2>1, OneHandle DEF Ready
<1> QED
  BY <1>2, Invariance, PTL

\* The count of pins of a frame is that of the pins its client has, through hits,
\* loads, evictions, latches that outlive the pin, and failures.
THEOREM Pins ==
    ASSUME OneClient
    PROVE  Spec => []PinsAccounted
<1>1. PICK t \in Threads : Threads = {t}
  BY DEF OneClient
<1>2. IInv => PinsAccounted
  <2> SUFFICES ASSUME IInv, NEW f \in Frames, pool.frames[f].state = "Ready"
               PROVE  pool.frames[f].pin = Cardinality(Holders(f)) + Cardinality(Latchers(f))
    BY DEF PinsAccounted
  <2>1. pool.frames[f].pin = (IF Holds(held[t], f) THEN 1 ELSE 0)
                             + (IF Latches(job[t], f) THEN 1 ELSE 0)
    BY <1>1, ThreadIs DEF Good, PinsOK, Ready
  <2>2. Cardinality(Holders(f)) = IF Holds(held[t], f) THEN 1 ELSE 0
    <3>1. Holders(f) = IF Holds(held[t], f) THEN {t} ELSE {}
      BY <1>1 DEF Holders, Holds
    <3> QED
      BY <3>1, FS_Singleton, FS_EmptySet
  <2>3. Cardinality(Latchers(f)) = IF Latches(job[t], f) THEN 1 ELSE 0
    <3>1. Latchers(f) = IF Latches(job[t], f) THEN {t} ELSE {}
      BY <1>1 DEF Latchers, Latches, Latched
    <3> QED
      BY <3>1, FS_Singleton, FS_EmptySet
  <2> QED
    BY <2>1, <2>2, <2>3
<1> QED
  BY <1>2, Invariance, PTL

\* Every page that nobody has pinned can be evicted, or is about to be: the pool
\* never runs out of frames for good.
THEOREM FramesKept ==
    ASSUME OneClient
    PROVE  Spec => []NoFrameLost
<1>1. PICK t \in Threads : Threads = {t}
  BY DEF OneClient
<1>2. IInv => NoFrameLost
  <2> SUFFICES ASSUME IInv, NEW f \in Frames, pool.frames[f].state = "Ready", pool.frames[f].pin = 0
               PROVE  \/ f \in Linked(pool.lru)
                      \/ job[t].op \in {"fetch", "new"} /\ Flushing(t, f)
                      \/ job[t].pc = "rejoin" /\ job[t].frame = f
    BY <1>1 DEF NoFrameLost
  <2> QED
    BY <1>1, ThreadIs DEF Good, KeptOK, Ready, Flushing, Flushes
<1> QED
  BY <1>2, Invariance, PTL

\* What is not dirty is on disk, so that dropping it loses nothing: FlushPage and
\* FlushAll that fail leave the page dirty.
THEOREM CleanOnDisk ==
    ASSUME OneClient
    PROVE  Spec => []CleanIsOnDisk
<1>1. PICK t \in Threads : Threads = {t}
  BY DEF OneClient
<1>2. IInv => CleanIsOnDisk
  <2> SUFFICES ASSUME IInv, NEW p \in Pages, Cached(p)
               PROVE  \/ pool.frames[pool.table[p]].dirty
                      \/ file.disk[p] = pool.frames[pool.table[p]].content
                      \/ Flushing(t, pool.table[p])
                      \/ \E h \in held[t] : h.page = p /\ h.wrote
    BY <1>1 DEF CleanIsOnDisk
  <2>1. InTable(pool, p)
    BY DEF InTable, Cached
  <2> QED
    BY <1>1, <2>1, ThreadIs DEF Good, CleanOK, FrameOf, Flushing, Unwritten
<1> QED
  BY <1>2, Invariance, PTL

\* A flush writes what the frame holds ("protects page_ content during I/O").
THEOREM NoLateFlush ==
    ASSUME OneClient
    PROVE  Spec => []FlushesCurrent
<1>1. PICK t \in Threads : Threads = {t}
  BY DEF OneClient
<1>2. IInv => FlushesCurrent
  <2> SUFFICES ASSUME IInv, job[t].pc = "flushWrite"
               PROVE  job[t].buffer = pool.frames[job[t].frame].content
    BY <1>1 DEF FlushesCurrent, At
  <2> QED
    BY <1>1, ThreadIs DEF Good, CallOK, FlushOK
<1> QED
  BY <1>2, Invariance, PTL

\* Caching does not show to a single client, whatever is evicted, flushed, or
\* cannot be read: it sees one array of pages, always in their latest versions.
\* Only a write that fails in an eviction can break that.
THEOREM Refinement ==
    ASSUME OneClient, "write" \notin Faults
    PROVE  Spec => IsPageStore
<1>1. PICK t \in Threads : Threads = {t}
  BY DEF OneClient
<1>2. MaxPins <= 1
  BY DEF OneClient
<1> DEFINE st == [p \in Pages |-> Current(p)]
<1>3. st = StoreOf(pool, file) /\ st' = StoreOf(pool', file')
  <2>1. st = StoreOf(pool, file)
    BY DEF StoreOf, Latest, Current, Cached, InTable, FrameOf
  <2>2. st' = StoreOf(pool', file')
    BY DEF StoreOf, Latest, Current, Cached, InTable, FrameOf
  <2> QED
    BY <2>1, <2>2
<1>4. Init => Store!Init
  <2> SUFFICES ASSUME Init
               PROVE  Store!Init
    OBVIOUS
  <2>1. \A p \in Pages : pool.table[p] = NoFrame
    BY DEF Init
  <2>2. \A p \in Pages : p < file.numPages => file.disk[p] = Formatted(p)
    BY <1>1, OneThread DEF Init
  <2>3. \A p \in Pages : st[p] \in {Zeros, Formatted(p)}
    BY <2>1, <2>2 DEF Current, Cached
  <2>4. seen = [u \in Threads |-> Zeros]
    BY DEF Init
  <2> QED
    BY <2>3, <2>4 DEF Store!Init, Store!Fresh, Formatted
<1>5. IInv /\ [Next]_vars => [Store!Next]_(Store!vars)
  <2> SUFFICES ASSUME IInv, [Next]_vars
               PROVE  [Store!Next]_(Store!vars)
    OBVIOUS
  <2>1. CASE UNCHANGED vars
    BY <2>1 DEF vars, Store!vars, Current, Cached
  <2>2. CASE Next
    <3>1. Shows(t, st)
      BY <1>1, <1>2, <1>3, <2>2, Step
    <3> HIDE DEF st
    <3>2. \/ st' = st /\ seen' = seen
          \/ \E p \in Pages : st' = st /\ seen' = [seen EXCEPT ![t] = st[p]]
          \/ \E p \in Pages : /\ st[p] = Zeros /\ st' = [st EXCEPT ![p] = Formatted(p)]
                              /\ seen' = [seen EXCEPT ![t] = Formatted(p)]
          \/ \E p \in Pages : /\ st[p] # Zeros /\ st' = [st EXCEPT ![p].ver = @ + 1]
                              /\ seen' = seen
      BY <1>3, <3>1 DEF Shows
    <3>3. CASE st' = st /\ seen' = seen
      BY <3>3 DEF Store!vars, st
    <3>4. ASSUME NEW p \in Pages, st' = st, seen' = [seen EXCEPT ![t] = st[p]]
          PROVE  Store!Next
      <4>1. Store!Obtain(t, p)
        BY <3>4 DEF Store!Obtain, st
      <4> QED
        BY <1>1, <4>1 DEF Store!Next
    <3>5. ASSUME NEW p \in Pages, st[p] = Zeros, st' = [st EXCEPT ![p] = Formatted(p)],
                 seen' = [seen EXCEPT ![t] = Formatted(p)]
          PROVE  Store!Next
      <4>1. Store!Create(t, p)
        BY <3>5 DEF Store!Create, Store!Fresh, Formatted, st
      <4> QED
        BY <1>1, <4>1 DEF Store!Next
    <3>6. ASSUME NEW p \in Pages, st[p] # Zeros, st' = [st EXCEPT ![p].ver = @ + 1], seen' = seen
          PROVE  Store!Next
      <4>1. Store!Change(p)
        BY <3>6 DEF Store!Change, st
      <4> QED
        BY <4>1 DEF Store!Next
    <3> QED
      BY <3>2, <3>3, <3>4, <3>5, <3>6
  <2> QED
    BY <2>1, <2>2
<1> QED
  BY <1>4, <1>5, Invariance, PTL DEF Spec, IsPageStore, Store!Spec

\* What PageStore keeps: a page only grows older, and nobody has seen a later version.
Keeps(st) ==
    /\ \A p \in Pages : st[p] = Zeros \/ st[p] \in [page : {p}, ver : Nat \ {0}]
    /\ seen \in [Threads -> {Zeros} \cup [page : Pages, ver : Nat \ {0}]]
    /\ \A t \in Threads : seen[t] # Zeros =>
          st[seen[t].page] # Zeros /\ st[seen[t].page].ver >= seen[t].ver

\* What an array of pages does not show, its clients cannot lose.
LEMMA StoreKeeps == IsPageStore => []NothingLost
<1> DEFINE st == [p \in Pages |-> Current(p)]
<1>1. Zeros \notin [page : Pages, ver : Nat \ {0}]
  BY DEF Zeros
<1>2. Store!Init => Keeps(st)
  <2> SUFFICES ASSUME Store!Init
               PROVE  Keeps(st)
    OBVIOUS
  <2> QED
    BY <1>1 DEF Store!Init, Store!Fresh, Keeps
<1>3. Keeps(st) /\ [Store!Next]_(Store!vars) => Keeps(st)'
  <2> SUFFICES ASSUME Keeps(st), [Store!Next]_(Store!vars)
               PROVE  Keeps(st)'
    OBVIOUS
  <2> DEFINE st2 == st'
             Versions(p) == [page : {p}, ver : Nat \ {0}]
  <2>0. Keeps(st)' <=>
           /\ \A p \in Pages : st2[p] = Zeros \/ st2[p] \in Versions(p)
           /\ seen' \in [Threads -> {Zeros} \cup [page : Pages, ver : Nat \ {0}]]
           /\ \A t \in Threads : seen'[t] # Zeros =>
                 st2[seen'[t].page] # Zeros /\ st2[seen'[t].page].ver >= seen'[t].ver
    BY DEF Keeps
  <2>1. CASE UNCHANGED Store!vars
    BY <2>0, <2>1 DEF Store!vars, Keeps
  <2>2. ASSUME NEW p \in Pages, Store!Change(p)
        PROVE  Keeps(st)'
    <3>1. st[p] # Zeros /\ st2 = [st EXCEPT ![p].ver = @ + 1] /\ seen' = seen
      BY <2>2 DEF Store!Change
    <3>2. DOMAIN st = Pages
      OBVIOUS
    <3> HIDE DEF st, st2
    <3>3. st[p] \in Versions(p)
      BY <3>1 DEF Keeps
    <3>4. /\ st2[p] \in Versions(p) /\ st2[p].ver >= st[p].ver
          /\ \A q \in Pages : q # p => st2[q] = st[q]
      BY <3>1, <3>2, <3>3
    <3>5. st2[p] # Zeros
      BY <1>1, <3>4
    <3>6. ASSUME NEW t \in Threads, seen[t] # Zeros
          PROVE  st2[seen[t].page] # Zeros /\ st2[seen[t].page].ver >= seen[t].ver
      <4>1. seen[t].page \in Pages /\ seen[t].ver \in Nat
        BY <3>6 DEF Keeps
      <4>2. st[seen[t].page] # Zeros /\ st[seen[t].page].ver >= seen[t].ver
        BY <3>6 DEF Keeps
      <4> QED
        BY <3>3, <3>4, <3>5, <4>1, <4>2
    <3> QED
      BY <2>0, <3>1, <3>4, <3>6 DEF Keeps
  <2>3. ASSUME NEW p \in Pages, NEW t \in Threads, Store!Obtain(t, p)
        PROVE  Keeps(st)'
    <3>1. seen' = [seen EXCEPT ![t] = st[p]] /\ st2 = st
      BY <2>3 DEF Store!Obtain
    <3> HIDE DEF st, st2
    <3>2. st[p] = Zeros \/ (st[p] \in Versions(p) /\ st[p].page = p /\ st[p].ver \in Nat)
      BY DEF Keeps
    <3> QED
      BY <2>0, <3>1, <3>2 DEF Keeps
  <2>4. ASSUME NEW p \in Pages, NEW t \in Threads, Store!Create(t, p)
        PROVE  Keeps(st)'
    <3>1. st[p] = Zeros /\ st2 = [st EXCEPT ![p] = Formatted(p)]
          /\ seen' = [seen EXCEPT ![t] = Formatted(p)]
      BY <2>4 DEF Store!Create, Store!Fresh, Formatted
    <3>2. Formatted(p) \in Versions(p) /\ Formatted(p) # Zeros /\ Formatted(p).page = p
          /\ Formatted(p).ver = 1
      BY <1>1 DEF Formatted
    <3>3. DOMAIN st = Pages
      OBVIOUS
    <3> HIDE DEF st, st2
    <3>4. st2[p] = Formatted(p) /\ \A q \in Pages : q # p => st2[q] = st[q]
      BY <3>1, <3>3
    <3>5. ASSUME NEW u \in Threads, seen'[u] # Zeros
          PROVE  st2[seen'[u].page] # Zeros /\ st2[seen'[u].page].ver >= seen'[u].ver
      <4>1. CASE u = t
        BY <3>1, <3>2, <3>4, <4>1 DEF Keeps
      <4>2. CASE u # t
        <5>1. seen'[u] = seen[u]
          BY <3>1, <4>2 DEF Keeps
        <5>2. seen[u].page \in Pages /\ st[seen[u].page] # Zeros /\ st[seen[u].page].ver >= seen[u].ver
          BY <3>5, <5>1 DEF Keeps
        <5>3. seen[u].page # p
          BY <3>1, <5>2
        <5> QED
          BY <3>4, <5>1, <5>2, <5>3
      <4> QED
        BY <4>1, <4>2
    <3>6. \A q \in Pages : st2[q] = Zeros \/ st2[q] \in Versions(q)
      BY <3>2, <3>4 DEF Keeps
    <3>7. seen' \in [Threads -> {Zeros} \cup [page : Pages, ver : Nat \ {0}]]
      BY <3>1, <3>2 DEF Keeps
    <3> QED
      BY <2>0, <3>5, <3>6, <3>7
  <2> QED
    BY <2>1, <2>2, <2>3, <2>4 DEF Store!Next
<1>4. Keeps(st) => NothingLost
  <2> SUFFICES ASSUME Keeps(st), NEW t \in Threads, seen[t] # Zeros
               PROVE  Current(seen[t].page).ver >= seen[t].ver
    BY DEF NothingLost
  <2>1. seen[t].page \in Pages
    BY DEF Keeps
  <2> QED
    BY <2>1 DEF Keeps
<1> HIDE DEF st
<1> QED
  BY <1>2, <1>3, <1>4, PTL DEF IsPageStore, Store!Spec

\* Nothing a single client was given is lost, through evictions, failed reads, failed
\* checkpoints and failed allocations; a write that fails in an eviction loses it.
THEOREM ChangesStay ==
    ASSUME OneClient, "write" \notin Faults
    PROVE  Spec => []NothingLost
BY Refinement, StoreKeeps, PTL

-----------------------------------------------------------------------------
\* Many threads on a pool that holds the whole file: it was created with this pool,
\* and has no more pages than there are frames.  Nothing is evicted or loaded, and
\* what is left of the pool is its latches, pins and flushes.
Resident == Preallocated = 0 /\ MaxPages <= PoolSize /\ IsFiniteSet(Threads)

One(b) == IF b THEN 1 ELSE 0

\* NewPage takes the lowest empty frame: page p is in frame p.
Resides(s, d) ==
    /\ PoolType(s) /\ d \in FileType
    /\ \A f \in Frames : f >= d.numPages => s.frames[f].state = "Empty"
    /\ \A f \in Frames : f < d.numPages =>
          Ready(s, f) /\ s.frames[f].page = f /\ s.frames[f].content.page = f
    /\ \A p \in Pages : s.table[p] = IF p < d.numPages THEN p ELSE NoFrame
    /\ \A f \in Linked(s.lru) : f < d.numPages

\* A call that has the frame latch exclusively.
Owns(j) == j.pc = "flushWrite" \/ (j.op = "edit" /\ j.pc \in {"use", "unlatch", "release"})

Writes(j) == j.pc \in {"allocate", "flushWrite"}

Rejoins(j, f) == j.pc = "rejoin" /\ j.frame = f

CallFits(s, d, l, t, j) ==
    /\ j.pc \notin Loads /\ (j.pc = "idle" => j = Idle)
    /\ j.pc = "allocate" <=> l = t
    /\ j.pc = "allocate" => j.op = "new" /\ j.page \in Pages /\ j.page = d.numPages
    /\ j.pc \in Flushes =>
          /\ j.op \in {"flush", "flushAll"} /\ j.frame \in Frames /\ j.frame < d.numPages
          /\ j.pid \in Pages
    /\ j.pc \in Latched \cup {"rejoin"} =>
          /\ j.op \in {"edit", "look"} /\ j.page \in Pages /\ j.page < d.numPages
          /\ j.frame = j.page
    /\ Owns(j) => s.frames[j.frame].writer = t
    /\ j.pc = "flushWrite" /\ "modify" \notin Ops => j.buffer = s.frames[j.frame].content

HandlesFit(d, hd) ==
    /\ \A h \in hd : h.frame = h.page /\ h.page < d.numPages
    /\ \A h, k \in hd : h.page = k.page => h = k

\* The content x was handed out, and none is older now.
Saw(s, d, x) == x # Zeros => x.page < d.numPages /\ x.ver <= s.frames[x.page].content.ver

Fits(s, d, l, t, j, hd, x) ==
    /\ j \in Jobs /\ hd \in SUBSET Handles /\ x \in Contents
    /\ CallFits(s, d, l, t, j) /\ HandlesFit(d, hd) /\ Saw(s, d, x)

Pinned(s, jb, hd) ==
    \A f \in Frames :
        s.frames[f].pin = Cardinality({t \in Threads : Holds(hd[t], f)})
                          + Cardinality({t \in Threads : Latches(jb[t], f)})

Kept(s, d, jb) ==
    \A f \in Frames : f < d.numPages /\ s.frames[f].pin = 0 =>
        f \in Linked(s.lru) \/ \E t \in Threads : Rejoins(jb[t], f)

\* Between a seek and its write the position moves at most once per thread.
WithinReach(d, jb) ==
    d.pos + Cardinality({t \in Threads : Writes(jb[t])}) <= MaxPages + Cardinality(Threads)

ResidentInv ==
    /\ Resides(pool, file) /\ latch \in Threads \cup {Nobody}
    /\ job \in [Threads -> Jobs] /\ held \in [Threads -> SUBSET Handles]
    /\ seen \in [Threads -> Contents]
    /\ \A t \in Threads : Fits(pool, file, latch, t, job[t], held[t], seen[t])
    /\ Pinned(pool, job, held) /\ Kept(pool, file, job) /\ WithinReach(file, job)

-----------------------------------------------------------------------------
\* Counting threads.

\* Two sets of threads that differ in t only.
LEMMA Recount ==
    ASSUME IsFiniteSet(Threads), NEW t \in Threads, NEW A \in SUBSET Threads, NEW B \in SUBSET Threads,
           \A u \in Threads : u # t => (u \in A <=> u \in B)
    PROVE  /\ Cardinality(A) \in Nat /\ Cardinality(Threads) \in Nat
           /\ Cardinality(B) = Cardinality(A) + One(t \in B) - One(t \in A)
           /\ Cardinality(A) + One(t \notin A) <= Cardinality(Threads)
           /\ One(t \in A) <= Cardinality(A)
<1>1. IsFiniteSet(A) /\ IsFiniteSet(B) /\ IsFiniteSet(A \ {t})
  BY FS_Subset, FS_RemoveElement
<1>2. Cardinality(A) \in Nat /\ Cardinality(Threads) \in Nat /\ Cardinality(A \ {t}) \in Nat
  BY <1>1, FS_CardinalityType
<1>3. Cardinality(A) = Cardinality(A \ {t}) + One(t \in A)
  BY <1>1, <1>2, FS_RemoveElement DEF One
<1>4. Cardinality(B) = Cardinality(A \ {t}) + One(t \in B)
  <2>1. B \ {t} = A \ {t}
    OBVIOUS
  <2> QED
    BY <1>1, <1>2, <2>1, FS_RemoveElement, FS_CardinalityType DEF One
<1>5. Cardinality(A \ {t}) + 1 <= Cardinality(Threads)
  <2>1. Cardinality(Threads \ {t}) = Cardinality(Threads) - 1
    BY FS_RemoveElement
  <2>2. Cardinality(A \ {t}) <= Cardinality(Threads \ {t})
    BY FS_RemoveElement, FS_Subset
  <2> QED
    BY <1>2, <2>1, <2>2
<1> QED
  BY <1>2, <1>3, <1>4, <1>5 DEF One

\* Numbers of such a pool.
LEMMA ResidentNumbers ==
    ASSUME Resident
    PROVE  /\ Pages \subseteq Frames /\ Frames \subseteq Nat /\ Cardinality(Threads) \in Nat
           /\ MaxPages \in Nat /\ MaxPages <= PoolSize /\ Pages \cup {MaxPages} \subseteq 0 .. MaxPages
           /\ NoFrame \notin Frames /\ NoPage \notin Pages
           /\ \A f \in Frames, n \in Pages \cup {MaxPages} : f < n => f \in Pages
<1>1. Cardinality(Threads) \in Nat
  BY FS_CardinalityType DEF Resident
<1>2. /\ Pages \subseteq Frames /\ Frames \subseteq Nat
      /\ MaxPages \in Nat /\ MaxPages <= PoolSize /\ Pages \cup {MaxPages} \subseteq 0 .. MaxPages
      /\ \A f \in Frames, n \in Pages \cup {MaxPages} : f < n => f \in Pages
  BY PoolSizeAssumption, BoundAssumption DEF Pages, Frames, Resident
<1> QED
  BY <1>1, <1>2, Numbers

\* What the invariant says of a pool.
LEMMA ResidesIs ==
    ASSUME Resident, NEW s, NEW d, Resides(s, d)
    PROVE  /\ PoolType(s) /\ d \in FileType /\ d.numPages \in Pages \cup {MaxPages}
           /\ d.numPages \in Nat /\ d.numPages <= MaxPages /\ d.pos \in Positions
           /\ \A f \in Frames : s.frames[f] \in FrameType /\ s.frames[f].content \in Contents
                                /\ s.frames[f].writer \in Threads \cup {Nobody}
                                /\ s.frames[f].dirty \in BOOLEAN
                                /\ s.frames[f].pin \in Nat
           /\ \A f \in Frames : f < d.numPages =>
                 f \in Pages /\ s.table[f] = f /\ InTable(s, f) /\ s.frames[f].content # Zeros
                 /\ s.frames[f].content.page = f /\ s.frames[f].content.ver \in 1 .. MaxVersion
                 /\ s.frames[f].page = f /\ Ready(s, f)
           /\ \A p \in Pages : p >= d.numPages => ~InTable(s, p)
           /\ Linked(s.lru) \subseteq Frames
<1>1. PoolType(s) /\ d \in FileType /\ d.numPages \in Pages \cup {MaxPages} /\ d.pos \in Positions
  BY DEF Resides, FileType
<1>2. d.numPages \in Nat /\ d.numPages <= MaxPages
  BY <1>1, ResidentNumbers
<1>3. ASSUME NEW f \in Frames
      PROVE  /\ s.frames[f] \in FrameType /\ s.frames[f].content \in Contents
             /\ s.frames[f].writer \in Threads \cup {Nobody} /\ s.frames[f].dirty \in BOOLEAN
             /\ s.frames[f].pin \in Nat
  <2>1. s.frames[f] \in FrameType
    BY <1>1 DEF PoolType
  <2>2. s.frames[f].pin \in 0 .. 2 * Cardinality(Threads)
    BY <2>1 DEF FrameType
  <2>3. s.frames[f].pin \in Nat
    BY <2>2, ResidentNumbers
  <2> QED
    BY <2>1, <2>3 DEF FrameType
<1>4. ASSUME NEW f \in Frames, f < d.numPages
      PROVE  /\ f \in Pages /\ s.table[f] = f /\ InTable(s, f) /\ s.frames[f].content # Zeros
             /\ s.frames[f].content.page = f /\ s.frames[f].content.ver \in 1 .. MaxVersion
             /\ s.frames[f].page = f /\ Ready(s, f)
  <2>1. f \in Pages /\ f # NoPage
    BY <1>1, <1>4, ResidentNumbers
  <2>2. s.frames[f].content.page = f /\ s.frames[f].page = f /\ Ready(s, f) /\ s.table[f] = f
    BY <1>4, <2>1 DEF Resides
  <2>3. s.frames[f].content # Zeros
    BY <2>1, <2>2 DEF Zeros
  <2>4. s.frames[f].content \in Contents
    BY <1>3
  <2>5. s.frames[f].content.ver \in 1 .. MaxVersion
    BY <2>3, <2>4 DEF Contents
  <2>6. InTable(s, f)
    BY <2>2, ResidentNumbers DEF InTable
  <2> QED
    BY <2>1, <2>2, <2>3, <2>5, <2>6
<1>5. \A p \in Pages : p >= d.numPages => ~InTable(s, p)
  BY <1>2, ResidentNumbers DEF Resides, InTable
<1>6. Linked(s.lru) \subseteq Frames
  BY <1>1 DEF PoolType, Tidy, LruOK, LruRecords
<1> QED
  BY <1>1, <1>2, <1>3, <1>4, <1>5, <1>6

\* What was seen of a page was seen before all that comes later.
LEMMA StillSaw ==
    ASSUME Resident, NEW r, NEW e, NEW s, NEW d, Resides(r, e), Resides(s, d), e.numPages <= d.numPages,
           \A f \in Frames : f < e.numPages => r.frames[f].content.ver <= s.frames[f].content.ver,
           NEW x \in Contents, Saw(r, e, x)
    PROVE  Saw(s, d, x)
<1> SUFFICES ASSUME x # Zeros
             PROVE  x.page < d.numPages /\ x.ver <= s.frames[x.page].content.ver
  BY DEF Saw
<1>1. x.page \in Pages /\ x.ver \in Int /\ x.page < e.numPages /\ x.ver <= r.frames[x.page].content.ver
  BY BoundAssumption DEF Saw, Contents
<1>2. d.numPages \in Nat /\ e.numPages \in Nat
  BY ResidesIs
<1>3. x.page \in Frames /\ x.page < d.numPages
  BY <1>1, <1>2, ResidentNumbers
<1>4. r.frames[x.page].content.ver \in Int /\ s.frames[x.page].content.ver \in Int
  BY <1>1, <1>3, ResidesIs, BoundAssumption
<1>5. r.frames[x.page].content.ver <= s.frames[x.page].content.ver
  BY <1>1, <1>3
<1> QED
  BY <1>1, <1>3, <1>4, <1>5

\* Threads other than the one that moves find what they had.
LEMMA OthersFit ==
    ASSUME Resident, ResidentInv, NEW t \in Threads, NEW u \in Threads, u # t,
           NEW s, NEW d, NEW l, Resides(s, d), l = latch \/ {l, latch} \subseteq {Nobody, t},
           file.numPages <= d.numPages, d.numPages = file.numPages \/ latch = t,
           \A f \in Frames : f < file.numPages =>
              /\ pool.frames[f].content.ver <= s.frames[f].content.ver
              /\ \/ s.frames[f].writer = pool.frames[f].writer
                 \/ pool.frames[f].writer \in {Nobody, t}
              /\ \/ s.frames[f].content = pool.frames[f].content
                 \/ pool.frames[f].writer = t \/ "modify" \in Ops
    PROVE  Fits(s, d, l, u, job[u], held[u], seen[u])
<1> DEFINE j == job[u]
<1>1. Fits(pool, file, latch, u, j, held[u], seen[u])
  BY DEF ResidentInv
<1>2. CallFits(pool, file, latch, u, j) /\ HandlesFit(file, held[u]) /\ Saw(pool, file, seen[u])
      /\ j \in Jobs /\ held[u] \in SUBSET Handles /\ seen[u] \in Contents
  BY <1>1 DEF Fits
<1>3. Resides(pool, file) /\ file.numPages \in Nat /\ d.numPages \in Nat
  BY ResidesIs DEF ResidentInv
<1>4. u # Nobody
  BY BoundAssumption
<1> HIDE DEF j
<1>5. l = u <=> latch = u
  BY <1>4
<1>6. d.numPages = file.numPages \/ j.pc # "allocate"
  BY <1>2 DEF CallFits
<1>7. ASSUME NEW f \in Frames, f < file.numPages, pool.frames[f].writer = u
      PROVE  /\ s.frames[f].writer = u
             /\ "modify" \notin Ops => s.frames[f].content = pool.frames[f].content
  BY <1>4, <1>7
<1>8. ASSUME Owns(j)
      PROVE  j.frame \in Frames /\ j.frame < file.numPages /\ pool.frames[j.frame].writer = u
  <2>1. pool.frames[j.frame].writer = u
    BY <1>2, <1>8 DEF CallFits
  <2>2. CASE j.pc \in Flushes
    BY <1>2, <2>1, <2>2 DEF CallFits
  <2>3. CASE j.pc \in Latched
    BY <1>2, <2>1, <2>3, ResidentNumbers DEF CallFits
  <2> QED
    BY <1>8, <2>2, <2>3 DEF Owns, Flushes, Latched
<1>9. CallFits(s, d, l, u, j)
  <2>1. Owns(j) => s.frames[j.frame].writer = u
    BY <1>7, <1>8
  <2>2. j.pc = "flushWrite" /\ "modify" \notin Ops => j.buffer = s.frames[j.frame].content
    BY <1>2, <1>7, <1>8 DEF CallFits, Owns
  <2>3. j.pc = "allocate" <=> l = u
    BY <1>2, <1>5 DEF CallFits
  <2>4. j.pc = "allocate" => j.op = "new" /\ j.page \in Pages /\ j.page = d.numPages
    BY <1>2, <1>6 DEF CallFits
  <2>5. j.pc \in Flushes => /\ j.op \in {"flush", "flushAll"} /\ j.frame \in Frames
                            /\ j.frame < d.numPages /\ j.pid \in Pages
    <3> SUFFICES ASSUME j.pc \in Flushes
                 PROVE  /\ j.op \in {"flush", "flushAll"} /\ j.frame \in Frames
                        /\ j.frame < d.numPages /\ j.pid \in Pages
      OBVIOUS
    <3>1. /\ j.op \in {"flush", "flushAll"} /\ j.frame \in Frames
          /\ j.frame < file.numPages /\ j.pid \in Pages
      BY <1>2 DEF CallFits
    <3> QED
      BY <1>3, <3>1, ResidentNumbers
  <2>6. j.pc \in Latched \cup {"rejoin"} =>
           /\ j.op \in {"edit", "look"} /\ j.page \in Pages /\ j.page < d.numPages
           /\ j.frame = j.page
    <3> SUFFICES ASSUME j.pc \in Latched \cup {"rejoin"}
                 PROVE  /\ j.op \in {"edit", "look"} /\ j.page \in Pages /\ j.page < d.numPages
                        /\ j.frame = j.page
      OBVIOUS
    <3>1. /\ j.op \in {"edit", "look"} /\ j.page \in Pages /\ j.page < file.numPages
          /\ j.frame = j.page
      BY <1>2 DEF CallFits
    <3> QED
      BY <1>3, <3>1, ResidentNumbers
  <2>7. j.pc \notin Loads /\ (j.pc = "idle" => j = Idle)
    BY <1>2 DEF CallFits
  <2> QED
    BY <2>1, <2>2, <2>3, <2>4, <2>5, <2>6, <2>7 DEF CallFits
<1>10. HandlesFit(d, held[u])
  <2>1. ASSUME NEW h \in held[u]
        PROVE  h.frame = h.page /\ h.page < d.numPages
    <3>1. h.page \in Pages /\ h.frame = h.page /\ h.page < file.numPages
      BY <1>2 DEF HandlesFit, Handles
    <3> QED
      BY <1>3, <3>1, ResidentNumbers
  <2> QED
    BY <1>2, <2>1 DEF HandlesFit
<1>11. Saw(s, d, seen[u])
  <2>1. \A f \in Frames : f < file.numPages =>
           pool.frames[f].content.ver <= s.frames[f].content.ver
    OBVIOUS
  <2> QED
    BY <1>2, <1>3, <2>1, StillSaw
<1> QED
  BY <1>2, <1>9, <1>10, <1>11 DEF Fits, j

-----------------------------------------------------------------------------
\* The steps.

\* Thread t is left with call j, the pages hd and the content x it saw last.
Turns(t, j, hd, x) ==
    /\ job' = [job EXCEPT ![t] = j]
    /\ held' = [held EXCEPT ![t] = hd]
    /\ seen' = [seen EXCEPT ![t] = x]

\* It has the mutex or nobody has, unless it leaves it alone.
Locks(t) == latch' = latch \/ {latch', latch} \subseteq {Nobody, t}

\* The file position it leaves behind.
Reaches(t, j) ==
    \/ file'.pos <= MaxPages
    \/ file'.pos + One(Writes(j)) <= file.pos + One(Writes(job[t]))

\* The pins of frame f, after a step of t that leaves n of them.
Repins(t, j, hd, f, n) ==
    n = pool.frames[f].pin + One(Holds(hd, f)) - One(Holds(held[t], f))
                           + One(Latches(j, f)) - One(Latches(job[t], f))

\* The invariant holds again if the thread keeps it for itself.
LEMMA Turned ==
    ASSUME Resident, ResidentInv, NEW t \in Threads, NEW j, NEW hd, NEW x, Turns(t, j, hd, x),
           Locks(t), Reaches(t, j), Resides(pool', file'),
           Fits(pool', file', latch', t, j, hd, x),
           file.numPages <= file'.numPages, file'.numPages = file.numPages \/ latch = t,
           \A f \in Frames : f < file.numPages =>
              /\ pool.frames[f].content.ver <= pool'.frames[f].content.ver
              /\ \/ pool'.frames[f].writer = pool.frames[f].writer
                 \/ pool.frames[f].writer \in {Nobody, t}
              /\ \/ pool'.frames[f].content = pool.frames[f].content
                 \/ pool.frames[f].writer = t \/ "modify" \in Ops,
           \A f \in Frames : Repins(t, j, hd, f, pool'.frames[f].pin),
           Linked(pool.lru) \subseteq Linked(pool'.lru),
           \A f \in Frames : f < file'.numPages /\ pool'.frames[f].pin = 0 =>
              \/ f \in Linked(pool'.lru) \/ Rejoins(j, f)
              \/ f < file.numPages /\ pool.frames[f].pin = 0 /\ ~Rejoins(job[t], f)
    PROVE  ResidentInv'
<1>1. /\ job \in [Threads -> Jobs] /\ held \in [Threads -> SUBSET Handles]
      /\ seen \in [Threads -> Contents] /\ latch \in Threads \cup {Nobody}
      /\ Resides(pool, file)
  BY DEF ResidentInv
<1>2. j \in Jobs /\ hd \in SUBSET Handles /\ x \in Contents
  BY DEF Fits
<1>3. /\ job' \in [Threads -> Jobs] /\ held' \in [Threads -> SUBSET Handles]
      /\ seen' \in [Threads -> Contents] /\ latch' \in Threads \cup {Nobody}
      /\ job'[t] = j /\ held'[t] = hd /\ seen'[t] = x
      /\ \A u \in Threads : u # t => job'[u] = job[u] /\ held'[u] = held[u] /\ seen'[u] = seen[u]
  BY <1>1, <1>2 DEF Turns, Locks
<1>4. \A u \in Threads : Fits(pool', file', latch', u, job'[u], held'[u], seen'[u])
  <2>1. ASSUME NEW u \in Threads, u # t
        PROVE  Fits(pool', file', latch', u, job[u], held[u], seen[u])
    BY <2>1, OthersFit DEF Locks
  <2> QED
    BY <1>3, <2>1
<1>5. Pinned(pool', job', held')
  <2> SUFFICES ASSUME NEW f \in Frames
               PROVE  pool'.frames[f].pin = Cardinality({u \in Threads : Holds(held'[u], f)})
                                            + Cardinality({u \in Threads : Latches(job'[u], f)})
    BY DEF Pinned
  <2> DEFINE A == {u \in Threads : Holds(held[u], f)}
             B == {u \in Threads : Holds(held'[u], f)}
             C == {u \in Threads : Latches(job[u], f)}
             D == {u \in Threads : Latches(job'[u], f)}
  <2>1. pool.frames[f].pin = Cardinality(A) + Cardinality(C)
    BY DEF ResidentInv, Pinned
  <2>2. A \in SUBSET Threads /\ B \in SUBSET Threads /\ \A u \in Threads : u # t => (u \in A <=> u \in B)
    BY <1>3
  <2>3. C \in SUBSET Threads /\ D \in SUBSET Threads /\ \A u \in Threads : u # t => (u \in C <=> u \in D)
    BY <1>3
  <2>4. /\ One(t \in A) = One(Holds(held[t], f)) /\ One(t \in B) = One(Holds(hd, f))
        /\ One(t \in C) = One(Latches(job[t], f)) /\ One(t \in D) = One(Latches(j, f))
    BY <1>3 DEF One
  <2> HIDE DEF A, B, C, D
  <2>5. Cardinality(B) = Cardinality(A) + One(t \in B) - One(t \in A) /\ Cardinality(A) \in Nat
    BY <2>2, Recount DEF Resident
  <2>6. Cardinality(D) = Cardinality(C) + One(t \in D) - One(t \in C) /\ Cardinality(C) \in Nat
    BY <2>3, Recount DEF Resident
  <2>7. Repins(t, j, hd, f, pool'.frames[f].pin)
    OBVIOUS
  <2>8. pool'.frames[f].pin = Cardinality(B) + Cardinality(D)
    BY <2>1, <2>4, <2>5, <2>6, <2>7 DEF Repins, One
  <2> QED
    BY <2>8 DEF B, D
<1>6. Kept(pool', file', job')
  <2> SUFFICES ASSUME NEW f \in Frames, f < file'.numPages, pool'.frames[f].pin = 0,
                      f \notin Linked(pool'.lru), ~Rejoins(j, f)
               PROVE  \E u \in Threads : Rejoins(job'[u], f)
    BY <1>3 DEF Kept
  <2>1. f < file.numPages /\ pool.frames[f].pin = 0 /\ ~Rejoins(job[t], f) /\ f \notin Linked(pool.lru)
    OBVIOUS
  <2>2. PICK u \in Threads : Rejoins(job[u], f)
    BY <2>1 DEF ResidentInv, Kept
  <2> QED
    BY <1>3, <2>1, <2>2
<1>7. WithinReach(file', job')
  <2> DEFINE A == {u \in Threads : Writes(job[u])}
             B == {u \in Threads : Writes(job'[u])}
  <2>1. A \in SUBSET Threads /\ B \in SUBSET Threads /\ \A u \in Threads : u # t => (u \in A <=> u \in B)
    BY <1>3
  <2>2. One(t \in A) = One(Writes(job[t])) /\ One(t \in B) = One(Writes(j))
    BY <1>3 DEF One
  <2>3. file.pos + Cardinality(A) <= MaxPages + Cardinality(Threads)
    BY DEF ResidentInv, WithinReach
  <2> HIDE DEF A, B
  <2>4. /\ Cardinality(B) = Cardinality(A) + One(t \in B) - One(t \in A)
        /\ Cardinality(A) \in Nat /\ Cardinality(Threads) \in Nat
    BY <2>1, Recount DEF Resident
  <2>5. Cardinality(B) + One(t \notin B) <= Cardinality(Threads) /\ Cardinality(B) \in Nat
    BY <2>1, Recount DEF Resident
  <2>6. file.pos \in Nat /\ file'.pos \in Nat /\ MaxPages \in Nat
    BY <1>1, ResidesIs, ResidentNumbers DEF Positions
  <2>7. file'.pos + Cardinality(B) <= MaxPages + Cardinality(Threads)
    BY <2>2, <2>3, <2>4, <2>5, <2>6 DEF Reaches, One
  <2> QED
    BY <2>7 DEF B, WithinReach
<1> QED
  BY <1>3, <1>4, <1>5, <1>6, <1>7 DEF ResidentInv

\* The pages as a store, when every page of the file is in its frame.
LEMMA ResidentStore ==
    ASSUME Resident, NEW s, NEW d, Resides(s, d), NEW p \in Pages
    PROVE  StoreOf(s, d)[p] = IF p < d.numPages THEN s.frames[p].content ELSE Zeros
<1>1. p \in Frames /\ d.numPages \in Nat /\ p \in Nat
  BY ResidesIs, ResidentNumbers
<1>2. CASE p < d.numPages
  <2>1. InTable(s, p) /\ s.table[p] = p
    BY <1>1, <1>2, ResidesIs
  <2> QED
    BY <1>2, <2>1 DEF StoreOf, Latest, FrameOf
<1>3. CASE ~(p < d.numPages)
  <2>1. ~InTable(s, p)
    BY <1>1, <1>3, ResidesIs
  <2> QED
    BY <1>3, <2>1 DEF StoreOf, Latest
<1> QED
  BY <1>2, <1>3

\* What a step does to the content of frame f, and what its thread sees of it.
Touches(t, f, c, x) ==
    LET old == pool.frames[f].content
    IN  \/ c = old /\ x \in {seen[t], c}
        \/ /\ c = [old EXCEPT !.ver = @ + 1] /\ c \in Contents /\ x = seen[t]
           /\ pool.frames[f].writer = t \/ "modify" \in Ops

\* A step that changes one frame.
LEMMA OnFrame ==
    ASSUME Resident, ResidentInv, NEW t \in Threads, NEW j, NEW hd, NEW x, Turns(t, j, hd, x),
           NEW f \in Frames, f < file.numPages, NEW c, NEW n, NEW w,
           ChangedTo(pool, pool', f, c, n, w), Touches(t, f, c, x),
           \/ pool'.frames[f].writer = pool.frames[f].writer
           \/ pool.frames[f].writer \in {Nobody, t},
           Linked(pool.lru) \subseteq Linked(pool'.lru),
           Linked(pool'.lru) \subseteq Linked(pool.lru) \cup {f},
           file' \in FileType, file'.numPages = file.numPages,
           Locks(t), Reaches(t, j),
           j \in Jobs, hd \in SUBSET Handles, HandlesFit(file, hd), CallFits(pool', file', latch', t, j),
           Repins(t, j, hd, f, n),
           \A g \in Frames : g # f =>
              /\ Holds(hd, g) <=> Holds(held[t], g)
              /\ Latches(j, g) <=> Latches(job[t], g)
              /\ ~Rejoins(job[t], g),
           n = 0 => \/ f \in Linked(pool'.lru) \/ Rejoins(j, f)
                    \/ pool.frames[f].pin = 0 /\ ~Rejoins(job[t], f)
    PROVE  ResidentInv' /\ Shows(t, StoreOf(pool, file))
<1> DEFINE old == pool.frames[f].content
<1>1. Resides(pool, file) /\ seen \in [Threads -> Contents]
  BY DEF ResidentInv
<1>2. /\ PoolType(pool') /\ pool'.table = pool.table
      /\ \A g \in Frames : g # f => pool'.frames[g] = pool.frames[g]
      /\ pool'.frames[f].page = pool.frames[f].page /\ pool'.frames[f].state = pool.frames[f].state
      /\ pool'.frames[f].content = c /\ pool'.frames[f].pin = n
  BY DEF ChangedTo, IsFrame
<1>3. /\ old \in Contents /\ old.page = f /\ old.ver \in 1 .. MaxVersion /\ f \in Pages
      /\ old # Zeros /\ MaxVersion \in Int
  BY <1>1, ResidesIs, BoundAssumption
<1>4. c.page = f /\ c \in Contents /\ old.ver <= c.ver
      /\ (c = old \/ pool.frames[f].writer = t \/ "modify" \in Ops)
  <2> HIDE DEF old
  <2>1. CASE c = old
    BY <1>3, <2>1
  <2>2. CASE c = [old EXCEPT !.ver = @ + 1] /\ c \in Contents /\ (pool.frames[f].writer = t \/ "modify" \in Ops)
    <3>1. old \in [page : Pages, ver : 1 .. MaxVersion]
      BY <1>3 DEF Contents
    <3>2. c.page = old.page /\ c.ver = old.ver + 1
      BY <2>2, <3>1
    <3> QED
      BY <1>3, <2>2, <3>2
  <2> QED
    BY <2>1, <2>2 DEF Touches, old
<1> HIDE DEF old
<1>5. Resides(pool', file')
  <2>1. \A g \in Frames : g >= file'.numPages => pool'.frames[g].state = "Empty"
    BY <1>1, <1>2 DEF Resides
  <2>2. \A g \in Frames : g < file'.numPages =>
           Ready(pool', g) /\ pool'.frames[g].page = g /\ pool'.frames[g].content.page = g
    BY <1>1, <1>2, <1>4 DEF Resides, Ready
  <2>3. \A p \in Pages : pool'.table[p] = IF p < file'.numPages THEN p ELSE NoFrame
    BY <1>1, <1>2 DEF Resides
  <2>4. \A g \in Linked(pool'.lru) : g < file'.numPages
    BY <1>1 DEF Resides
  <2> QED
    BY <1>2, <2>1, <2>2, <2>3, <2>4 DEF Resides
<1>6. ASSUME NEW g \in Frames, g < file.numPages
      PROVE  /\ pool.frames[g].content.ver <= pool'.frames[g].content.ver
             /\ \/ pool'.frames[g].writer = pool.frames[g].writer
                \/ pool.frames[g].writer \in {Nobody, t}
             /\ \/ pool'.frames[g].content = pool.frames[g].content
                \/ pool.frames[g].writer = t \/ "modify" \in Ops
  <2>1. CASE g = f
    BY <1>2, <1>4, <2>1 DEF old
  <2>2. CASE g # f
    <3>1. pool.frames[g].content.ver \in 1 .. MaxVersion
      BY <1>1, <1>6, ResidesIs
    <3>2. pool.frames[g].content.ver <= pool.frames[g].content.ver
      BY <1>3, <3>1
    <3> QED
      BY <1>2, <2>2, <3>2
  <2> QED
    BY <2>1, <2>2
<1>7. ASSUME NEW g \in Frames
      PROVE  Repins(t, j, hd, g, pool'.frames[g].pin)
  <2>1. CASE g = f
    BY <1>2, <2>1
  <2>2. CASE g # f
    <3>1. pool'.frames[g].pin = pool.frames[g].pin /\ pool.frames[g].pin \in Nat
      BY <1>1, <1>2, <2>2, ResidesIs
    <3> QED
      BY <2>2, <3>1 DEF Repins, One
  <2> QED
    BY <2>1, <2>2
<1>8. ASSUME NEW g \in Frames, g < file'.numPages, pool'.frames[g].pin = 0
      PROVE  \/ g \in Linked(pool'.lru) \/ Rejoins(j, g)
             \/ g < file.numPages /\ pool.frames[g].pin = 0 /\ ~Rejoins(job[t], g)
  <2>1. CASE g = f
    BY <1>2, <1>8, <2>1
  <2>2. CASE g # f
    BY <1>2, <1>8, <2>2
  <2> QED
    BY <2>1, <2>2
<1>9. file.numPages <= file'.numPages
  BY <1>1, ResidesIs
<1>17. Saw(pool', file', x) /\ x \in Contents
  <2>1. CASE x = seen[t]
    <3>1. Saw(pool, file, x) /\ x \in Contents
      BY <2>1 DEF ResidentInv, Fits
    <3> QED
      BY <1>1, <1>5, <1>6, <1>9, <3>1, StillSaw
  <2>2. CASE x = c
    <3>1. x.page = f /\ x = pool'.frames[f].content /\ x.ver \in Int
      BY <1>2, <1>3, <1>4, <1>5, <2>2, ResidesIs
    <3>2. x.ver <= pool'.frames[x.page].content.ver
      BY <3>1
    <3> QED
      BY <1>4, <2>2, <3>1, <3>2 DEF Saw
  <2> QED
    BY <2>1, <2>2 DEF Touches
<1>18. Fits(pool', file', latch', t, j, hd, x)
  BY <1>17 DEF Fits, HandlesFit
<1>10. ResidentInv'
  BY <1>5, <1>6, <1>7, <1>8, <1>9, <1>18, Turned
<1> DEFINE st == StoreOf(pool, file)
           st2 == StoreOf(pool', file')
<1>11. st[f] = old
  BY <1>1, <1>3, ResidentStore DEF old
<1>12. st2[f] = c
  BY <1>2, <1>3, <1>5, ResidentStore
<1>13. \A p \in Pages : p # f => st2[p] = st[p]
  <2> SUFFICES ASSUME NEW p \in Pages, p # f
               PROVE  st2[p] = st[p]
    OBVIOUS
  <2>1. st[p] = IF p < file.numPages THEN pool.frames[p].content ELSE Zeros
    BY <1>1, ResidentStore
  <2>2. st2[p] = IF p < file.numPages THEN pool'.frames[p].content ELSE Zeros
    BY <1>5, ResidentStore
  <2>3. pool'.frames[p] = pool.frames[p]
    BY <1>2, ResidentNumbers
  <2> QED
    BY <2>1, <2>2, <2>3
<1>14. st = [p \in Pages |-> st[p]] /\ st2 = [p \in Pages |-> st2[p]]
  BY DEF StoreOf
<1> HIDE DEF st, st2
<1>15. CASE c = old /\ x \in {seen[t], c}
  <2>1. st2 = st
    BY <1>11, <1>12, <1>13, <1>14, <1>15
  <2>2. x = seen[t] => seen' = seen
    BY <1>1 DEF Turns
  <2>3. x = c => seen' = [seen EXCEPT ![t] = st[f]]
    BY <1>11, <1>15 DEF Turns
  <2> QED
    BY <1>3, <1>10, <1>15, <2>1, <2>2, <2>3 DEF Shows, st, st2
<1>16. CASE c = [old EXCEPT !.ver = @ + 1] /\ x = seen[t]
  <2>1. st2 = [st EXCEPT ![f].ver = @ + 1]
    BY <1>3, <1>11, <1>12, <1>13, <1>14, <1>16
  <2>2. seen' = seen /\ st[f] # Zeros
    BY <1>1, <1>3, <1>11, <1>16 DEF Turns
  <2> QED
    BY <1>3, <1>10, <2>1, <2>2 DEF Shows, st, st2
<1> QED
  BY <1>15, <1>16 DEF Touches, old

\* What the invariant says of thread t.
LEMMA ResidentThread ==
    ASSUME Resident, ResidentInv, NEW t \in Threads
    PROVE  /\ Resides(pool, file) /\ PoolType(pool) /\ file \in FileType
           /\ job \in [Threads -> Jobs] /\ held \in [Threads -> SUBSET Handles]
           /\ seen \in [Threads -> Contents] /\ latch \in Threads \cup {Nobody}
           /\ job[t] \in Jobs /\ held[t] \in SUBSET Handles /\ seen[t] \in Contents
           /\ CallFits(pool, file, latch, t, job[t]) /\ HandlesFit(file, held[t])
           /\ Saw(pool, file, seen[t]) /\ t # Nobody
           /\ file.numPages \in Nat /\ file.numPages <= MaxPages
           /\ job[t].pc # "allocate" => latch # t
           /\ job[t].pc # "allocate" /\ Enter(t) => latch = Nobody
           /\ job = [job EXCEPT ![t] = job[t]] /\ held = [held EXCEPT ![t] = held[t]]
           /\ seen = [seen EXCEPT ![t] = seen[t]]
<1>1. /\ Resides(pool, file) /\ job \in [Threads -> Jobs] /\ held \in [Threads -> SUBSET Handles]
      /\ seen \in [Threads -> Contents] /\ latch \in Threads \cup {Nobody}
  BY DEF ResidentInv
<1>2. Fits(pool, file, latch, t, job[t], held[t], seen[t])
  BY DEF ResidentInv
<1>3. job[t].pc # "allocate" => latch # t
  BY <1>2 DEF Fits, CallFits
<1>4. t # Nobody
  BY BoundAssumption
<1> QED
  BY <1>1, <1>2, <1>3, <1>4, ResidesIs DEF Fits, Enter

\* A thread between two calls.
LEMMA ResidentIdle ==
    ASSUME Resident, ResidentInv, NEW t \in Threads, At(t, "idle")
    PROVE  job[t] = Idle
BY ResidentThread DEF At, CallFits

\* A call that is over, or has yet to begin.
LEMMA IdleFits ==
    ASSUME NEW s, NEW d, NEW t, NEW l, l # t
    PROVE  /\ CallFits(s, d, l, t, Idle) /\ Idle \in Jobs /\ ~Writes(Idle)
           /\ \A g : ~Latches(Idle, g) /\ ~Rejoins(Idle, g)
<1>1. Idle \in Jobs /\ Idle.pc = "idle" /\ Idle.op = "none"
  BY FirstValues
<1> QED
  BY <1>1 DEF CallFits, Owns, Writes, Latches, Latched, Rejoins, Loads, Flushes

\* How far the count of pins of a frame is from its limits.
LEMMA PinsLeft ==
    ASSUME Resident, ResidentInv, NEW t \in Threads, NEW f \in Frames
    PROVE  /\ pool.frames[f].pin \in Nat
           /\ One(Holds(held[t], f)) + One(Latches(job[t], f)) <= pool.frames[f].pin
           /\ pool.frames[f].pin + One(~Holds(held[t], f)) + One(~Latches(job[t], f))
                 <= 2 * Cardinality(Threads)
<1> DEFINE A == {u \in Threads : Holds(held[u], f)}
           C == {u \in Threads : Latches(job[u], f)}
<1>1. pool.frames[f].pin = Cardinality(A) + Cardinality(C)
  BY DEF ResidentInv, Pinned
<1>2. /\ One(t \in A) = One(Holds(held[t], f)) /\ One(t \notin A) = One(~Holds(held[t], f))
      /\ One(t \in C) = One(Latches(job[t], f)) /\ One(t \notin C) = One(~Latches(job[t], f))
  BY DEF One
<1>3. A \in SUBSET Threads /\ C \in SUBSET Threads
  OBVIOUS
<1> HIDE DEF A, C
<1>4. /\ Cardinality(A) \in Nat /\ Cardinality(Threads) \in Nat
      /\ Cardinality(A) + One(t \notin A) <= Cardinality(Threads) /\ One(t \in A) <= Cardinality(A)
  BY <1>3, Recount DEF Resident
<1>5. /\ Cardinality(C) \in Nat
      /\ Cardinality(C) + One(t \notin C) <= Cardinality(Threads) /\ One(t \in C) <= Cardinality(C)
  BY <1>3, Recount DEF Resident
<1> QED
  BY <1>1, <1>2, <1>4, <1>5 DEF One

\* A step that changes nothing in the pool but dirty flags.
LEMMA OffFrames ==
    ASSUME Resident, ResidentInv, NEW t \in Threads, NEW j \in Jobs, job' = [job EXCEPT ![t] = j],
           held' = held, seen' = seen, PoolType(pool'), pool'.table = pool.table,
           Linked(pool'.lru) = Linked(pool.lru),
           \A g \in Frames :
              /\ IsFrame(pool'.frames[g], pool.frames[g].page, pool.frames[g].content,
                         pool.frames[g].state, pool.frames[g].pin, pool'.frames[g].dirty)
              /\ pool'.frames[g].writer = pool.frames[g].writer,
           file' \in FileType, file'.numPages = file.numPages, Locks(t), Reaches(t, j),
           CallFits(pool', file', latch', t, j),
           \A g \in Frames : (Latches(j, g) <=> Latches(job[t], g)) /\ ~Rejoins(job[t], g)
    PROVE  ResidentInv' /\ Shows(t, StoreOf(pool, file))
<1>1. /\ Resides(pool, file) /\ held[t] \in SUBSET Handles /\ HandlesFit(file, held[t])
      /\ seen[t] \in Contents /\ Saw(pool, file, seen[t])
      /\ Turns(t, j, held[t], seen[t])
  BY ResidentThread DEF Turns
<1>2. \A g \in Frames :
         /\ pool'.frames[g].page = pool.frames[g].page
         /\ pool'.frames[g].content = pool.frames[g].content
         /\ pool'.frames[g].state = pool.frames[g].state
         /\ pool'.frames[g].pin = pool.frames[g].pin
         /\ pool'.frames[g].writer = pool.frames[g].writer
  BY DEF IsFrame
<1>3. Resides(pool', file')
  BY <1>1, <1>2 DEF Resides, Ready
<1>4. file.numPages <= file'.numPages
  BY <1>1, ResidesIs
<1>5. \A g \in Frames : g < file.numPages =>
         pool.frames[g].content.ver <= pool'.frames[g].content.ver
  <2> SUFFICES ASSUME NEW g \in Frames, g < file.numPages
               PROVE  pool.frames[g].content.ver <= pool'.frames[g].content.ver
    OBVIOUS
  <2>1. pool.frames[g].content.ver \in 1 .. MaxVersion
    BY <1>1, ResidesIs
  <2>2. pool.frames[g].content.ver <= pool.frames[g].content.ver
    BY <2>1, BoundAssumption
  <2> QED
    BY <1>2, <2>2
<1>6. Fits(pool', file', latch', t, j, held[t], seen[t])
  <2>1. Saw(pool', file', seen[t])
    BY <1>1, <1>3, <1>4, <1>5, StillSaw
  <2> QED
    BY <1>1, <2>1 DEF Fits, HandlesFit
<1>7. \A g \in Frames : Repins(t, j, held[t], g, pool'.frames[g].pin)
  <2> SUFFICES ASSUME NEW g \in Frames
               PROVE  Repins(t, j, held[t], g, pool'.frames[g].pin)
    OBVIOUS
  <2>1. pool'.frames[g].pin = pool.frames[g].pin /\ pool.frames[g].pin \in Nat
    BY <1>1, <1>2, ResidesIs
  <2> QED
    BY <2>1 DEF Repins, One
<1>8. \A f \in Frames : f < file'.numPages /\ pool'.frames[f].pin = 0 =>
         \/ f \in Linked(pool'.lru) \/ Rejoins(j, f)
         \/ f < file.numPages /\ pool.frames[f].pin = 0 /\ ~Rejoins(job[t], f)
  BY <1>2
<1>9. ResidentInv'
  BY <1>1, <1>2, <1>3, <1>4, <1>5, <1>6, <1>7, <1>8, Turned
<1>10. StoreOf(pool', file') = StoreOf(pool, file)
  <2>1. \A p \in Pages : StoreOf(pool', file')[p] = StoreOf(pool, file)[p]
    BY <1>1, <1>2, <1>3, ResidentStore, ResidentNumbers
  <2>2. /\ StoreOf(pool, file) = [p \in Pages |-> StoreOf(pool, file)[p]]
        /\ StoreOf(pool', file') = [p \in Pages |-> StoreOf(pool', file')[p]]
    BY DEF StoreOf
  <2> QED
    BY <2>1, <2>2
<1> QED
  BY <1>9, <1>10 DEF Shows

\* The pages of a client, one more, one less, or one changed.
LEMMA HandlesChange ==
    ASSUME Resident, NEW hd \in SUBSET Handles, HandlesFit(file, hd)
    PROVE  /\ \A p \in Pages : p < file.numPages /\ (\A h \in hd : h.page # p) =>
                 /\ hd \cup {Handle(p, p)} \in SUBSET Handles /\ HandlesFit(file, hd \cup {Handle(p, p)})
                 /\ ~Holds(hd, p)
                 /\ \A g : Holds(hd \cup {Handle(p, p)}, g) <=> Holds(hd, g) \/ g = p
           /\ \A h \in hd :
                 /\ hd \ {h} \in SUBSET Handles /\ HandlesFit(file, hd \ {h}) /\ Holds(hd, h.frame)
                 /\ \A g : Holds(hd \ {h}, g) <=> Holds(hd, g) /\ g # h.frame
           /\ \A h \in hd : LET hd2 == (hd \ {h}) \cup {[h EXCEPT !.wrote = TRUE]}
                            IN  /\ hd2 \in SUBSET Handles /\ HandlesFit(file, hd2)
                                /\ \A g : Holds(hd2, g) <=> Holds(hd, g)
<1>1. ASSUME NEW p \in Pages, p < file.numPages, \A h \in hd : h.page # p
      PROVE  /\ hd \cup {Handle(p, p)} \in SUBSET Handles /\ HandlesFit(file, hd \cup {Handle(p, p)})
             /\ ~Holds(hd, p)
             /\ \A g : Holds(hd \cup {Handle(p, p)}, g) <=> Holds(hd, g) \/ g = p
  <2> DEFINE k == Handle(p, p)
  <2>1. k \in Handles /\ k.page = p /\ k.frame = p
    BY ResidentNumbers DEF Handle, Handles
  <2> HIDE DEF k
  <2>2. HandlesFit(file, hd \cup {k})
    BY <1>1, <2>1 DEF HandlesFit
  <2>3. ~Holds(hd, p)
    BY <1>1 DEF HandlesFit, Holds
  <2>4. \A g : Holds(hd \cup {k}, g) <=> Holds(hd, g) \/ g = p
    BY <2>1 DEF Holds
  <2> QED
    BY <2>1, <2>2, <2>3, <2>4 DEF k
<1>2. ASSUME NEW h \in hd
      PROVE  /\ hd \ {h} \in SUBSET Handles /\ HandlesFit(file, hd \ {h}) /\ Holds(hd, h.frame)
             /\ \A g : Holds(hd \ {h}, g) <=> Holds(hd, g) /\ g # h.frame
  BY DEF HandlesFit, Holds
<1>3. ASSUME NEW h \in hd
      PROVE  LET hd2 == (hd \ {h}) \cup {[h EXCEPT !.wrote = TRUE]}
             IN  /\ hd2 \in SUBSET Handles /\ HandlesFit(file, hd2)
                 /\ \A g : Holds(hd2, g) <=> Holds(hd, g)
  <2> DEFINE k == [h EXCEPT !.wrote = TRUE]
  <2>1. k \in Handles /\ k.page = h.page /\ k.frame = h.frame
    BY DEF Handles
  <2> HIDE DEF k
  <2>2. (hd \ {h}) \cup {k} \in SUBSET Handles
    BY <2>1
  <2>3. HandlesFit(file, (hd \ {h}) \cup {k})
    BY <2>1 DEF HandlesFit
  <2>4. \A g : Holds((hd \ {h}) \cup {k}, g) <=> Holds(hd, g)
    BY <2>1 DEF Holds
  <2> QED
    BY <2>2, <2>3, <2>4 DEF k
<1> QED
  BY <1>1, <1>2, <1>3

\* The frame of a page of the file.
LEMMA ResidentFrame ==
    ASSUME Resident, ResidentInv, NEW p \in Pages, p < file.numPages
    PROVE  /\ p \in Frames /\ pool.table[p] = p /\ Cached(p) /\ Ready(pool, p)
           /\ pool.frames[p].page = p /\ pool.frames[p].content \in Contents
           /\ pool.frames[p].pin \in Nat /\ pool.frames[p].writer \in Threads \cup {Nobody}
<1>1. Resides(pool, file) /\ p \in Frames
  BY ResidentNumbers DEF ResidentInv
<1> QED
  BY <1>1, ResidesIs DEF Cached, InTable

\* FetchPage finds every page of the file in the table.
LEMMA FetchPageHits ==
    ASSUME Resident, ResidentInv, NEW t \in Threads, NEW p \in Pages, FetchPage(t, p)
    PROVE  ResidentInv' /\ Shows(t, StoreOf(pool, file))
<1> DEFINE k == [Call("fetch") EXCEPT !.page = p]
           hd == held[t] \cup {Handle(p, p)}
           c == pool.frames[p].content
           n == pool.frames[p].pin + 1
<1>1. /\ At(t, "idle") /\ p < file.numPages /\ \A h \in held[t] : h.page # p
      /\ Lookup(t, k)
  BY DEF FetchPage, May
<1>2. job[t] = Idle /\ latch # t /\ HandlesFit(file, held[t]) /\ held[t] \in SUBSET Handles
      /\ file \in FileType /\ PoolType(pool)
  BY <1>1, ResidentIdle, ResidentThread, FirstValues
<1>3. p \in Frames /\ pool.table[p] = p /\ Cached(p) /\ pool.frames[p].state = "Ready"
      /\ c \in Contents /\ pool.frames[p].pin \in Nat
  BY <1>1, ResidentFrame DEF Ready
<1>4. k.page = p
  BY CallIs
<1> HIDE DEF k
<1>5. pool' = Hit(pool, p) /\ HandOut(t, p, p) /\ latch' = latch /\ file' = file
  BY <1>1, <1>3, <1>4 DEF Lookup
<1>6. /\ hd \in SUBSET Handles /\ HandlesFit(file, hd) /\ ~Holds(held[t], p)
      /\ \A g : Holds(hd, g) <=> Holds(held[t], g) \/ g = p
  BY <1>1, <1>2, HandlesChange
<1>7. n \in 0 .. 2 * Cardinality(Threads)
  BY <1>3, <1>6, PinsLeft, ResidentNumbers DEF One
<1>8. /\ ChangedTo(pool, pool', p, c, n, pool.frames[p].dirty)
      /\ Linked(pool'.lru) = Linked(pool.lru)
  BY <1>2, <1>3, <1>5, <1>7, HitIs
<1>9. pool'.frames[p].writer = pool.frames[p].writer
  BY <1>2, <1>3, <1>5 DEF Hit, PoolType, FrameType
<1>10. Turns(t, Idle, hd, c)
  BY <1>5, <1>8 DEF HandOut, Return, Turns, ChangedTo, IsFrame
<1>11. CallFits(pool', file', latch', t, Idle) /\ Idle \in Jobs /\ ~Writes(Idle)
       /\ \A g : ~Latches(Idle, g) /\ ~Rejoins(Idle, g)
  BY <1>2, <1>5, IdleFits
<1>12. Locks(t) /\ Reaches(t, Idle) /\ Touches(t, p, c, c)
  <2>1. file.pos \in Nat
    BY <1>2, ResidentNumbers DEF FileType, Positions
  <2> QED
    BY <1>2, <1>5, <2>1 DEF Locks, Reaches, Touches, One
<1>13. Repins(t, Idle, hd, p, n)
  <2>1. /\ One(Holds(hd, p)) = 1 /\ One(Holds(held[t], p)) = 0
        /\ One(Latches(Idle, p)) = 0 /\ One(Latches(job[t], p)) = 0
    BY <1>2, <1>6, <1>11 DEF One
  <2> HIDE DEF hd
  <2> QED
    BY <1>3, <2>1 DEF Repins
<1>14. n # 0
  BY <1>3
<1> HIDE DEF hd, c, n
<1> QED
  BY <1>1, <1>2, <1>3, <1>5, <1>6, <1>8, <1>9, <1>10, <1>11, <1>12, <1>13, <1>14, OnFrame

\* NewPage seeks to the end of the file.
LEMMA NewPageSeeks ==
    ASSUME Resident, ResidentInv, NEW t \in Threads, NewPage(t)
    PROVE  ResidentInv' /\ Shows(t, StoreOf(pool, file))
<1> DEFINE n == file.numPages
           k == [Call("new") EXCEPT !.page = n]
           j == [k EXCEPT !.pc = "allocate"]
<1>1. /\ At(t, "idle") /\ Enter(t) /\ n < MaxPages /\ latch' = t /\ file' = [file EXCEPT !.pos = n]
      /\ job' = [job EXCEPT ![t] = j] /\ pool' = pool /\ held' = held /\ seen' = seen
  BY DEF NewPage, May, Proceed
<1>2. job[t] = Idle /\ latch = Nobody /\ file \in FileType /\ PoolType(pool) /\ n \in Pages \cup {MaxPages}
      /\ Idle.pc = "idle" /\ Resides(pool, file)
  BY <1>1, ResidentIdle, ResidentThread, FirstValues DEF FileType
<1>3. n \in Pages /\ n \in Positions /\ n <= MaxPages
  BY <1>1, <1>2, ResidentNumbers DEF Positions, Pages
<1>4. k \in Jobs /\ k.op = "new" /\ k.page = n
  BY <1>3, CallIs
<1> HIDE DEF k
<1>5. j \in Jobs /\ j.op = "new" /\ j.page = n /\ j.pc = "allocate"
  BY <1>4 DEF Jobs
<1> HIDE DEF j
<1>6. file' \in FileType /\ file'.numPages = n /\ file'.pos = n
  BY <1>1, <1>2, <1>3, MovedIs DEF Moved
<1>7. CallFits(pool', file', latch', t, j)
  BY <1>1, <1>3, <1>5, <1>6 DEF CallFits, Owns, Loads, Flushes, Latched
<1>8. \A g \in Frames : (Latches(j, g) <=> Latches(job[t], g)) /\ ~Rejoins(job[t], g)
  BY <1>2, <1>5 DEF Latches, Latched, Rejoins
<1>9. Locks(t) /\ Reaches(t, j)
  BY <1>1, <1>2, <1>3, <1>6 DEF Locks, Reaches
<1>10. \A g \in Frames :
          /\ IsFrame(pool'.frames[g], pool.frames[g].page, pool.frames[g].content,
                     pool.frames[g].state, pool.frames[g].pin, pool'.frames[g].dirty)
          /\ pool'.frames[g].writer = pool.frames[g].writer
  BY <1>1 DEF IsFrame
<1> QED
  BY <1>1, <1>2, <1>5, <1>6, <1>7, <1>8, <1>9, <1>10, OffFrames

\* UnpinPage gives back the pin of a page, whose latch the client may still have.
LEMMA UnpinPageUnpins ==
    ASSUME Resident, ResidentInv, NEW t \in Threads, NEW h \in held[t], UnpinPage(t, h)
    PROVE  ResidentInv' /\ Shows(t, StoreOf(pool, file))
<1> DEFINE j == job[t]
           f == h.page
           hd == held[t] \ {h}
           n == pool.frames[f].pin - 1
<1>1. /\ j.pc \in {"idle", "unlatch"} /\ Enter(t) /\ held' = [held EXCEPT ![t] = hd]
      /\ pool' = IF ~Cached(h.page) \/ pool.frames[pool.table[h.page]].pin <= 0
                 THEN pool
                 ELSE Unpinned(Marked(pool, pool.table[h.page], h.wrote), pool.table[h.page])
      /\ file' = file /\ latch' = latch /\ job' = job /\ seen' = seen
  BY DEF UnpinPage, At
<1>2. /\ PoolType(pool) /\ file \in FileType /\ j \in Jobs /\ held[t] \in SUBSET Handles
      /\ CallFits(pool, file, latch, t, j) /\ HandlesFit(file, held[t])
      /\ Turns(t, j, hd, seen[t])
  BY <1>1, ResidentThread DEF Turns
<1>3. h \in Handles /\ f \in Pages /\ h.frame = f /\ f < file.numPages /\ h.wrote \in BOOLEAN
  BY <1>2 DEF HandlesFit, Handles
<1>4. f \in Frames /\ pool.table[f] = f /\ Cached(f) /\ pool.frames[f].pin \in Nat
  BY <1>3, ResidentFrame
<1>5. /\ hd \in SUBSET Handles /\ HandlesFit(file, hd) /\ Holds(held[t], f)
      /\ \A g : Holds(hd, g) <=> Holds(held[t], g) /\ g # f
  BY <1>2, <1>3, HandlesChange
<1>6. n \in Nat /\ n \in 0 .. 2 * Cardinality(Threads)
  <2>1. 1 <= pool.frames[f].pin /\ pool.frames[f].pin <= 2 * Cardinality(Threads)
    BY <1>4, <1>5, PinsLeft, ResidentNumbers DEF One
  <2> QED
    BY <1>4, <2>1, ResidentNumbers
<1>7. pool' = Unpinned(Marked(pool, f, h.wrote), f)
  BY <1>1, <1>4, <1>6
<1>8. UnpinnedTo(pool, pool', f, h.wrote)
  BY <1>2, <1>3, <1>4, <1>6, <1>7, UnpinnedIs
<1>9. PICK w \in BOOLEAN : ChangedTo(pool, pool', f, pool.frames[f].content, n, w)
  BY <1>8 DEF UnpinnedTo
<1>10. /\ Linked(pool.lru) \subseteq Linked(pool'.lru) /\ Linked(pool'.lru) \subseteq Linked(pool.lru) \cup {f}
       /\ n = 0 => f \in Linked(pool'.lru)
  BY <1>4, <1>8 DEF UnpinnedTo
<1>11. \A g \in Frames : pool'.frames[g].writer = pool.frames[g].writer
  <2>1. pool'.frames[f].writer = pool.frames[f].writer
    BY <1>2, <1>4, <1>7 DEF Unpinned, Marked, PoolType, FrameType
  <2>2. \A g \in Frames : g # f => pool'.frames[g] = pool.frames[g]
    BY <1>9 DEF ChangedTo
  <2> QED
    BY <2>1, <2>2
<1>12. CallFits(pool', file', latch', t, j)
  <2>1. Owns(j) => j.frame \in Frames
    BY <1>1, <1>2, ResidentNumbers DEF Owns, CallFits, Latched
  <2> QED
    BY <1>1, <1>2, <1>11, <2>1 DEF CallFits
<1>13. Locks(t) /\ Reaches(t, j) /\ Touches(t, f, pool.frames[f].content, seen[t])
  <2>1. file.pos \in Nat
    BY <1>2, ResidentNumbers DEF FileType, Positions
  <2> QED
    BY <1>1, <2>1 DEF Locks, Reaches, Touches, One
<1>14. Repins(t, j, hd, f, n)
  <2>1. /\ One(Holds(hd, f)) = 0 /\ One(Holds(held[t], f)) = 1
        /\ One(Latches(j, f)) \in Int
    BY <1>5 DEF One
  <2> HIDE DEF hd
  <2> QED
    BY <1>4, <2>1 DEF Repins
<1>15. \A g \in Frames : g # f =>
          /\ Holds(hd, g) <=> Holds(held[t], g)
          /\ Latches(j, g) <=> Latches(job[t], g)
          /\ ~Rejoins(job[t], g)
  BY <1>1, <1>5 DEF Rejoins
<1>16. /\ file' \in FileType /\ file'.numPages = file.numPages /\ j \in Jobs
       /\ Turns(t, j, hd, seen[t]) /\ f \in Frames /\ f < file.numPages
       /\ hd \in SUBSET Handles /\ HandlesFit(file, hd)
       /\ pool'.frames[f].writer = pool.frames[f].writer
  BY <1>1, <1>2, <1>3, <1>4, <1>5, <1>11
<1> HIDE DEF hd, n, f, j
<1> QED
  BY <1>9, <1>10, <1>12, <1>13, <1>14, <1>15, <1>16, OnFrame

\* A pool that differs from the one before the step in dirty flags only.
Dirtied(s) ==
    /\ PoolType(s) /\ s.table = pool.table /\ s.lru = pool.lru
    /\ \A g \in Frames :
          /\ IsFrame(s.frames[g], pool.frames[g].page, pool.frames[g].content,
                     pool.frames[g].state, pool.frames[g].pin, s.frames[g].dirty)
          /\ s.frames[g].writer = pool.frames[g].writer

LEMMA DirtiedBy ==
    ASSUME NEW s, Dirtied(s), NEW f \in Frames, NEW w \in BOOLEAN, NEW s2,
           s2 = [s EXCEPT !.frames[f].dirty = w]
    PROVE  Dirtied(s2)
<1>1. PoolType(s) /\ s.table = pool.table /\ s.lru = pool.lru
  BY DEF Dirtied
<1>2. ChangedTo(s, s2, f, s.frames[f].content, s.frames[f].pin, w) /\ s2.lru = s.lru
  BY <1>1, MarkIs
<1>3. s2.frames[f].writer = s.frames[f].writer
  BY <1>1 DEF PoolType, FrameType
<1>4. PoolType(s2) /\ s2.table = s.table /\ \A g \in Frames : g # f => s2.frames[g] = s.frames[g]
  BY <1>2 DEF ChangedTo
<1>5. IsFrame(s2.frames[f], s.frames[f].page, s.frames[f].content, s.frames[f].state, s.frames[f].pin, w)
  BY <1>2 DEF ChangedTo
<1>6. ASSUME NEW g \in Frames
      PROVE  /\ IsFrame(s2.frames[g], pool.frames[g].page, pool.frames[g].content,
                        pool.frames[g].state, pool.frames[g].pin, s2.frames[g].dirty)
             /\ s2.frames[g].writer = pool.frames[g].writer
  <2>1. /\ IsFrame(s.frames[g], pool.frames[g].page, pool.frames[g].content,
                   pool.frames[g].state, pool.frames[g].pin, s.frames[g].dirty)
        /\ s.frames[g].writer = pool.frames[g].writer
    BY DEF Dirtied
  <2>2. CASE g = f
    BY <1>3, <1>5, <2>1, <2>2 DEF IsFrame
  <2>3. CASE g # f
    BY <1>4, <2>1, <2>3
  <2> QED
    BY <2>2, <2>3
<1> QED
  BY <1>1, <1>2, <1>4, <1>6 DEF Dirtied

\* Before a flush begins and after it has ended the call has no latch.
Between(t) == At(t, "idle") \/ At(t, "flushDone")

LEMMA BetweenIs ==
    ASSUME Resident, ResidentInv, NEW t \in Threads, Between(t), Enter(t)
    PROVE  latch = Nobody /\ ~Writes(job[t]) /\ \A g : ~Latches(job[t], g) /\ ~Rejoins(job[t], g)
<1>1. job[t].pc \in {"idle", "flushDone"}
  BY DEF Between, At
<1> QED
  BY <1>1, ResidentThread DEF Writes, Latches, Latched, Rejoins

\* Such a call goes on without a latch, or is over.
LEMMA GoesOn ==
    ASSUME Resident, ResidentInv, NEW t \in Threads, Between(t), Enter(t), file' = file,
           NEW j \in Jobs, job' = [job EXCEPT ![t] = j], held' = held, seen' = seen, Dirtied(pool'),
           latch' = Nobody, CallFits(pool', file', latch', t, j), ~Writes(j),
           \A g : ~Latches(j, g)
    PROVE  ResidentInv' /\ Shows(t, StoreOf(pool, file))
<1>1. /\ latch = Nobody /\ ~Writes(job[t])
      /\ \A g : ~Latches(job[t], g) /\ ~Rejoins(job[t], g)
  BY BetweenIs
<1>2. file \in FileType /\ file.pos \in Nat
  BY ResidentThread, ResidentNumbers DEF FileType, Positions
<1>3. Locks(t) /\ Reaches(t, j)
  BY <1>1, <1>2 DEF Locks, Reaches, One
<1> QED
  BY <1>1, <1>2, <1>3, OffFrames DEF Dirtied

\* A flush of a page in its frame begins.
LEMMA FlushStarts ==
    ASSUME Resident, ResidentInv, NEW t \in Threads, Between(t), Enter(t), file' = file,
           NEW s, Dirtied(s), NEW f \in Frames, Ready(s, f),
           NEW j \in Jobs, j.op \in {"flush", "flushAll"}, StartFlush(t, j, f, s)
    PROVE  ResidentInv' /\ Shows(t, StoreOf(pool, file))
<1> DEFINE w == FALSE
           j2 == [[j EXCEPT !.frame = f, !.pid = s.frames[f].page] EXCEPT !.pc = "flushSeek"]
<1>1. /\ pool' = [s EXCEPT !.frames[f].dirty = w] /\ latch' = Nobody
      /\ job' = [job EXCEPT ![t] = j2] /\ held' = held /\ seen' = seen
  BY DEF StartFlush, Proceed
<1>2. w \in BOOLEAN
  OBVIOUS
<1>3. Resides(pool, file) /\ t # Nobody
  BY ResidentThread
<1>4. f < file.numPages /\ s.frames[f].page = f /\ f \in Pages
  <2>1. s.frames[f].state = pool.frames[f].state /\ s.frames[f].page = pool.frames[f].page
    BY DEF Dirtied, IsFrame
  <2>2. f \in Nat /\ file.numPages \in Nat
    BY <1>3, ResidesIs, ResidentNumbers
  <2>3. f < file.numPages
    BY <1>3, <2>1, <2>2 DEF Ready, Resides
  <2> QED
    BY <1>3, <2>1, <2>3, ResidesIs
<1>5. /\ j2 \in Jobs /\ j2.pc = "flushSeek" /\ j2.frame = f /\ j2.pid = f
      /\ j2.op \in {"flush", "flushAll"}
  BY <1>4 DEF Jobs, Flushes
<1> HIDE DEF w, j2
<1>6. Dirtied(pool')
  BY <1>1, <1>2, DirtiedBy
<1>7. CallFits(pool', file', latch', t, j2)
  BY <1>1, <1>3, <1>4, <1>5 DEF CallFits, Owns, Loads, Flushes, Latched
<1>8. ~Writes(j2) /\ \A g : ~Latches(j2, g)
  BY <1>5 DEF Writes, Latches, Latched
<1> QED
  BY <1>1, <1>5, <1>6, <1>7, <1>8, GoesOn

\* FlushAll goes on to its next page, or is over.
LEMMA FlushesNext ==
    ASSUME Resident, ResidentInv, NEW t \in Threads, Between(t), Enter(t), file' = file,
           NEW s, Dirtied(s), NEW j \in Jobs, j.op \in {"flush", "flushAll"}, FlushNext(t, j, s)
    PROVE  ResidentInv' /\ Shows(t, StoreOf(pool, file))
<1> DEFINE due == {e \in j.todo : NeedsFlush(s, e.frame) /\ s.frames[e.frame].page = e.page}
           F == {e.frame : e \in due}
           f == Lowest(F)
           j2 == [j EXCEPT !.todo = {e \in @ : e.frame > f}]
<1>1. j.todo \subseteq [frame : Frames, page : Pages \cup {NoPage}]
  BY DEF Jobs
<1>2. CASE due # {} /\ StartFlush(t, j2, f, s)
  <2>1. F # {} /\ F \subseteq Frames /\ \A x \in F : Ready(s, x)
    BY <1>1, <1>2 DEF NeedsFlush, Ready
  <2>2. F \subseteq Nat
    BY <2>1, Numbers
  <2> HIDE DEF F
  <2>3. f \in F
    BY <2>1, <2>2, LowestIs
  <2>4. f \in Frames /\ Ready(s, f)
    BY <2>1, <2>3
  <2> HIDE DEF f
  <2>5. j2 \in Jobs /\ j2.op = j.op
    BY DEF Jobs
  <2> HIDE DEF j2
  <2> QED
    BY <1>2, <2>4, <2>5, FlushStarts
<1>3. CASE due = {} /\ Return(t) /\ pool' = s /\ UNCHANGED <<latch, held, seen>>
  <2>1. job' = [job EXCEPT ![t] = Idle] /\ latch' = Nobody /\ t # Nobody
    BY <1>3, BetweenIs, ResidentThread DEF Return
  <2>2. CallFits(pool', file', latch', t, Idle) /\ Idle \in Jobs /\ ~Writes(Idle)
        /\ \A g : ~Latches(Idle, g)
    BY <2>1, IdleFits
  <2> QED
    BY <1>3, <2>1, <2>2, GoesOn
<1> QED
  BY <1>2, <1>3 DEF FlushNext

\* Nothing is dirtied.
LEMMA NotDirtied == ASSUME Resident, ResidentInv PROVE Dirtied(pool)
<1>1. PoolType(pool)
  BY DEF ResidentInv, Resides
<1> QED
  BY <1>1 DEF Dirtied, IsFrame

\* FlushPage and FlushAll.
LEMMA FlushPageFlushes ==
    ASSUME Resident, ResidentInv, NEW t \in Threads, NEW p \in Pages, FlushPage(t, p)
    PROVE  ResidentInv' /\ Shows(t, StoreOf(pool, file))
<1>1. /\ Between(t) /\ Enter(t) /\ file' = file /\ Cached(p) /\ NeedsFlush(pool, pool.table[p])
      /\ StartFlush(t, Call("flush"), pool.table[p], pool)
  BY DEF FlushPage, May, Between
<1>2. pool.table[p] \in Frames /\ Ready(pool, pool.table[p])
  BY <1>1, ResidentThread DEF Cached, NeedsFlush, Ready, PoolType
<1>3. Call("flush") \in Jobs /\ Call("flush").op \in {"flush", "flushAll"}
  BY CallIs
<1> QED
  BY <1>1, <1>2, <1>3, NotDirtied, FlushStarts

LEMMA FlushAllFlushes ==
    ASSUME Resident, ResidentInv, NEW t \in Threads, FlushAll(t)
    PROVE  ResidentInv' /\ Shows(t, StoreOf(pool, file))
<1> DEFINE j == [Call("flushAll") EXCEPT !.todo = Snapshot]
<1>1. Between(t) /\ Enter(t) /\ file' = file /\ FlushNext(t, j, pool)
  BY DEF FlushAll, May, Between
<1>2. Snapshot \subseteq [frame : Frames, page : Pages \cup {NoPage}]
  BY ResidentThread DEF Snapshot, PoolType, FrameType
<1>3. j \in Jobs /\ j.op \in {"flush", "flushAll"}
  BY <1>2, CallIs DEF Jobs
<1> HIDE DEF j
<1> QED
  BY <1>1, <1>3, NotDirtied, FlushesNext

\* The client changes a page it has pinned, with or without the latch.
LEMMA Edits ==
    ASSUME Resident, ResidentInv, NEW t \in Threads, NEW h \in held[t], MayChange(h), pool' = Change(h),
           Wrote(t, h), UNCHANGED <<file, latch, seen>>, NEW j \in Jobs, job' = [job EXCEPT ![t] = j],
           pool.frames[h.frame].writer = t \/ "modify" \in Ops,
           ~Writes(j), ~Writes(job[t]),
           \A g \in Frames : /\ Latches(j, g) <=> Latches(job[t], g)
                             /\ ~Rejoins(job[t], g),
           (\A g \in Frames : pool'.frames[g].writer = pool.frames[g].writer)
              => CallFits(pool', file', latch', t, j)
    PROVE  ResidentInv' /\ Shows(t, StoreOf(pool, file))
<1> DEFINE f == h.frame
           b == pool.frames[f].content
           c == [b EXCEPT !.ver = b.ver + 1]
           hd == (held[t] \ {h}) \cup {[h EXCEPT !.wrote = TRUE]}
           n == pool.frames[f].pin
<1>1. /\ PoolType(pool) /\ file \in FileType /\ held[t] \in SUBSET Handles
      /\ HandlesFit(file, held[t]) /\ Resides(pool, file)
      /\ seen' = [seen EXCEPT ![t] = seen[t]]
  BY ResidentThread
<1>2. f \in Frames /\ f < file.numPages /\ f \in Pages /\ h.page = f
  BY <1>1 DEF HandlesFit, Handles
<1>3. b \in [page : Pages, ver : 1 .. MaxVersion] /\ c \in Contents /\ b.ver \in 1 .. MaxVersion - 1
  <2>1. b.ver \in 1 .. MaxVersion - 1
    BY DEF MayChange
  <2>2. b \in Contents /\ b # Zeros /\ MaxVersion \in Nat
    BY <1>1, <1>2, ResidesIs, BoundAssumption
  <2>3. b \in [page : Pages, ver : 1 .. MaxVersion]
    BY <2>2 DEF Contents
  <2>4. b.ver + 1 \in 1 .. MaxVersion
    BY <2>1, <2>2
  <2>5. c \in [page : Pages, ver : 1 .. MaxVersion]
    BY <2>3, <2>4
  <2> QED
    BY <2>1, <2>3, <2>5 DEF Contents
<1>4. pool' = [pool EXCEPT !.frames[f].content = c]
  BY <1>1, <1>2, <1>3 DEF Change, PoolType
<1>5. hd \in SUBSET Handles /\ HandlesFit(file, hd) /\ \A g : Holds(hd, g) <=> Holds(held[t], g)
  BY <1>1, HandlesChange
<1>6. Turns(t, j, hd, seen[t])
  BY <1>1 DEF Turns, Wrote
<1>7. Touches(t, f, c, seen[t])
  BY <1>3 DEF Touches
<1> HIDE DEF c, hd
<1>8. ChangedTo(pool, pool', f, c, n, pool.frames[f].dirty) /\ pool'.lru = pool.lru
  BY <1>1, <1>2, <1>3, <1>4, FillIs
<1>9. \A g \in Frames : pool'.frames[g].writer = pool.frames[g].writer
  <2>1. pool'.frames[f].writer = pool.frames[f].writer
    BY <1>1, <1>2, <1>4 DEF PoolType, FrameType
  <2> QED
    BY <1>8, <2>1 DEF ChangedTo
<1>10. CallFits(pool', file', latch', t, j)
  BY <1>9
<1>11. Locks(t) /\ Reaches(t, j)
  <2>1. file.pos \in Nat
    BY <1>1, ResidentNumbers DEF FileType, Positions
  <2> QED
    BY <2>1 DEF Locks, Reaches, One
<1>12. n \in Nat
  BY <1>1, <1>2, ResidesIs
<1>13. Repins(t, j, hd, f, n)
  <2>1. /\ One(Holds(hd, f)) = One(Holds(held[t], f)) /\ One(Holds(hd, f)) \in Int
        /\ One(Latches(j, f)) = One(Latches(job[t], f)) /\ One(Latches(j, f)) \in Int
    BY <1>2, <1>5 DEF One
  <2> QED
    BY <1>12, <2>1 DEF Repins
<1>14. \A g \in Frames : g # f =>
          /\ Holds(hd, g) <=> Holds(held[t], g)
          /\ Latches(j, g) <=> Latches(job[t], g)
          /\ ~Rejoins(job[t], g)
  BY <1>5
<1>15. file' \in FileType /\ file'.numPages = file.numPages /\ ~Rejoins(job[t], f)
  BY <1>1, <1>2
<1> HIDE DEF f, n
<1> QED
  BY <1>2, <1>5, <1>6, <1>7, <1>8, <1>9, <1>10, <1>11, <1>13, <1>14, <1>15, OnFrame DEF n

\* Without the latch, as the storage manager does.
LEMMA ModifyEdits ==
    ASSUME Resident, ResidentInv, NEW t \in Threads, NEW h \in held[t], Modify(t, h)
    PROVE  ResidentInv' /\ Shows(t, StoreOf(pool, file))
<1>1. /\ At(t, "idle") /\ "modify" \in Ops /\ MayChange(h) /\ pool' = Change(h) /\ Wrote(t, h)
      /\ UNCHANGED <<file, latch, seen>> /\ job' = job
  BY DEF Modify, May
<1>2. job[t] = Idle /\ latch # t /\ job' = [job EXCEPT ![t] = job[t]]
  BY <1>1, ResidentIdle, ResidentThread, FirstValues
<1>3. /\ CallFits(pool', file', latch', t, Idle) /\ Idle \in Jobs /\ ~Writes(Idle)
      /\ \A g : ~Latches(Idle, g) /\ ~Rejoins(Idle, g)
  BY <1>1, <1>2, IdleFits
<1> QED
  BY <1>1, <1>2, <1>3, Edits

\* The first half of WLatchPage and RLatchPage pins the page.
LEMMA LatchPagePins ==
    ASSUME Resident, ResidentInv, NEW t \in Threads, NEW h \in held[t], NEW op \in {"edit", "look"},
           LatchPage(t, h, op)
    PROVE  ResidentInv' /\ Shows(t, StoreOf(pool, file))
<1> DEFINE f == h.page
           n == pool.frames[f].pin + 1
           k == [Call(op) EXCEPT !.page = f, !.frame = pool.table[f]]
           j == [k EXCEPT !.pc = "acquire"]
           c == pool.frames[f].content
<1>1. /\ At(t, "idle") /\ pool' = [pool EXCEPT !.frames[pool.table[f]].pin = @ + 1]
      /\ job' = [job EXCEPT ![t] = j] /\ UNCHANGED <<file, latch, held, seen>>
  BY DEF LatchPage, May, Proceed
<1>2. /\ PoolType(pool) /\ file \in FileType /\ held[t] \in SUBSET Handles
      /\ HandlesFit(file, held[t]) /\ job[t] = Idle /\ latch # t
      /\ seen' = [seen EXCEPT ![t] = seen[t]] /\ held' = [held EXCEPT ![t] = held[t]]
  BY <1>1, ResidentIdle, ResidentThread, FirstValues
<1>3. f \in Pages /\ f < file.numPages
  BY <1>2 DEF HandlesFit, Handles
<1>4. f \in Frames /\ pool.table[f] = f /\ pool.frames[f].pin \in Nat /\ c \in Contents
  BY <1>3, ResidentFrame
<1>5. k \in Jobs /\ k.op = op /\ k.page = f /\ k.frame = f
  <2>1. Call(op) \in Jobs /\ Call(op).op = op
    BY CallIs
  <2> QED
    BY <1>3, <1>4, <2>1 DEF Jobs
<1> HIDE DEF k
<1>6. j \in Jobs /\ j.op = op /\ j.page = f /\ j.frame = f /\ j.pc = "acquire"
  BY <1>5 DEF Jobs, Latched
<1> HIDE DEF j
<1>7. n \in 0 .. 2 * Cardinality(Threads) /\ ~Latches(Idle, f) /\ n # 0
  <2>1. ~Latches(Idle, f)
    BY FirstValues DEF Latches, Latched
  <2> QED
    BY <1>2, <1>4, <2>1, PinsLeft, ResidentNumbers DEF One
<1>8. pool' = [pool EXCEPT !.frames[f].pin = n]
  BY <1>1, <1>2, <1>4 DEF PoolType
<1>9. ChangedTo(pool, pool', f, c, n, pool.frames[f].dirty) /\ pool'.lru = pool.lru
  BY <1>2, <1>4, <1>7, <1>8, PinIs
<1>10. pool'.frames[f].writer = pool.frames[f].writer
  BY <1>2, <1>4, <1>8 DEF PoolType, FrameType
<1>11. CallFits(pool', file', latch', t, j)
  BY <1>1, <1>2, <1>3, <1>6 DEF CallFits, Owns, Loads, Flushes, Latched
<1>12. Locks(t) /\ Reaches(t, j) /\ Touches(t, f, c, seen[t])
  <2>1. file.pos \in Nat
    BY <1>2, ResidentNumbers DEF FileType, Positions
  <2>2. ~Writes(j)
    BY <1>6 DEF Writes
  <2> QED
    BY <1>1, <2>1, <2>2 DEF Locks, Reaches, Touches, One
<1>13. Repins(t, j, held[t], f, n)
  <2>1. One(Latches(j, f)) = 1 /\ One(Latches(job[t], f)) = 0
    BY <1>2, <1>6, <1>7 DEF One, Latches, Latched
  <2> QED
    BY <1>4, <2>1 DEF Repins, One
<1>14. \A g \in Frames : g # f => (Latches(j, g) <=> Latches(job[t], g)) /\ ~Rejoins(job[t], g)
  BY <1>2, <1>6, FirstValues DEF Latches, Latched, Rejoins
<1>15. /\ file' \in FileType /\ file'.numPages = file.numPages
       /\ Turns(t, j, held[t], seen[t])
  BY <1>1, <1>2 DEF Turns
<1> HIDE DEF f, n, c
<1> QED
  BY <1>2, <1>3, <1>4, <1>6, <1>7, <1>9, <1>10, <1>11, <1>12, <1>13, <1>14, <1>15, OnFrame

\* A step that changes at most the latch of one frame.
LEMMA OnLatch ==
    ASSUME Resident, ResidentInv, NEW t \in Threads, NEW j \in Jobs, job' = [job EXCEPT ![t] = j],
           held' = held, NEW f \in Frames, f < file.numPages, NEW x,
           x \in {seen[t], pool.frames[f].content}, seen' = [seen EXCEPT ![t] = x],
           ChangedTo(pool, pool', f, pool.frames[f].content, pool.frames[f].pin, pool.frames[f].dirty),
           pool'.lru = pool.lru,
           \/ pool'.frames[f].writer = pool.frames[f].writer
           \/ pool.frames[f].writer \in {Nobody, t},
           file' \in FileType, file'.numPages = file.numPages, Locks(t), Reaches(t, j),
           CallFits(pool', file', latch', t, j),
           \A g \in Frames : (Latches(j, g) <=> Latches(job[t], g)) /\ ~Rejoins(job[t], g)
    PROVE  ResidentInv' /\ Shows(t, StoreOf(pool, file))
<1> DEFINE n == pool.frames[f].pin
           c == pool.frames[f].content
           w == pool.frames[f].dirty
           hd == held[t]
<1>1. hd \in SUBSET Handles /\ HandlesFit(file, hd) /\ Turns(t, j, hd, x)
  BY ResidentThread DEF Turns
<1>2. Touches(t, f, c, x)
  BY DEF Touches
<1>3. n \in Nat
  BY PinsLeft
<1>4. ChangedTo(pool, pool', f, c, n, w)
  OBVIOUS
<1>5. n = 0 => pool.frames[f].pin = 0 /\ ~Rejoins(job[t], f)
  OBVIOUS
<1>6. Repins(t, j, hd, f, n)
  BY <1>3 DEF Repins, One
<1>7. \A g : Holds(hd, g) <=> Holds(held[t], g)
  OBVIOUS
<1> HIDE DEF n, c, w, hd
<1> QED
  BY <1>1, <1>2, <1>4, <1>5, <1>6, <1>7, OnFrame

\* The position of a thread that is about to write.
LEMMA WithinFile ==
    ASSUME Resident, ResidentInv, NEW t \in Threads, Writes(job[t]), NEW c \in Contents
    PROVE  /\ Written(c) \in FileType /\ Written(c).numPages = file.numPages
           /\ Written(c).pos = file.pos + 1 /\ file.pos \in Nat
<1> DEFINE A == {u \in Threads : Writes(job[u])}
           disk == [q \in Positions |->
                       IF q = file.pos THEN c
                       ELSE IF q < file.pos /\ file.disk[q] = Absent THEN Zeros ELSE file.disk[q]]
<1>1. file \in FileType
  BY ResidentThread
<1>2. file.pos \in Nat /\ file.pos + 1 \in Positions
  <2>1. A \in SUBSET Threads /\ t \in A
    OBVIOUS
  <2>2. file.pos + Cardinality(A) <= MaxPages + Cardinality(Threads)
    BY DEF ResidentInv, WithinReach
  <2>3. file.pos \in Nat
    BY <1>1, ResidentNumbers DEF FileType, Positions
  <2> HIDE DEF A
  <2>4. 1 <= Cardinality(A) /\ Cardinality(A) \in Nat
    BY <2>1, Recount DEF Resident, One
  <2>5. file.pos + 1 <= MaxPages + Cardinality(Threads)
    BY <2>2, <2>3, <2>4, ResidentNumbers
  <2> QED
    BY <2>3, <2>5, ResidentNumbers DEF Positions
<1>3. Written(c) = [file EXCEPT !.disk = disk, !.pos = file.pos + 1]
  BY <1>1 DEF Written, FileType
<1>4. disk \in [Positions -> Contents \cup {Absent}]
  BY <1>1, FirstValues DEF FileType
<1> HIDE DEF disk
<1>5. Written(c) \in FileType /\ Written(c).numPages = file.numPages /\ Written(c).pos = file.pos + 1
  BY <1>1, <1>2, <1>3, <1>4 DEF FileType
<1> QED
  BY <1>2, <1>5

\* The flush seeks to its page and copies the frame, whose latch it has taken.
LEMMA FlushSeekSeeks ==
    ASSUME Resident, ResidentInv, NEW t \in Threads, FlushSeek(t)
    PROVE  ResidentInv' /\ Shows(t, StoreOf(pool, file))
<1> DEFINE k == job[t]
           f == k.frame
           c == pool.frames[f].content
           j == [[k EXCEPT !.buffer = c] EXCEPT !.pc = "flushWrite"]
<1>1. /\ PoolType(pool) /\ k \in Jobs /\ file \in FileType /\ CallFits(pool, file, latch, t, k)
      /\ seen' = seen => seen' = [seen EXCEPT ![t] = seen[t]]
  BY ResidentThread
<1>2. /\ k.pc = "flushSeek" /\ pool' = [pool EXCEPT !.frames[f].writer = t]
      /\ pool.frames[f].writer = Nobody
      /\ file' = [file EXCEPT !.pos = k.pid] /\ job' = [job EXCEPT ![t] = j]
      /\ latch' = latch /\ held' = held /\ seen' = seen
  BY DEF FlushSeek, At, Lock, Proceed, Free
<1>3. f \in Frames /\ f < file.numPages /\ k.pid \in Pages /\ k.op \in {"flush", "flushAll"}
  BY <1>1, <1>2 DEF CallFits, Flushes
<1>4. c \in Contents /\ k.pid \in Positions /\ k.pid <= MaxPages
  BY <1>1, <1>3, ResidentNumbers DEF PoolType, FrameType, Positions
<1>5. /\ j \in Jobs /\ j.pc = "flushWrite" /\ j.buffer = c /\ j.frame = f /\ j.pid = k.pid
      /\ j.op = k.op
  BY <1>1, <1>4 DEF Jobs, Flushes
<1> HIDE DEF j
<1>6. /\ ChangedTo(pool, pool', f, pool.frames[f].content, pool.frames[f].pin, pool.frames[f].dirty)
      /\ pool'.lru = pool.lru
  <2>1. PoolType(pool) /\ f \in Frames /\ t \in Threads \cup {Nobody}
    BY <1>1, <1>3
  <2>2. pool' = [pool EXCEPT !.frames[f].writer = t]
    BY <1>2
  <2> HIDE DEF k, f
  <2> QED
    BY <2>1, <2>2, LockIs
<1>7. pool'.frames[f].writer = t /\ pool'.frames[f].content = c
  BY <1>1, <1>2, <1>3 DEF PoolType, FrameType
<1>8. file' \in FileType /\ file'.numPages = file.numPages /\ file'.pos = k.pid
  BY <1>1, <1>2, <1>4, MovedIs DEF Moved
<1>9. CallFits(pool', file', latch', t, j)
  <2>1. latch' # t
    BY <1>1, <1>2 DEF CallFits
  <2> QED
    BY <1>3, <1>5, <1>7, <1>8, <2>1 DEF CallFits, Owns, Loads, Flushes, Latched
<1>10. Locks(t) /\ Reaches(t, j)
  BY <1>2, <1>4, <1>8 DEF Locks, Reaches
<1>11. \A g \in Frames : (Latches(j, g) <=> Latches(job[t], g)) /\ ~Rejoins(job[t], g)
  BY <1>2, <1>5 DEF Latches, Latched, Rejoins
<1>12. seen' = [seen EXCEPT ![t] = seen[t]]
  BY <1>1, <1>2
<1> HIDE DEF f, k, c
<1> QED
  BY <1>2, <1>3, <1>5, <1>6, <1>8, <1>9, <1>10, <1>11, <1>12, OnLatch

\* The copy is written wherever the position is now, or cannot be written.
LEMMA FlushWriteWrites ==
    ASSUME Resident, ResidentInv, NEW t \in Threads, FlushWrite(t)
    PROVE  ResidentInv' /\ Shows(t, StoreOf(pool, file))
<1> DEFINE k == job[t]
           f == k.frame
<1>1. /\ PoolType(pool) /\ k \in Jobs /\ file \in FileType /\ CallFits(pool, file, latch, t, k)
      /\ seen' = seen => seen' = [seen EXCEPT ![t] = seen[t]]
  BY ResidentThread
<1>2. /\ k.pc = "flushWrite" /\ pool' = [pool EXCEPT !.frames[f].writer = Nobody]
      /\ latch' = latch /\ held' = held /\ seen' = seen
  BY DEF FlushWrite, At, Unlock
<1>3. f \in Frames /\ f < file.numPages /\ k.pid \in Pages /\ k.op \in {"flush", "flushAll"}
      /\ pool.frames[f].writer = t /\ latch' # t
  BY <1>1, <1>2 DEF CallFits, Flushes, Owns
<1>4. /\ ChangedTo(pool, pool', f, pool.frames[f].content, pool.frames[f].pin, pool.frames[f].dirty)
      /\ pool'.lru = pool.lru
  BY <1>1, <1>2, <1>3, LockIs
<1>5. PICK ok \in BOOLEAN : /\ job' = [job EXCEPT ![t] = [[k EXCEPT !.ok = ok] EXCEPT !.pc = "flushDone"]]
                            /\ file' \in {Written(k.buffer), file}
  BY DEF FlushWrite, Proceed
<1> DEFINE j == [[k EXCEPT !.ok = ok] EXCEPT !.pc = "flushDone"]
<1>6. /\ j \in Jobs /\ j.pc = "flushDone" /\ j.frame = f /\ j.pid = k.pid /\ j.op = k.op
      /\ job' = [job EXCEPT ![t] = j]
  BY <1>1, <1>5 DEF Jobs, Flushes
<1> HIDE DEF j
<1>7. Writes(k) /\ ~Writes(j)
  BY <1>2, <1>6 DEF Writes
<1>8. k.buffer \in Contents
  BY <1>1 DEF Jobs
<1>9. /\ file' \in FileType /\ file'.numPages = file.numPages /\ file.pos \in Nat
      /\ file'.pos \in {file.pos, file.pos + 1}
  BY <1>1, <1>5, <1>7, <1>8, WithinFile
<1>10. CallFits(pool', file', latch', t, j)
  BY <1>3, <1>6, <1>9 DEF CallFits, Owns, Loads, Flushes, Latched
<1>11. Locks(t) /\ Reaches(t, j)
  BY <1>2, <1>7, <1>9 DEF Locks, Reaches, One
<1>12. \A g \in Frames : (Latches(j, g) <=> Latches(job[t], g)) /\ ~Rejoins(job[t], g)
  BY <1>2, <1>6 DEF Latches, Latched, Rejoins
<1>13. seen' = [seen EXCEPT ![t] = seen[t]]
  BY <1>1, <1>2
<1> HIDE DEF f, k
<1> QED
  BY <1>2, <1>3, <1>4, <1>6, <1>9, <1>10, <1>11, <1>12, <1>13, OnLatch

\* The flush is over; one that has failed leaves the page dirty.
LEMMA FlushDoneEnds ==
    ASSUME Resident, ResidentInv, NEW t \in Threads, FlushDone(t)
    PROVE  ResidentInv' /\ Shows(t, StoreOf(pool, file))
<1> DEFINE k == job[t]
           f == k.frame
           w == TRUE
           s == IF k.ok THEN pool ELSE [pool EXCEPT !.frames[f].dirty = w]
           j == [k EXCEPT !.pid = NoPage, !.buffer = Zeros, !.ok = TRUE]
<1>1. k \in Jobs /\ CallFits(pool, file, latch, t, k)
  BY ResidentThread
<1>2. k.pc = "flushDone" /\ Between(t) /\ Enter(t) /\ file' = file
  BY DEF FlushDone, Between, At
<1>3. f \in Frames /\ k.op \in {"flush", "flushAll"}
  BY <1>1, <1>2 DEF CallFits, Flushes
<1>4. FlushNext(t, j, s)
  BY <1>3 DEF FlushDone
<1>5. j \in Jobs /\ j.op = k.op
  BY <1>1, FirstValues DEF Jobs
<1>6. Dirtied(s)
  <2>1. w \in BOOLEAN /\ Dirtied(pool)
    BY NotDirtied
  <2> HIDE DEF w
  <2>2. Dirtied([pool EXCEPT !.frames[f].dirty = w])
    BY <1>3, <2>1, DirtiedBy
  <2> QED
    BY <2>1, <2>2
<1> HIDE DEF j, s
<1> QED
  BY <1>2, <1>3, <1>4, <1>5, <1>6, FlushesNext

\* The frame of a call that has pinned it for a latch.
LEMMA LatchedFrame ==
    ASSUME Resident, ResidentInv, NEW t \in Threads, job[t].pc \in Latched \cup {"rejoin"}
    PROVE  /\ job[t].frame \in Frames /\ job[t].frame < file.numPages
           /\ job[t].page = job[t].frame /\ job[t].page \in Pages /\ job[t].op \in {"edit", "look"}
           /\ job[t] \in Jobs /\ PoolType(pool) /\ file \in FileType /\ latch # t
           /\ Owns(job[t]) => pool.frames[job[t].frame].writer = t
           /\ seen = [seen EXCEPT ![t] = seen[t]] /\ ~Writes(job[t]) /\ file.pos \in Nat
           /\ pool.table[job[t].frame] = job[t].frame
<1>1. /\ job[t] \in Jobs /\ PoolType(pool) /\ file \in FileType
      /\ CallFits(pool, file, latch, t, job[t]) /\ seen = [seen EXCEPT ![t] = seen[t]]
  BY ResidentThread
<1>2. job[t].pc \notin {"allocate", "flushWrite"}
  BY DEF Latched
<1>3. job[t].frame \in Frames /\ job[t].page \in Pages /\ job[t].page < file.numPages
      /\ job[t].page = job[t].frame /\ job[t].op \in {"edit", "look"}
  BY <1>1, ResidentNumbers DEF CallFits
<1>4. file.pos \in Nat
  BY <1>1, ResidentNumbers DEF FileType, Positions
<1>5. pool.table[job[t].frame] = job[t].frame
  BY <1>3, ResidentFrame
<1> QED
  BY <1>1, <1>2, <1>3, <1>4, <1>5 DEF CallFits, Writes

\* A call with a pin for its latch that goes on, the frame and its latch unchanged.
LEMMA LatchGoesOn ==
    ASSUME Resident, ResidentInv, NEW t \in Threads, job[t].pc \in Latched,
           NEW j \in Jobs, j.pc \in Latched, j.op = job[t].op, j.page = job[t].page,
           j.frame = job[t].frame, NEW s, NEW d, d.numPages = file.numPages,
           Owns(j) => s.frames[j.frame].writer = t
    PROVE  /\ CallFits(s, d, latch, t, j) /\ ~Writes(j)
           /\ \A g \in Frames : (Latches(j, g) <=> Latches(job[t], g)) /\ ~Rejoins(job[t], g)
<1>1. /\ job[t].frame \in Frames /\ job[t].frame < file.numPages
      /\ job[t].page = job[t].frame /\ job[t].page \in Pages /\ job[t].op \in {"edit", "look"}
      /\ latch # t
  BY LatchedFrame
<1>2. j.pc \notin Loads \cup Flushes \cup {"idle", "allocate", "rejoin", "flushWrite"}
  BY DEF Latched, Loads, Flushes
<1>3. CallFits(s, d, latch, t, j)
  BY <1>1, <1>2 DEF CallFits
<1>4. ~Writes(j)
  BY <1>2 DEF Writes
<1>5. \A g \in Frames : (Latches(j, g) <=> Latches(job[t], g)) /\ ~Rejoins(job[t], g)
  BY DEF Latches, Rejoins, Latched
<1> QED
  BY <1>3, <1>4, <1>5

\* The frame latch is taken, exclusively or shared.
LEMMA AcquireLatchLocks ==
    ASSUME Resident, ResidentInv, NEW t \in Threads, AcquireLatch(t)
    PROVE  ResidentInv' /\ Shows(t, StoreOf(pool, file))
<1> DEFINE k == job[t]
           f == k.frame
           j == [k EXCEPT !.pc = "use"]
<1>1. /\ k.pc = "acquire" /\ job' = [job EXCEPT ![t] = j] /\ file' = file /\ latch' = latch
      /\ held' = held /\ seen' = seen
  BY DEF AcquireLatch, At, Proceed
<1>2. k.pc \in Latched
  BY <1>1 DEF Latched
<1>3. /\ f \in Frames /\ f < file.numPages /\ k \in Jobs /\ PoolType(pool) /\ file \in FileType
      /\ seen = [seen EXCEPT ![t] = seen[t]] /\ ~Writes(k) /\ file.pos \in Nat
  BY <1>2, LatchedFrame
<1>4. /\ j \in Jobs /\ j.pc = "use" /\ j.pc \in Latched /\ j.op = k.op /\ j.page = k.page
      /\ j.frame = k.frame
  BY <1>3 DEF Jobs, Latched
<1> HIDE DEF j
<1>5. CASE k.op = "edit" /\ Free(f) /\ pool' = Lock(f, t)
  <2>1. pool' = [pool EXCEPT !.frames[f].writer = t] /\ pool.frames[f].writer = Nobody
    BY <1>5 DEF Lock, Free
  <2>2. /\ ChangedTo(pool, pool', f, pool.frames[f].content, pool.frames[f].pin, pool.frames[f].dirty)
        /\ pool'.lru = pool.lru
    <3>1. t \in Threads \cup {Nobody} /\ f \in Frames /\ PoolType(pool)
      BY <1>3
    <3> HIDE DEF k, f
    <3> QED
      BY <2>1, <3>1, LockIs
  <2>3. pool'.frames[f].writer = t
    BY <1>3, <2>1 DEF PoolType, FrameType
  <2>4. /\ CallFits(pool', file', latch', t, j) /\ ~Writes(j)
        /\ \A g \in Frames : (Latches(j, g) <=> Latches(job[t], g)) /\ ~Rejoins(job[t], g)
    BY <1>1, <1>2, <1>4, <2>3, LatchGoesOn
  <2>5. Locks(t) /\ Reaches(t, j)
    BY <1>1, <1>3, <2>4 DEF Locks, Reaches, One
  <2> HIDE DEF k, f
  <2> QED
    BY <1>1, <1>3, <1>4, <2>1, <2>2, <2>4, <2>5, OnLatch
<1>6. CASE k.op = "look" /\ pool' = [pool EXCEPT !.frames[f].readers = @ \cup {t}]
  <2>1. /\ ChangedTo(pool, pool', f, pool.frames[f].content, pool.frames[f].pin, pool.frames[f].dirty)
        /\ pool'.lru = pool.lru
    BY <1>3, <1>6, SharedIs
  <2>2. pool'.frames[f].writer = pool.frames[f].writer
    BY <1>3, <1>6 DEF PoolType, FrameType
  <2>3. ~Owns(j)
    BY <1>4, <1>6 DEF Owns
  <2>4. /\ CallFits(pool', file', latch', t, j) /\ ~Writes(j)
        /\ \A g \in Frames : (Latches(j, g) <=> Latches(job[t], g)) /\ ~Rejoins(job[t], g)
    BY <1>1, <1>2, <1>4, <2>3, LatchGoesOn
  <2>5. Locks(t) /\ Reaches(t, j)
    BY <1>1, <1>3, <2>4 DEF Locks, Reaches, One
  <2> HIDE DEF k, f
  <2> QED
    BY <1>1, <1>3, <1>4, <2>1, <2>2, <2>4, <2>5, OnLatch
<1> QED
  BY <1>5, <1>6 DEF AcquireLatch

\* The client changes the latched page, or looks at it.
LEMMA UseLatchedUses ==
    ASSUME Resident, ResidentInv, NEW t \in Threads, UseLatched(t)
    PROVE  ResidentInv' /\ Shows(t, StoreOf(pool, file))
<1> DEFINE k == job[t]
           f == k.frame
           j == [k EXCEPT !.pc = "unlatch"]
<1>1. PICK h \in held[t] :
         /\ k.pc = "use" /\ h.page = k.page /\ job' = [job EXCEPT ![t] = j]
         /\ \/ k.op = "edit" /\ MayChange(h) /\ pool' = Change(h) /\ Wrote(t, h) /\ UNCHANGED seen
            \/ /\ seen' = [seen EXCEPT ![t] = pool.frames[h.frame].content]
               /\ UNCHANGED <<pool, held>>
         /\ UNCHANGED <<file, latch>>
  BY DEF UseLatched, At, Proceed
<1>2. k.pc \in Latched
  BY <1>1 DEF Latched
<1>3. /\ f \in Frames /\ f < file.numPages /\ k \in Jobs /\ PoolType(pool) /\ file \in FileType
      /\ ~Writes(k) /\ file.pos \in Nat /\ k.page = f
      /\ Owns(k) => pool.frames[f].writer = t
  BY <1>2, LatchedFrame
<1>4. /\ j \in Jobs /\ j.pc = "unlatch" /\ j.pc \in Latched /\ j.op = k.op /\ j.page = k.page
      /\ j.frame = k.frame
  BY <1>3 DEF Jobs, Latched
<1> HIDE DEF j
<1>5. h.frame = f
  <2>1. HandlesFit(file, held[t])
    BY ResidentThread
  <2> QED
    BY <1>1, <1>3, <2>1 DEF HandlesFit
<1>6. Owns(j) => Owns(k)
  BY <1>1, <1>4 DEF Owns
<1>7. ASSUME \A g \in Frames : pool'.frames[g].writer = pool.frames[g].writer
      PROVE  /\ CallFits(pool', file', latch', t, j) /\ ~Writes(j)
             /\ \A g \in Frames : (Latches(j, g) <=> Latches(job[t], g)) /\ ~Rejoins(job[t], g)
  <2>1. Owns(j) => pool'.frames[j.frame].writer = t
    BY <1>3, <1>4, <1>6, <1>7
  <2> QED
    BY <1>1, <1>2, <1>4, <2>1, LatchGoesOn
<1>8. ~Writes(j) /\ \A g \in Frames : (Latches(j, g) <=> Latches(job[t], g)) /\ ~Rejoins(job[t], g)
  BY <1>1, <1>2, <1>4 DEF Writes, Latches, Rejoins
<1>9. CASE k.op = "edit" /\ MayChange(h) /\ pool' = Change(h) /\ Wrote(t, h) /\ UNCHANGED seen
  <2>1. pool.frames[h.frame].writer = t
    BY <1>1, <1>3, <1>5, <1>9 DEF Owns
  <2>2. (\A g \in Frames : pool'.frames[g].writer = pool.frames[g].writer)
           => CallFits(pool', file', latch', t, j)
    BY <1>7
  <2> QED
    BY <1>1, <1>3, <1>4, <1>8, <1>9, <2>1, <2>2, Edits
<1>10. CASE seen' = [seen EXCEPT ![t] = pool.frames[h.frame].content] /\ UNCHANGED <<pool, held>>
  <2> DEFINE x == pool.frames[f].content
  <2>1. CallFits(pool', file', latch', t, j)
    BY <1>7, <1>10
  <2>2. Locks(t) /\ Reaches(t, j)
    BY <1>1, <1>3, <1>8 DEF Locks, Reaches, One
  <2>3. seen' = [seen EXCEPT ![t] = x] /\ pool' = pool /\ held' = held
    BY <1>5, <1>10
  <2>4. ChangedTo(pool, pool', f, pool.frames[f].content, pool.frames[f].pin, pool.frames[f].dirty)
    BY <1>3, <2>3, ChangedNot
  <2>5. x \in {seen[t], pool.frames[f].content} /\ file' = file /\ job' = [job EXCEPT ![t] = j]
        /\ pool'.lru = pool.lru /\ pool'.frames[f].writer = pool.frames[f].writer
    BY <1>1, <2>3
  <2> HIDE DEF x, k, f
  <2> QED
    BY <1>3, <1>4, <1>8, <2>1, <2>2, <2>3, <2>4, <2>5, OnLatch
<1> QED
  BY <1>1, <1>9, <1>10

\* WUnlatchPage and RUnlatchPage find the page in the table again.
LEMMA UnlatchPageFinds ==
    ASSUME Resident, ResidentInv, NEW t \in Threads, UnlatchPage(t)
    PROVE  ResidentInv' /\ Shows(t, StoreOf(pool, file))
<1> DEFINE k == job[t]
           f == k.frame
           j == [[k EXCEPT !.frame = f] EXCEPT !.pc = "release"]
<1>1. k.pc = "unlatch" /\ UNCHANGED <<pool, file, latch, held, seen>>
  BY DEF UnlatchPage, At
<1>2. k.pc \in Latched
  BY <1>1 DEF Latched
<1>3. /\ f \in Frames /\ f < file.numPages /\ k \in Jobs /\ PoolType(pool) /\ file \in FileType
      /\ ~Writes(k) /\ file.pos \in Nat /\ k.page = f /\ pool.table[f] = f
      /\ Owns(k) => pool.frames[f].writer = t
  BY <1>2, LatchedFrame
<1>4. job' = [job EXCEPT ![t] = j]
  <2>1. Cached(k.page) /\ pool.table[k.page] = f
    BY <1>3, ResidentNumbers DEF Cached
  <2> QED
    BY <2>1 DEF UnlatchPage, Proceed
<1>5. /\ j \in Jobs /\ j.pc = "release" /\ j.pc \in Latched /\ j.op = k.op /\ j.page = k.page
      /\ j.frame = k.frame
  BY <1>3 DEF Jobs, Latched
<1> HIDE DEF j
<1>6. Owns(j) => pool'.frames[j.frame].writer = t
  BY <1>1, <1>3, <1>5 DEF Owns
<1>7. /\ CallFits(pool', file', latch', t, j) /\ ~Writes(j)
      /\ \A g \in Frames : (Latches(j, g) <=> Latches(job[t], g)) /\ ~Rejoins(job[t], g)
  BY <1>1, <1>2, <1>5, <1>6, LatchGoesOn
<1>8. Locks(t) /\ Reaches(t, j)
  BY <1>1, <1>3, <1>7 DEF Locks, Reaches, One
<1>9. Dirtied(pool')
  BY <1>1, NotDirtied
<1> QED
  BY <1>1, <1>3, <1>4, <1>5, <1>7, <1>8, <1>9, OffFrames DEF Dirtied

\* The latch and its pin are given back.
LEMMA ReleaseLatchReleases ==
    ASSUME Resident, ResidentInv, NEW t \in Threads, ReleaseLatch(t)
    PROVE  ResidentInv' /\ Shows(t, StoreOf(pool, file))
<1> DEFINE k == job[t]
           f == k.frame
           n == pool.frames[f].pin - 1
           c == pool.frames[f].content
           w == pool.frames[f].dirty
           hd == held[t]
           j == IF pool.frames[f].pin = 1 THEN [k EXCEPT !.pc = "rejoin"] ELSE Idle
<1>1. /\ k.pc = "release" /\ file' = file /\ latch' = latch /\ held' = held /\ seen' = seen
      /\ pool' = Released(pool, f, t) /\ job' = [job EXCEPT ![t] = j]
  BY DEF ReleaseLatch, At, Released, Proceed, Return
<1>2. k.pc \in Latched
  BY <1>1 DEF Latched
<1>3. /\ f \in Frames /\ f < file.numPages /\ k \in Jobs /\ PoolType(pool) /\ file \in FileType
      /\ ~Writes(k) /\ file.pos \in Nat /\ k.page = f /\ f \in Pages /\ latch # t
      /\ k.op \in {"edit", "look"}
  BY <1>2, LatchedFrame
<1>4. Latches(k, f) /\ \A g \in Frames : (Latches(k, g) => g = f) /\ ~Rejoins(k, g)
  BY <1>1, <1>2 DEF Latches, Rejoins
<1>5. pool.frames[f].pin \in Nat /\ n \in 0 .. 2 * Cardinality(Threads)
  <2>1. 1 <= pool.frames[f].pin /\ pool.frames[f].pin \in Nat
        /\ pool.frames[f].pin <= 2 * Cardinality(Threads)
    BY <1>3, <1>4, PinsLeft, ResidentNumbers DEF One
  <2> QED
    BY <2>1, ResidentNumbers
<1>6. ChangedTo(pool, pool', f, c, n, w) /\ pool'.lru = pool.lru
  BY <1>1, <1>3, <1>5, ReleasedIs
<1>7. \/ pool'.frames[f].writer = pool.frames[f].writer
      \/ pool.frames[f].writer \in {Nobody, t}
  <2>1. /\ pool' = Released(pool, f, t) /\ f \in Frames /\ PoolType(pool)
        /\ pool.frames[f] \in FrameType
    BY <1>1, <1>3 DEF PoolType
  <2> HIDE DEF k, f
  <2>2. pool'.frames[f].writer = IF pool.frames[f].writer = t THEN Nobody ELSE pool.frames[f].writer
    BY <2>1 DEF Released, PoolType, FrameType
  <2> QED
    BY <2>2
<1>8. /\ j \in Jobs /\ CallFits(pool', file', latch', t, j) /\ ~Writes(j)
      /\ \A g : ~Latches(j, g)
      /\ n = 0 => Rejoins(j, f)
  <2>1. CASE pool.frames[f].pin = 1
    <3>1. /\ j \in Jobs /\ j.pc = "rejoin" /\ j.op = k.op /\ j.page = f /\ j.frame = f
      BY <1>3, <2>1 DEF Jobs
    <3> HIDE DEF j
    <3>2. CallFits(pool', file', latch', t, j)
      BY <1>1, <1>3, <3>1 DEF CallFits, Owns, Loads, Flushes, Latched
    <3> QED
      BY <3>1, <3>2 DEF Writes, Latches, Latched, Rejoins
  <2>2. CASE pool.frames[f].pin # 1
    <3>1. j = Idle /\ n # 0
      BY <1>5, <2>2
    <3> QED
      BY <1>1, <1>3, <3>1, IdleFits
  <2> QED
    BY <2>1, <2>2
<1> HIDE DEF j
<1>9. Repins(t, j, hd, f, n)
  <2>1. One(Latches(j, f)) = 0 /\ One(Latches(k, f)) = 1
    BY <1>4, <1>8 DEF One
  <2>2. n = pool.frames[f].pin - 1 /\ One(Holds(hd, f)) \in Int
    BY DEF One
  <2> HIDE DEF n
  <2> QED
    BY <1>5, <2>1, <2>2 DEF Repins
<1>10. Locks(t) /\ Reaches(t, j) /\ Touches(t, f, c, seen[t])
  BY <1>1, <1>3, <1>8 DEF Locks, Reaches, Touches, One
<1>11. hd \in SUBSET Handles /\ HandlesFit(file, hd) /\ Turns(t, j, hd, seen[t])
  BY <1>1, ResidentThread DEF Turns
<1>12. \A g \in Frames : g # f =>
          /\ Holds(hd, g) <=> Holds(held[t], g)
          /\ Latches(j, g) <=> Latches(job[t], g)
          /\ ~Rejoins(job[t], g)
  BY <1>4, <1>8
<1> HIDE DEF k, f, n, c, w, hd
<1> QED
  BY <1>1, <1>3, <1>6, <1>7, <1>8, <1>9, <1>10, <1>11, <1>12, OnFrame

\* The frame nobody has pinned any more returns to the replacer.
LEMMA RejoinReplacerRejoins ==
    ASSUME Resident, ResidentInv, NEW t \in Threads, RejoinReplacer(t)
    PROVE  ResidentInv' /\ Shows(t, StoreOf(pool, file))
<1> DEFINE k == job[t]
           f == k.frame
           n == pool.frames[f].pin
           c == pool.frames[f].content
           w == pool.frames[f].dirty
           hd == held[t]
           l == LruUnpin(pool.lru, f)
<1>1. /\ k.pc = "rejoin" /\ file' = file /\ latch' = latch /\ held' = held /\ seen' = seen
      /\ pool' = [pool EXCEPT !.lru = l] /\ job' = [job EXCEPT ![t] = Idle]
  <2>1. pool' = [pool EXCEPT !.lru = LruUnpin(@, f)]
    BY DEF RejoinReplacer
  <2>2. pool' = [pool EXCEPT !.lru = l]
    BY <2>1, ResidentThread DEF PoolType
  <2> QED
    BY <2>2 DEF RejoinReplacer, At, Return
<1>3. /\ f \in Frames /\ f < file.numPages /\ PoolType(pool) /\ file \in FileType
      /\ ~Writes(k) /\ file.pos \in Nat /\ latch # t
  BY <1>1, LatchedFrame
<1>4. \A g \in Frames : ~Latches(k, g) /\ (Rejoins(k, g) => g = f)
  BY <1>1 DEF Latches, Latched, Rejoins
<1>5. Tidy(l) /\ Linked(l) = Linked(pool.lru) \cup {f}
  BY <1>3, TidyUnpin DEF PoolType
<1> HIDE DEF l
<1>6. PoolType(pool') /\ pool'.table = pool.table /\ pool'.frames = pool.frames /\ pool'.lru = l
  BY <1>1, <1>3, <1>5, RelinkedIs
<1>7. ChangedTo(pool, pool', f, c, n, w)
  BY <1>6 DEF ChangedTo, IsFrame
<1>8. /\ Idle \in Jobs /\ CallFits(pool', file', latch', t, Idle) /\ ~Writes(Idle)
      /\ \A g : ~Latches(Idle, g)
  BY <1>1, <1>3, IdleFits
<1>9. Repins(t, Idle, hd, f, n)
  <2>1. One(Latches(Idle, f)) = 0 /\ One(Latches(k, f)) = 0 /\ One(Holds(hd, f)) \in Int
    BY <1>3, <1>4, <1>8 DEF One
  <2>2. n \in Nat
    BY <1>3, PinsLeft
  <2> QED
    BY <2>1, <2>2 DEF Repins
<1>10. Locks(t) /\ Reaches(t, Idle) /\ Touches(t, f, c, seen[t])
  BY <1>1, <1>3, <1>8 DEF Locks, Reaches, Touches, One
<1>11. hd \in SUBSET Handles /\ HandlesFit(file, hd) /\ Turns(t, Idle, hd, seen[t])
  BY <1>1, ResidentThread DEF Turns
<1>12. \A g \in Frames : g # f =>
          /\ Holds(hd, g) <=> Holds(held[t], g)
          /\ Latches(Idle, g) <=> Latches(job[t], g)
          /\ ~Rejoins(job[t], g)
  BY <1>4, <1>8
<1>13. /\ Linked(pool.lru) \subseteq Linked(pool'.lru) /\ Linked(pool'.lru) \subseteq Linked(pool.lru) \cup {f}
       /\ f \in Linked(pool'.lru) /\ pool'.frames[f].writer = pool.frames[f].writer
  BY <1>5, <1>6
<1> HIDE DEF k, f, n, c, w, hd
<1> QED
  BY <1>1, <1>3, <1>7, <1>8, <1>9, <1>10, <1>11, <1>12, <1>13, OnFrame

\* Frames beyond the file have no pins.
LEMMA NoPinsBeyond ==
    ASSUME Resident, ResidentInv, NEW f \in Frames, f >= file.numPages
    PROVE  pool.frames[f].pin = 0
<1>1. file.numPages \in Nat /\ f \in Nat
  BY ResidesIs, ResidentNumbers DEF ResidentInv
<1>2. ASSUME NEW u \in Threads
      PROVE  ~Holds(held[u], f) /\ ~Latches(job[u], f)
  <2>1. CallFits(pool, file, latch, u, job[u]) /\ HandlesFit(file, held[u])
    BY ResidentThread
  <2>2. ~Holds(held[u], f)
    BY <1>1, <2>1 DEF Holds, HandlesFit
  <2>3. ~Latches(job[u], f)
    BY <1>1, <2>1 DEF Latches, CallFits
  <2> QED
    BY <2>2, <2>3
<1>3. {u \in Threads : Holds(held[u], f)} = {} /\ {u \in Threads : Latches(job[u], f)} = {}
  BY <1>2
<1> QED
  BY <1>3, FS_EmptySet DEF ResidentInv, Pinned

\* NewPage goes on with the lowest empty frame, which has the number of the page.
LEMMA LowestEmpty ==
    ASSUME Resident, ResidentInv, NEW p \in Pages, p = file.numPages
    PROVE  p \in EmptyFrames /\ Lowest(EmptyFrames) = p
<1>1. Resides(pool, file) /\ p \in Frames /\ Frames \subseteq Nat
  BY ResidentNumbers DEF ResidentInv
<1>2. p \in EmptyFrames
  BY <1>1 DEF Resides, EmptyFrames
<1>3. \A f \in EmptyFrames : ~(f < p)
  BY <1>1 DEF Resides, EmptyFrames, Ready
<1>4. EmptyFrames \subseteq Nat
  BY <1>1 DEF EmptyFrames
<1>5. Lowest(EmptyFrames) \in EmptyFrames /\ Lowest(EmptyFrames) <= p
  BY <1>2, <1>4, LowestIs
<1> QED
  BY <1>2, <1>3, <1>4, <1>5

\* The new page is in its frame, and pinned by the client.
LEMMA Enters ==
    ASSUME Resident, ResidentInv, NEW t \in Threads, job[t].pc = "allocate", NEW p, p = job[t].page,
           NEW w \in BOOLEAN, EnteredTo(pool, pool', p, p, Formatted(p), 1, w),
           HandOut(t, p, p), latch' = Nobody,
           file' \in FileType, file'.numPages = p + 1, file'.pos = file.pos + 1
    PROVE  ResidentInv' /\ Shows(t, StoreOf(pool, file))
<1> DEFINE c == Formatted(p)
           h == Handle(p, p)
           hd == held[t] \cup {h}
           N == file.numPages
<1>1. /\ Resides(pool, file) /\ HandlesFit(file, held[t]) /\ held[t] \in SUBSET Handles
      /\ CallFits(pool, file, latch, t, job[t]) /\ t # Nobody
  BY ResidentThread
<1>2. p \in Pages /\ p \in Frames /\ N = p /\ latch = t /\ N \in Nat /\ Writes(job[t])
  BY <1>1, ResidentNumbers DEF CallFits, Writes
<1>3. /\ PoolType(pool') /\ pool'.lru = pool.lru
      /\ \A q \in Pages : pool'.table[q] = IF q = p THEN p ELSE pool.table[q]
      /\ \A g \in Frames : g # p => pool'.frames[g] = pool.frames[g]
      /\ pool'.frames[p].page = p /\ pool'.frames[p].content = c /\ Ready(pool', p)
      /\ pool'.frames[p].pin = 1
  BY DEF EnteredTo, IsFrame, Ready
<1>4. c.page = p /\ c.ver = 1 /\ c \in Contents /\ c # Zeros
  BY <1>2, FirstValues DEF Formatted
<1>5. h \in Handles /\ h.page = p /\ h.frame = p
  BY <1>2 DEF Handle, Handles
<1>6. Turns(t, Idle, hd, c)
  BY <1>3 DEF HandOut, Return, Turns
<1> HIDE DEF c, h
<1>7. Resides(pool', file')
  <2>1. \A g \in Frames : g >= p + 1 => g # p /\ g >= N
    BY <1>2, ResidentNumbers
  <2>2. \A g \in Frames : g < p + 1 => g = p \/ (g < N /\ g # p)
    BY <1>2, ResidentNumbers
  <2>3. \A g \in Frames : g >= file'.numPages => pool'.frames[g].state = "Empty"
    BY <1>1, <1>3, <2>1 DEF Resides
  <2>4. \A g \in Frames : g < file'.numPages =>
           Ready(pool', g) /\ pool'.frames[g].page = g /\ pool'.frames[g].content.page = g
    BY <1>1, <1>3, <1>4, <2>2 DEF Resides, Ready
  <2>5. \A q \in Pages : pool'.table[q] = IF q < file'.numPages THEN q ELSE NoFrame
    <3>1. \A q \in Pages : q # p => (q < p + 1 <=> q < N)
      BY <1>2, ResidentNumbers
    <3> QED
      BY <1>1, <1>2, <1>3, <3>1 DEF Resides
  <2>6. \A g \in Linked(pool'.lru) : g < file'.numPages
    <3>1. \A g \in Linked(pool.lru) : g \in Frames /\ g < N
      BY <1>1, ResidesIs DEF Resides
    <3> QED
      BY <1>2, <1>3, <3>1, ResidentNumbers
  <2> QED
    BY <1>3, <2>3, <2>4, <2>5, <2>6 DEF Resides
<1>8. hd \in SUBSET Handles /\ HandlesFit(file', hd)
  <2>1. \A k \in held[t] : k.page \in Nat /\ k.frame = k.page /\ k.page < N /\ k.page # p
    BY <1>1, <1>2, ResidentNumbers DEF HandlesFit, Handles
  <2>2. \A k \in hd : k.frame = k.page /\ k.page < p + 1
    BY <1>2, <1>5, <2>1
  <2>3. \A k, m \in hd : k.page = m.page => k = m
    BY <1>1, <1>5, <2>1 DEF HandlesFit
  <2> QED
    BY <1>1, <1>5, <2>2, <2>3 DEF HandlesFit
<1>9. \A g : Holds(hd, g) <=> Holds(held[t], g) \/ g = p
  BY <1>5 DEF Holds
<1>10. ~Holds(held[t], p)
  BY <1>1, <1>2 DEF HandlesFit, Holds
<1> HIDE DEF hd
<1>11. /\ CallFits(pool', file', latch', t, Idle) /\ Idle \in Jobs /\ ~Writes(Idle)
       /\ \A g : ~Latches(Idle, g) /\ ~Rejoins(Idle, g)
  BY <1>1, IdleFits
<1>12. Fits(pool', file', latch', t, Idle, hd, c)
  <2>1. Saw(pool', file', c)
    BY <1>2, <1>3, <1>4 DEF Saw
  <2> QED
    BY <1>4, <1>8, <1>11, <2>1 DEF Fits
<1>13. file.pos \in Nat
  BY <1>1, ResidesIs, ResidentNumbers DEF Positions
<1>14. Locks(t) /\ Reaches(t, Idle)
  BY <1>2, <1>11, <1>13 DEF Locks, Reaches, One
<1>15. ASSUME NEW g \in Frames, g < file.numPages
       PROVE  /\ pool.frames[g].content.ver <= pool'.frames[g].content.ver
              /\ pool'.frames[g].writer = pool.frames[g].writer
              /\ pool'.frames[g].content = pool.frames[g].content
  <2>1. pool'.frames[g] = pool.frames[g]
    BY <1>2, <1>3, <1>15
  <2>2. pool.frames[g].content.ver \in 1 .. MaxVersion
    BY <1>1, <1>15, ResidesIs
  <2>3. pool.frames[g].content.ver <= pool.frames[g].content.ver
    BY <2>2, BoundAssumption
  <2> QED
    BY <2>1, <2>3
<1>16. \A g \in Frames : ~Latches(job[t], g) /\ ~Rejoins(job[t], g)
  BY DEF Latches, Latched, Rejoins
<1>17. ASSUME NEW g \in Frames
       PROVE  Repins(t, Idle, hd, g, pool'.frames[g].pin)
  <2>1. CASE g = p
    <3>1. pool.frames[p].pin = 0
      BY <1>2, NoPinsBeyond
    <3>2. /\ One(Holds(hd, p)) = 1 /\ One(Holds(held[t], p)) = 0
          /\ One(Latches(Idle, p)) = 0 /\ One(Latches(job[t], p)) = 0
      BY <1>2, <1>9, <1>10, <1>11, <1>16 DEF One
    <3> QED
      BY <1>3, <2>1, <3>1, <3>2 DEF Repins
  <2>2. CASE g # p
    <3>1. pool'.frames[g].pin = pool.frames[g].pin /\ pool.frames[g].pin \in Nat
      BY <1>1, <1>3, <2>2, ResidesIs
    <3>2. /\ One(Holds(hd, g)) = One(Holds(held[t], g)) /\ One(Holds(hd, g)) \in Int
          /\ One(Latches(Idle, g)) = 0 /\ One(Latches(job[t], g)) = 0
      BY <1>9, <1>11, <1>16, <2>2 DEF One
    <3> QED
      BY <3>1, <3>2 DEF Repins
  <2> QED
    BY <2>1, <2>2
<1>18. ASSUME NEW g \in Frames, g < file'.numPages, pool'.frames[g].pin = 0
       PROVE  g < file.numPages /\ pool.frames[g].pin = 0 /\ ~Rejoins(job[t], g)
  <2>1. g # p
    BY <1>3, <1>18
  <2>2. g < file.numPages
    BY <1>2, <1>18, <2>1, ResidentNumbers
  <2> QED
    BY <1>3, <1>16, <1>18, <2>1, <2>2
<1>19. file.numPages <= file'.numPages /\ Linked(pool.lru) \subseteq Linked(pool'.lru)
  BY <1>2, <1>3
<1>20. ResidentInv'
  BY <1>2, <1>6, <1>7, <1>12, <1>14, <1>15, <1>17, <1>18, <1>19, Turned
<1> DEFINE st == StoreOf(pool, file)
           st2 == StoreOf(pool', file')
<1>21. st[p] = Zeros /\ st2[p] = c
  <2>1. st[p] = IF p < file.numPages THEN pool.frames[p].content ELSE Zeros
    BY <1>1, <1>2, ResidentStore
  <2>2. st2[p] = IF p < file'.numPages THEN pool'.frames[p].content ELSE Zeros
    BY <1>2, <1>7, ResidentStore
  <2>3. ~(p < file.numPages) /\ p < file'.numPages
    BY <1>2
  <2> QED
    BY <1>3, <2>1, <2>2, <2>3
<1>22. \A q \in Pages : q # p => st2[q] = st[q]
  <2> SUFFICES ASSUME NEW q \in Pages, q # p
               PROVE  st2[q] = st[q]
    OBVIOUS
  <2>1. st[q] = IF q < file.numPages THEN pool.frames[q].content ELSE Zeros
    BY <1>1, ResidentStore
  <2>2. st2[q] = IF q < file'.numPages THEN pool'.frames[q].content ELSE Zeros
    BY <1>7, ResidentStore
  <2>3. pool'.frames[q] = pool.frames[q] /\ (q < file'.numPages <=> q < file.numPages)
    BY <1>2, <1>3, ResidentNumbers
  <2> QED
    BY <2>1, <2>2, <2>3
<1>23. st = [q \in Pages |-> st[q]] /\ st2 = [q \in Pages |-> st2[q]]
  BY DEF StoreOf
<1> HIDE DEF st, st2
<1>24. st2 = [st EXCEPT ![p] = c]
  BY <1>2, <1>21, <1>22, <1>23
<1>25. seen' = [seen EXCEPT ![t] = c]
  BY <1>6 DEF Turns
<1> QED
  BY <1>2, <1>20, <1>21, <1>24, <1>25 DEF Shows, st, st2, c

\* The zeros are written, and the page gets its frame; or nothing happens.
LEMMA AllocateAllocates ==
    ASSUME Resident, ResidentInv, NEW t \in Threads, Allocate(t)
    PROVE  ResidentInv' /\ Shows(t, StoreOf(pool, file))
<1> DEFINE k == job[t]
           p == k.page
<1>1. /\ PoolType(pool) /\ file \in FileType /\ CallFits(pool, file, latch, t, k) /\ Resides(pool, file)
      /\ k.pc = "allocate" /\ t # Nobody
  BY ResidentThread DEF Allocate, At
<1>2. p \in Pages /\ p \in Frames /\ p = file.numPages /\ k.op = "new" /\ latch = t /\ p \in Nat
  BY <1>1, ResidentNumbers DEF CallFits
<1>3. Writes(k)
  BY <1>1 DEF Writes
<1>4. CASE file' = [Written(Zeros) EXCEPT !.numPages = @ + 1] /\ ObtainFrame(t, k)
  <2> DEFINE d == Written(Zeros)
  <2>1. file' = [d EXCEPT !.numPages = @ + 1]
    BY <1>4
  <2>2. d \in FileType /\ d.numPages = p /\ d.pos = file.pos + 1
    BY <1>2, <1>3, FirstValues, WithinFile
  <2> HIDE DEF d
  <2>3. p + 1 \in Pages \cup {MaxPages}
    BY <1>2, Numbers
  <2>4. file' \in FileType /\ file'.numPages = p + 1 /\ file'.pos = file.pos + 1
    BY <2>1, <2>2, <2>3 DEF FileType
  <2>5. p \in EmptyFrames /\ Lowest(EmptyFrames) = p
    BY <1>2, LowestEmpty
  <2>6. UseFrame(t, k, p, pool)
    BY <1>4, <2>5 DEF ObtainFrame
  <2>7. latch' = Nobody /\ pool' = Installed(pool, p, p) /\ HandOut(t, p, p)
    BY <1>2, <2>6 DEF UseFrame
  <2>8. p \notin Linked(pool.lru)
    BY <1>1, <1>2 DEF Resides
  <2>9. 1 \in 0 .. 2 * Cardinality(Threads)
    <3>1. Cardinality(Threads) \in Nat /\ Threads # {}
      BY ResidentNumbers
    <3>2. Cardinality(Threads) # 0
      BY <3>1, FS_EmptySet DEF Resident
    <3> QED
      BY <3>1, <3>2
  <2>10. PICK w \in BOOLEAN : w /\ EnteredTo(pool, pool', p, p, Formatted(p), 1, w)
    BY <1>1, <1>2, <2>7, <2>8, <2>9, InstalledIs
  <2> QED
    BY <1>1, <2>4, <2>7, <2>10, Enters
<1>5. CASE ReturnNull(t) /\ UNCHANGED file
  <2>1. /\ job' = [job EXCEPT ![t] = Idle] /\ held' = held /\ pool' = pool /\ seen' = seen
        /\ latch' = Nobody /\ file' = file
    BY <1>5 DEF ReturnNull, Return
  <2>2. /\ CallFits(pool', file', latch', t, Idle) /\ Idle \in Jobs /\ ~Writes(Idle)
        /\ \A g : ~Latches(Idle, g) /\ ~Rejoins(Idle, g)
    BY <1>1, <2>1, IdleFits
  <2>3. \A g \in Frames : ~Latches(k, g) /\ ~Rejoins(k, g)
    BY <1>1 DEF Latches, Latched, Rejoins
  <2>4. file.pos \in Nat
    BY <1>1, ResidentNumbers DEF FileType, Positions
  <2>5. Locks(t) /\ Reaches(t, Idle)
    BY <1>2, <2>1, <2>2, <2>4, <1>3 DEF Locks, Reaches, One
  <2>6. Dirtied(pool')
    BY <2>1, NotDirtied
  <2> QED
    BY <1>1, <2>1, <2>2, <2>3, <2>5, <2>6, OffFrames DEF Dirtied
<1> QED
  BY <1>4, <1>5 DEF Allocate

-----------------------------------------------------------------------------
\* The invariant.

\* It holds before the first call.
LEMMA ResidentInit == ASSUME Resident, Init PROVE ResidentInv
<1>1. /\ DOMAIN pool = {"frames", "table", "lru"} /\ pool.lru = EmptyLru
      /\ pool.frames = [f \in Frames |-> EmptyFrame] /\ pool.table = [p \in Pages |-> NoFrame]
      /\ latch = Nobody /\ job = [u \in Threads |-> Idle] /\ held = [u \in Threads |-> {}]
      /\ seen = [u \in Threads |-> Zeros]
  BY DEF Init
<1>2. EmptyFrame \in FrameType /\ EmptyFrame.state = "Empty" /\ EmptyFrame.pin = 0
  <2>1. 0 \in 0 .. 2 * Cardinality(Threads)
    BY ResidentNumbers
  <2> QED
    BY <2>1, FirstFrame DEF EmptyFrame
<1>3. PoolType(pool) /\ Linked(pool.lru) = {}
  BY <1>1, <1>2, TidyEmpty DEF PoolType
<1>4. file \in FileType /\ file.numPages = 0 /\ file.pos = 0
  <2> DEFINE disk == [q \in Positions |-> IF q < Preallocated THEN Formatted(q) ELSE Absent]
  <2>1. file = [disk |-> disk, numPages |-> 0, pos |-> 0]
    BY DEF Init, Resident
  <2>2. \A q \in Positions : disk[q] = Absent
    BY ResidentNumbers DEF Resident, Positions
  <2>3. disk \in [Positions -> Contents \cup {Absent}]
    BY <2>2
  <2> HIDE DEF disk
  <2>4. 0 \in Pages \cup {MaxPages} /\ 0 \in Positions
    BY ResidentNumbers DEF Pages, Positions
  <2> QED
    BY <2>1, <2>3, <2>4 DEF FileType
<1>5. Resides(pool, file)
  <2>1. \A f \in Frames : f >= 0 /\ ~(f < 0)
    BY ResidentNumbers
  <2>2. \A p \in Pages : ~(p < 0)
    BY ResidentNumbers
  <2> QED
    BY <1>1, <1>2, <1>3, <1>4, <2>1, <2>2 DEF Resides
<1>6. ASSUME NEW t \in Threads
      PROVE  /\ Fits(pool, file, latch, t, job[t], held[t], seen[t]) /\ ~Writes(job[t])
             /\ \A f : ~Latches(job[t], f) /\ ~Holds(held[t], f)
  <2>1. job[t] = Idle /\ held[t] = {} /\ seen[t] = Zeros /\ latch # t
    BY <1>1, BoundAssumption
  <2>2. /\ CallFits(pool, file, latch, t, Idle) /\ Idle \in Jobs /\ ~Writes(Idle)
        /\ \A g : ~Latches(Idle, g) /\ ~Rejoins(Idle, g)
    BY <2>1, IdleFits
  <2> QED
    BY <2>1, <2>2, FirstValues DEF Fits, HandlesFit, Saw, Holds
<1>7. Pinned(pool, job, held)
  <2> SUFFICES ASSUME NEW f \in Frames
               PROVE  pool.frames[f].pin = Cardinality({t \in Threads : Holds(held[t], f)})
                                           + Cardinality({t \in Threads : Latches(job[t], f)})
    BY DEF Pinned
  <2>1. {t \in Threads : Holds(held[t], f)} = {} /\ {t \in Threads : Latches(job[t], f)} = {}
    BY <1>6
  <2>2. pool.frames[f].pin = 0
    BY <1>1, <1>2
  <2> QED
    BY <2>1, <2>2, FS_EmptySet
<1>8. Kept(pool, file, job)
  <2>1. \A f \in Frames : ~(f < 0)
    BY ResidentNumbers
  <2> QED
    BY <1>4, <2>1 DEF Kept
<1>9. WithinReach(file, job)
  <2>1. {t \in Threads : Writes(job[t])} = {}
    BY <1>6
  <2>2. file.pos + Cardinality({t \in Threads : Writes(job[t])}) = 0
    BY <1>4, <2>1, FS_EmptySet
  <2> QED
    BY <2>2, ResidentNumbers DEF WithinReach
<1>10. latch \in Threads \cup {Nobody} /\ job \in [Threads -> Jobs]
       /\ held \in [Threads -> SUBSET Handles] /\ seen \in [Threads -> Contents]
  BY <1>1, FirstValues
<1> QED
  BY <1>5, <1>6, <1>7, <1>8, <1>9, <1>10 DEF ResidentInv

\* Every step of a thread keeps it, and is a step of PageStore.
LEMMA ResidentStep ==
    ASSUME Resident, ResidentInv, NEW t \in Threads, Request(t) \/ Continue(t)
    PROVE  ResidentInv' /\ Shows(t, StoreOf(pool, file))
<1>1. CASE \E p \in Pages : FetchPage(t, p) \/ FlushPage(t, p)
  BY <1>1, FetchPageHits, FlushPageFlushes
<1>2. CASE NewPage(t)
  BY <1>2, NewPageSeeks
<1>3. CASE FlushAll(t)
  BY <1>3, FlushAllFlushes
<1>4. CASE \E h \in held[t] : UnpinPage(t, h)
  BY <1>4, UnpinPageUnpins
<1>5. CASE \E h \in held[t] : Modify(t, h)
  BY <1>5, ModifyEdits
<1>6. CASE \E h \in held[t], op \in {"edit", "look"} : LatchPage(t, h, op)
  BY <1>6, LatchPagePins
<1>7. CASE WaitLoaded(t) \/ LookAgain(t) \/ LoadSeek(t) \/ LoadRead(t) \/ LoadDone(t)
  <2>1. job[t].pc \notin {"wait", "recheck"} \cup Loads
    BY ResidentThread DEF CallFits, Jobs, Loads, Flushes, Latched
  <2> QED
    BY <1>7, <2>1 DEF WaitLoaded, LookAgain, LoadSeek, LoadRead, LoadDone, At, Loads
<1>8. CASE Allocate(t)
  BY <1>8, AllocateAllocates
<1>9. CASE FlushSeek(t) \/ FlushWrite(t) \/ FlushDone(t)
  BY <1>9, FlushSeekSeeks, FlushWriteWrites, FlushDoneEnds
<1>10. CASE AcquireLatch(t) \/ UseLatched(t) \/ UnlatchPage(t)
  BY <1>10, AcquireLatchLocks, UseLatchedUses, UnlatchPageFinds
<1>11. CASE ReleaseLatch(t) \/ RejoinReplacer(t)
  BY <1>11, ReleaseLatchReleases, RejoinReplacerRejoins
<1>12. CASE Request(t)
  BY <1>1, <1>2, <1>3, <1>4, <1>5, <1>6, <1>12 DEF Request
<1>13. CASE Continue(t)
  BY <1>7, <1>8, <1>9, <1>10, <1>11, <1>13 DEF Continue
<1> QED
  BY <1>12, <1>13

\* The invariant holds of the specification.
LEMMA ResidentInvariance == ASSUME Resident PROVE Spec => []ResidentInv
<1>1. Init => ResidentInv
  BY ResidentInit
<1>2. ResidentInv /\ [Next]_vars => ResidentInv'
  <2> SUFFICES ASSUME ResidentInv, [Next]_vars
               PROVE  ResidentInv'
    OBVIOUS
  <2>1. CASE Next
    BY <2>1, ResidentStep DEF Next
  <2>2. CASE UNCHANGED vars
    BY <2>2 DEF vars, ResidentInv
  <2> QED
    BY <2>1, <2>2
<1> QED
  BY <1>1, <1>2, PTL DEF Spec

\* Counts of pins stay within twice the number of threads, and no position of the
\* FILE*, which all threads share without a lock, is further behind the file than
\* there are threads.
THEOREM ResidentTypes == ASSUME Resident PROVE Spec => []TypeOK
<1>1. ResidentInv => TypeOK
  <2> SUFFICES ASSUME ResidentInv
               PROVE  TypeOK
    OBVIOUS
  <2>1. PoolType(pool) /\ file \in FileType /\ latch \in Threads \cup {Nobody}
        /\ seen \in [Threads -> Contents]
    BY DEF ResidentInv, Resides
  <2> QED
    BY <2>1 DEF TypeOK, PoolType, FileType
<1> QED
  BY <1>1, ResidentInvariance, PTL

\* However many threads fetch, unpin and latch pages at once, the count of pins of
\* a frame is the number of those that have it pinned.
THEOREM ResidentPins == ASSUME Resident PROVE Spec => []PinsAccounted
<1>1. ResidentInv => PinsAccounted
  <2> SUFFICES ASSUME ResidentInv, NEW f \in Frames
               PROVE  pool.frames[f].pin = Cardinality(Holders(f)) + Cardinality(Latchers(f))
    BY DEF PinsAccounted
  <2>1. Holders(f) = {t \in Threads : Holds(held[t], f)}
    BY DEF Holders, Holds
  <2>2. Latchers(f) = {t \in Threads : Latches(job[t], f)}
    BY DEF Latchers, Latches, Latched
  <2> QED
    BY <2>1, <2>2 DEF ResidentInv, Pinned
<1> QED
  BY <1>1, ResidentInvariance, PTL

\* A page that several clients hold stays in the frame each of them was given.
THEOREM ResidentPinned == ASSUME Resident PROVE Spec => []PinnedStays
<1>1. ResidentInv => PinnedStays
  <2> SUFFICES ASSUME ResidentInv, NEW t \in Threads, NEW h \in held[t]
               PROVE  pool.frames[h.frame].state = "Ready" /\ pool.frames[h.frame].page = h.page
    BY DEF PinnedStays
  <2>1. held[t] \in SUBSET Handles /\ HandlesFit(file, held[t])
    BY ResidentThread
  <2>2. h.page \in Pages /\ h.page < file.numPages /\ h.frame = h.page
    BY <2>1 DEF HandlesFit, Handles
  <2> QED
    BY <2>2, ResidentFrame DEF Ready
<1> QED
  BY <1>1, ResidentInvariance, PTL

\* The last pin may be given back outside latch_ (unlatchPage): whoever takes the
\* count to zero still returns the frame to the replacer.
THEOREM ResidentFrames == ASSUME Resident PROVE Spec => []NoFrameLost
<1>1. ResidentInv => NoFrameLost
  <2> SUFFICES ASSUME ResidentInv, NEW f \in Frames, pool.frames[f].state = "Ready",
                      pool.frames[f].pin = 0, f \notin Linked(pool.lru)
               PROVE  \E t \in Threads : job[t].pc = "rejoin" /\ job[t].frame = f
    BY DEF NoFrameLost
  <2>1. Resides(pool, file) /\ f \in Nat /\ file.numPages \in Nat
    BY ResidesIs, ResidentNumbers DEF ResidentInv
  <2>2. f < file.numPages
    BY <2>1 DEF Resides
  <2> QED
    BY <2>2 DEF ResidentInv, Kept, Rejoins
<1> QED
  BY <1>1, ResidentInvariance, PTL

\* Threads that change pages only under the write latch never have an old copy of
\* a page written: the frame stays as it was copied until the write is done.
THEOREM ResidentFlushes ==
    ASSUME Resident, "modify" \notin Ops
    PROVE  Spec => []FlushesCurrent
<1>1. ResidentInv => FlushesCurrent
  <2> SUFFICES ASSUME ResidentInv, NEW t \in Threads, job[t].pc = "flushWrite"
               PROVE  job[t].buffer = pool.frames[job[t].frame].content
    BY DEF FlushesCurrent, At
  <2> QED
    BY ResidentThread DEF CallFits
<1> QED
  BY <1>1, ResidentInvariance, PTL

\* No thread's change of a page is lost to another one, whatever fails.
THEOREM ResidentNothingLost == ASSUME Resident PROVE Spec => []NothingLost
<1>1. ResidentInv => NothingLost
  <2> SUFFICES ASSUME ResidentInv, NEW t \in Threads, seen[t] # Zeros
               PROVE  Current(seen[t].page).ver >= seen[t].ver
    BY DEF NothingLost
  <2> DEFINE p == seen[t].page
  <2>1. seen[t] \in Contents /\ Saw(pool, file, seen[t])
    BY ResidentThread
  <2>2. p \in Pages /\ p < file.numPages /\ seen[t].ver <= pool.frames[p].content.ver
        /\ seen[t].ver \in 1 .. MaxVersion
    BY <2>1 DEF Saw, Contents
  <2>3. Cached(p) /\ pool.table[p] = p
    BY <2>2, ResidentFrame
  <2>4. pool.frames[p].content.ver \in 1 .. MaxVersion
    BY <2>2, ResidentNumbers, ResidesIs DEF ResidentInv
  <2> QED
    BY <2>2, <2>3, <2>4, BoundAssumption DEF Current
<1> QED
  BY <1>1, ResidentInvariance, PTL

\* As long as nothing has to be evicted, caching does not show to any number of
\* threads, even when every read and write fails: each is handed the page as the
\* last change by any of them left it.
THEOREM ResidentRefinement == ASSUME Resident PROVE Spec => IsPageStore
<1> DEFINE st == [p \in Pages |-> Current(p)]
<1>1. st = StoreOf(pool, file) /\ st' = StoreOf(pool', file')
  <2>1. st = StoreOf(pool, file)
    BY DEF StoreOf, Latest, Current, Cached, InTable, FrameOf
  <2>2. st' = StoreOf(pool', file')
    BY DEF StoreOf, Latest, Current, Cached, InTable, FrameOf
  <2> QED
    BY <2>1, <2>2
<1>2. Init => Store!Init
  <2> SUFFICES ASSUME Init
               PROVE  Store!Init
    OBVIOUS
  <2>1. \A p \in Pages : pool.table[p] = NoFrame /\ ~(p < file.numPages)
    BY ResidentNumbers DEF Init, Resident
  <2>2. \A p \in Pages : st[p] = Zeros
    BY <2>1 DEF Current, Cached
  <2>3. seen = [u \in Threads |-> Zeros]
    BY DEF Init
  <2> QED
    BY <2>2, <2>3 DEF Store!Init
<1>3. ResidentInv /\ [Next]_vars => [Store!Next]_(Store!vars)
  <2> SUFFICES ASSUME ResidentInv, [Next]_vars
               PROVE  [Store!Next]_(Store!vars)
    OBVIOUS
  <2>1. CASE UNCHANGED vars
    BY <2>1 DEF vars, Store!vars, Current, Cached
  <2>2. ASSUME NEW t \in Threads, Request(t) \/ Continue(t)
        PROVE  [Store!Next]_(Store!vars)
    <3>1. Shows(t, st)
      BY <1>1, <2>2, ResidentStep
    <3> HIDE DEF st
    <3>2. \/ st' = st /\ seen' = seen
          \/ \E p \in Pages : st' = st /\ seen' = [seen EXCEPT ![t] = st[p]]
          \/ \E p \in Pages : /\ st[p] = Zeros /\ st' = [st EXCEPT ![p] = Formatted(p)]
                              /\ seen' = [seen EXCEPT ![t] = Formatted(p)]
          \/ \E p \in Pages : /\ st[p] # Zeros /\ st' = [st EXCEPT ![p].ver = @ + 1]
                              /\ seen' = seen
      BY <1>1, <3>1 DEF Shows
    <3>3. CASE st' = st /\ seen' = seen
      BY <3>3 DEF Store!vars, st
    <3>4. ASSUME NEW p \in Pages, st' = st, seen' = [seen EXCEPT ![t] = st[p]]
          PROVE  Store!Next
      <4>1. Store!Obtain(t, p)
        BY <3>4 DEF Store!Obtain, st
      <4> QED
        BY <4>1 DEF Store!Next
    <3>5. ASSUME NEW p \in Pages, st[p] = Zeros, st' = [st EXCEPT ![p] = Formatted(p)],
                 seen' = [seen EXCEPT ![t] = Formatted(p)]
          PROVE  Store!Next
      <4>1. Store!Create(t, p)
        BY <3>5 DEF Store!Create, Store!Fresh, Formatted, st
      <4> QED
        BY <4>1 DEF Store!Next
    <3>6. ASSUME NEW p \in Pages, st[p] # Zeros, st' = [st EXCEPT ![p].ver = @ + 1], seen' = seen
          PROVE  Store!Next
      <4>1. Store!Change(p)
        BY <3>6 DEF Store!Change, st
      <4> QED
        BY <4>1 DEF Store!Next
    <3> QED
      BY <3>2, <3>3, <3>4, <3>5, <3>6
  <2> QED
    BY <2>1, <2>2 DEF Next
<1> QED
  BY <1>2, <1>3, ResidentInvariance, PTL DEF Spec, IsPageStore, Store!Spec

=============================================================================
