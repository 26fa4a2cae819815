-------------------------- MODULE BufferPoolLemmas --------------------------
(***************************************************************************)
(* The inductive invariant of BufferPool used by one thread that keeps one *)
(* page at a time, and what each change of the pool and of the file does   *)
(* to it.  The steps of the specification and the theorems are in          *)
(* BufferPoolProofs.                                                       *)
(***************************************************************************)
EXTENDS BufferPool, LruListProofs, FiniteSetTheorems, WellFoundedInduction

\* main.cpp has one thread, and the storage manager unpins a page before it
\* fetches another one.
OneClient == (\E t \in Threads : Threads = {t}) /\ MaxPins <= 1

-----------------------------------------------------------------------------
\* The invariant, on a pool s, a file d, a call j and the pages hd of the client.

PoolType(s) ==
    /\ DOMAIN s = {"frames", "table", "lru"}
    /\ s.frames \in [Frames -> FrameType] /\ s.table \in [Pages -> Frames \cup {NoFrame}]
    /\ Tidy(s.lru)

FileType == [disk : [Positions -> Contents \cup {Absent}],
             numPages : Pages \cup {MaxPages}, pos : Positions]

Handles == [page : Pages, frame : Frames, wrote : BOOLEAN]

Loads == {"loadSeek", "loadRead", "loadDone"}
Flushes == {"flushSeek", "flushWrite", "flushDone"}
Latched == {"acquire", "use", "unlatch", "release"}

Jobs == [op : {"none", "fetch", "new", "flush", "flushAll", "edit", "look"},
         pc : {"idle", "allocate", "rejoin"} \cup Loads \cup Flushes \cup Latched,
         page : Pages \cup {NoPage}, frame : Frames \cup {NoFrame}, pid : Pages \cup {NoPage},
         buffer : Contents, todo : SUBSET [frame : Frames, page : Pages \cup {NoPage}],
         ok : BOOLEAN]

Ready(s, f) == s.frames[f].state = "Ready"

InTable(s, p) == s.table[p] # NoFrame

FrameOf(s, p) == s.frames[s.table[p]]

\* Table and frames say the same, and only frames with a page can be evicted.
PoolOK(s) ==
    /\ PoolType(s)
    /\ \A f \in Frames : Ready(s, f) => s.frames[f].page \in Pages /\ s.table[s.frames[f].page] = f
    /\ \A p \in Pages : InTable(s, p) => FrameOf(s, p).state = "Ready" /\ FrameOf(s, p).page = p
    /\ \A f \in Linked(s.lru) : Ready(s, f)

\* The pages of the file have been written; others are not cached.
FileOK(s, d) ==
    /\ d \in FileType
    /\ \A p \in Pages : p < d.numPages => d.disk[p] \in Contents
    /\ \A p \in Pages : InTable(s, p) => p < d.numPages

\* The client holds at most one page, and that page stays where it was.
HeldOK(s, hd) == hd = {} \/ \E h \in Handles : hd = {h} /\ s.table[h.page] = h.frame

Holds(hd, f) == \E h \in hd : h.frame = f

Latches(j, f) == j.pc \in Latched /\ j.frame = f

PinsOK(s, j, hd) ==
    \A f \in Frames : Ready(s, f) =>
        s.frames[f].pin = (IF Holds(hd, f) THEN 1 ELSE 0) + (IF Latches(j, f) THEN 1 ELSE 0)

\* An unpinned page can be evicted, but for one that is being evicted or rejoins.
KeptOK(s, j) ==
    \A f \in Frames : Ready(s, f) /\ s.frames[f].pin = 0 =>
        \/ f \in Linked(s.lru)
        \/ j.frame = f /\ j.pc \in Flushes /\ j.op \in {"fetch", "new"}
        \/ j.frame = f /\ j.pc = "rejoin"

\* The write of a flush is still to come, or has failed.
Unwritten(j) == j.pc \in {"flushSeek", "flushWrite"} \/ (j.pc = "flushDone" /\ ~j.ok)

CleanOK(s, d, j, hd) ==
    \A p \in Pages : InTable(s, p) =>
        \/ FrameOf(s, p).dirty
        \/ d.disk[p] = FrameOf(s, p).content
        \/ j.frame = s.table[p] /\ Unwritten(j)
        \/ \E h \in hd : h.page = p /\ h.wrote

\* A call that looks for a frame has a page that is not cached, and holds none.
Wants(s, d, j, hd) ==
    /\ j.op \in {"fetch", "new"} /\ hd = {}
    /\ j.page \in Pages /\ j.page < d.numPages /\ ~InTable(s, j.page)
    /\ j.op = "new" => d.disk[j.page] = Zeros

AllocateOK(d, j, hd) ==
    j.pc = "allocate" => /\ j.op = "new" /\ hd = {} /\ j.page \in Pages
                         /\ j.page = d.numPages /\ d.pos = d.numPages

LoadOK(s, d, j, hd) ==
    /\ j.pc \in Loads =>
          /\ j.op = "fetch" /\ Wants(s, d, j, hd) /\ j.frame \in Frames
          /\ s.frames[j.frame].state = "Loading" /\ s.frames[j.frame].page = j.page
          /\ s.frames[j.frame].pin = 1
    /\ j.pc = "loadRead" => d.pos = j.page
    /\ j.pc = "loadDone" /\ j.ok => s.frames[j.frame].content = d.disk[j.page]

FlushOK(s, d, j, hd) ==
    /\ j.pc \in Flushes =>
          /\ j.op \in {"fetch", "new", "flush", "flushAll"}
          /\ j.frame \in Frames /\ j.pid \in Pages /\ s.table[j.pid] = j.frame
          /\ j.op \in {"fetch", "new"} =>
                Wants(s, d, j, hd) /\ j.frame \notin Linked(s.lru) /\ ~s.frames[j.frame].dirty
    /\ j.pc = "flushWrite" => d.pos = j.pid /\ j.buffer = s.frames[j.frame].content
    /\ j.pc = "flushDone" /\ ~j.ok /\ j.op \in {"fetch", "new"} => "write" \in Faults

LatchOK(s, j) ==
    /\ j.pc \in Latched \cup {"rejoin"} =>
          /\ j.op \in {"edit", "look"} /\ j.page \in Pages /\ j.frame \in Frames
          /\ s.table[j.page] = j.frame
    /\ j.pc = "rejoin" => s.frames[j.frame].pin = 0

CallOK(s, d, j, hd) ==
    /\ j \in Jobs /\ (j.pc = "idle" => j = Idle)
    /\ AllocateOK(d, j, hd) /\ LoadOK(s, d, j, hd) /\ FlushOK(s, d, j, hd) /\ LatchOK(s, j)

Good(s, d, j, hd) ==
    /\ PoolOK(s) /\ FileOK(s, d) /\ HeldOK(s, hd) /\ PinsOK(s, j, hd) /\ KeptOK(s, j)
    /\ CleanOK(s, d, j, hd) /\ CallOK(s, d, j, hd)

IInv ==
    /\ latch \in Threads \cup {Nobody} /\ seen \in [Threads -> Contents]
    /\ job \in [Threads -> Jobs] /\ held \in [Threads -> SUBSET Handles]
    /\ \A t \in Threads : Good(pool, file, job[t], held[t])

-----------------------------------------------------------------------------
\* Numbers.

\* Frames and pages are numbered from zero, and no number is that of none.
LEMMA Numbers ==
    /\ Frames \subseteq Nat /\ Pages \subseteq Nat /\ NoFrame \notin Frames /\ NoPage \notin Pages
    /\ MaxPages \in Nat /\ MaxPages \notin Pages /\ MaxVersion \in Nat \ {0}
    /\ \A p \in Pages : p + 1 \in Pages \cup {MaxPages}
BY PoolSizeAssumption, BoundAssumption DEF Frames, Pages, NoFrame, NoPage

\* With one thread, positions end one behind the last page, and pins at two.
LEMMA OneThread ==
    ASSUME NEW t, Threads = {t}
    PROVE  /\ Cardinality(Threads) = 1 /\ Positions = 0 .. MaxPages + 1
           /\ \A p \in Pages \cup {MaxPages} : p \in Positions
           /\ \A p \in Pages : p + 1 \in Positions
           /\ 0 .. 2 * Cardinality(Threads) = {0, 1, 2}
<1>1. Cardinality(Threads) = 1
  BY FS_Singleton
<1>2. Positions = 0 .. MaxPages + 1
  BY <1>1 DEF Positions
<1>3. 0 .. 2 * Cardinality(Threads) = {0, 1, 2}
  BY <1>1
<1>4. \A p \in Pages \cup {MaxPages} : p \in 0 .. MaxPages + 1
  BY BoundAssumption DEF Pages
<1>5. \A p \in Pages : p + 1 \in 0 .. MaxPages + 1
  BY BoundAssumption DEF Pages
<1> QED
  BY <1>1, <1>2, <1>3, <1>4, <1>5

\* The lowest number of a set is one of it, and no other is lower.
LEMMA LowestIs ==
    ASSUME NEW S, S \subseteq Nat, S # {}
    PROVE  Lowest(S) \in S /\ \A x \in S : Lowest(S) <= x
<1> DEFINE R == {pair \in Nat \X Nat : pair[1] < pair[2]}
<1>1. IsWellFoundedOn(R, Nat)
  BY NatLessThanWellFounded DEF OpToRel
<1> HIDE DEF R
<1>2. PICK x \in S : \A y \in S : ~(<<y, x>> \in R)
  BY <1>1, WFMin
<1>3. ASSUME NEW y \in S
      PROVE  x <= y
  <2>1. x \in Nat /\ y \in Nat /\ ~(<<y, x>> \in R)
    BY <1>2
  <2>2. y < x => <<y, x>> \in R
    BY <2>1 DEF R
  <2> QED
    BY <2>1, <2>2
<1>4. \E z \in S : \A y \in S : z <= y
  BY <1>3
<1> QED
  BY <1>4 DEF Lowest

\* Contents, frames and calls at the beginning.
LEMMA FirstValues ==
    /\ Zeros \in Contents /\ Absent \notin Contents /\ Zeros # Absent
    /\ \A p \in Pages : Formatted(p) \in Contents /\ Formatted(p) # Zeros
    /\ Idle \in Jobs /\ Idle.pc = "idle" /\ Idle.op = "none"
<1>1. Zeros \in Contents /\ Zeros # Absent
  BY DEF Contents, Zeros, Absent
<1>2. Absent \notin Contents
  BY Numbers DEF Contents, Zeros, Absent
<1>3. \A p \in Pages : Formatted(p) \in Contents /\ Formatted(p) # Zeros
  BY Numbers DEF Contents, Formatted, Zeros
<1>4. Idle \in Jobs /\ Idle.pc = "idle" /\ Idle.op = "none"
  BY <1>1 DEF Idle, Jobs
<1> QED
  BY <1>1, <1>2, <1>3, <1>4

\* A frame that was never used.
LEMMA FirstFrame ==
    ASSUME 0 \in 0 .. 2 * Cardinality(Threads)
    PROVE  EmptyFrame \in FrameType
BY FirstValues DEF EmptyFrame, FrameType

-----------------------------------------------------------------------------
\* What the operators on the pool change.

\* A pool s2 that differs from s in frame f, and perhaps in its table and list.
Changes(s, s2, f, new) ==
    /\ DOMAIN s2 = DOMAIN s /\ DOMAIN s2.frames = DOMAIN s.frames
    /\ s2.frames = [g \in DOMAIN s2.frames |-> s2.frames[g]]
    /\ s2.frames[f] = new
    /\ \A g \in DOMAIN s.frames : g # f => s2.frames[g] = s.frames[g]

\* What is in a frame, its latch apart.
IsFrame(frame, page, content, state, pin, dirty) ==
    /\ frame.page = page /\ frame.content = content /\ frame.state = state
    /\ frame.pin = pin /\ frame.dirty = dirty

\* The types of such a pool.
LEMMA ChangesType ==
    ASSUME NEW s, PoolType(s), NEW f \in Frames, NEW new \in FrameType, NEW s2, Changes(s, s2, f, new),
           s2.table \in [Pages -> Frames \cup {NoFrame}], Tidy(s2.lru)
    PROVE  /\ PoolType(s2) /\ s2.frames[f] = new
           /\ \A g \in Frames : g # f => s2.frames[g] = s.frames[g]
<1>1. DOMAIN s.frames = Frames /\ \A g \in Frames : s.frames[g] \in FrameType
  BY DEF PoolType
<1>2. \A g \in Frames : s2.frames[g] \in FrameType
  BY <1>1 DEF Changes
<1>3. s2.frames \in [Frames -> FrameType]
  BY <1>1, <1>2 DEF Changes
<1> QED
  BY <1>1, <1>3 DEF PoolType, Changes

\* A frame leaves the table.
DroppedTo(s, s2, f) ==
    /\ PoolType(s2)
    /\ s2.lru = s.lru
    /\ \A p \in Pages : s2.table[p] =
                          IF p = s.frames[f].page THEN NoFrame ELSE s.table[p]
    /\ \A g \in Frames : g # f => s2.frames[g] = s.frames[g]
    /\ IsFrame(s2.frames[f], s.frames[f].page, s.frames[f].content, "Empty",
               s.frames[f].pin, s.frames[f].dirty)

\* The operator does that.
LEMMA DroppedIs ==
    ASSUME NEW s, PoolType(s), NEW f \in Frames, NEW s2, s2 = Dropped(s, f)
    PROVE  DroppedTo(s, s2, f)
<1> DEFINE new == [s.frames[f] EXCEPT !.state = "Empty"]
<1>1. s.frames[f] \in FrameType
  BY DEF PoolType
<1>2. new \in FrameType
  BY <1>1 DEF FrameType
<1>3. Changes(s, s2, f, new) /\ s2.lru = s.lru
  BY DEF Dropped, PoolType, Changes
<1>4. s2.table = [p \in Pages |-> IF p = s.frames[f].page THEN NoFrame ELSE s.table[p]]
  BY DEF Dropped, PoolType
<1> HIDE DEF new
<1>5. s2.table \in [Pages -> Frames \cup {NoFrame}] /\ Tidy(s2.lru)
  BY <1>3, <1>4 DEF PoolType
<1>6. PoolType(s2) /\ s2.frames[f] = new /\ \A g \in Frames : g # f => s2.frames[g] = s.frames[g]
  BY <1>2, <1>3, <1>5, ChangesType
<1>7. IsFrame(new, s.frames[f].page, s.frames[f].content, "Empty", s.frames[f].pin, s.frames[f].dirty)
  BY <1>1 DEF new, FrameType, IsFrame
<1> QED
  BY <1>3, <1>4, <1>6, <1>7 DEF DroppedTo

\* A frame reserved for a page that is to be loaded.
ClaimedTo(s, s2, f, p) ==
    /\ PoolType(s2)
    /\ s2.lru = s.lru /\ s2.table = s.table
    /\ \A g \in Frames : g # f => s2.frames[g] = s.frames[g]
    /\ IsFrame(s2.frames[f], p, s.frames[f].content, "Loading", 1, FALSE)

\* The operator does that.
LEMMA ClaimedIs ==
    ASSUME Cardinality(Threads) = 1,
           NEW s, PoolType(s), NEW f \in Frames, f \notin Linked(s.lru), NEW p \in Pages,
           NEW s2, s2 = Claimed(s, f, p)
    PROVE  ClaimedTo(s, s2, f, p)
<1> DEFINE new == [s.frames[f] EXCEPT !.page = p, !.state = "Loading", !.pin = 1, !.dirty = FALSE]
<1>1. s.frames[f] \in FrameType /\ 1 \in 0 .. 2 * Cardinality(Threads)
  BY DEF PoolType
<1>2. new \in FrameType
  BY <1>1 DEF FrameType
<1>3. LruPin(s.lru, f) = s.lru
  BY TidyPin DEF PoolType
<1>4. Changes(s, s2, f, new) /\ s2.lru = s.lru /\ s2.table = s.table
  BY <1>3 DEF Claimed, PoolType, Changes
<1> HIDE DEF new
<1>5. s2.table \in [Pages -> Frames \cup {NoFrame}] /\ Tidy(s2.lru)
  BY <1>4 DEF PoolType
<1>6. PoolType(s2) /\ s2.frames[f] = new /\ \A g \in Frames : g # f => s2.frames[g] = s.frames[g]
  BY <1>2, <1>4, <1>5, ChangesType
<1>7. IsFrame(new, p, s.frames[f].content, "Loading", 1, FALSE)
  BY <1>1 DEF new, FrameType, IsFrame
<1> QED
  BY <1>4, <1>6, <1>7 DEF ClaimedTo

\* A frame enters the table with page p.
EnteredTo(s, s2, f, p, content, pin, dirty) ==
    /\ PoolType(s2)
    /\ s2.lru = s.lru
    /\ \A q \in Pages : s2.table[q] = IF q = p THEN f ELSE s.table[q]
    /\ \A g \in Frames : g # f => s2.frames[g] = s.frames[g]
    /\ IsFrame(s2.frames[f], p, content, "Ready", pin, dirty)

\* NewPage does that with a formatted page.
LEMMA InstalledIs ==
    ASSUME 1 \in 0 .. 2 * Cardinality(Threads),
           NEW s, PoolType(s), NEW f \in Frames, f \notin Linked(s.lru), NEW p \in Pages,
           NEW s2, s2 = Installed(s, f, p)
    PROVE  \E w \in BOOLEAN : w /\ EnteredTo(s, s2, f, p, Formatted(p), 1, w)
<1> DEFINE c == Formatted(p)
           new == [s.frames[f] EXCEPT !.page = p, !.state = "Ready", !.pin = 1, !.dirty = TRUE,
                                      !.content = c]
<1>1. s.frames[f] \in FrameType /\ c \in Contents
  BY FirstValues DEF PoolType
<1>3. LruPin(s.lru, f) = s.lru
  BY TidyPin DEF PoolType
<1>4. Changes(s, s2, f, new) /\ s2.lru = s.lru /\ s2.table = [s.table EXCEPT ![p] = f]
  <2>1. s2.lru = s.lru
    BY <1>3 DEF Installed, PoolType
  <2>2. s2.table = [s.table EXCEPT ![p] = f]
    BY DEF Installed, PoolType
  <2>3. s2.frames[f] = new
    BY DEF Installed, PoolType
  <2>4. \A g \in DOMAIN s.frames : g # f => s2.frames[g] = s.frames[g]
    BY DEF Installed, PoolType
  <2>5. DOMAIN s2 = DOMAIN s
    BY DEF Installed
  <2>6. DOMAIN s2.frames = DOMAIN s.frames
    BY DEF Installed, PoolType
  <2>7. s2.frames = [g \in DOMAIN s2.frames |-> s2.frames[g]]
    <3> DEFINE a == [s EXCEPT !.frames[f].page = p, !.frames[f].state = "Ready",
                              !.frames[f].pin = 1, !.frames[f].dirty = TRUE]
    <3>1. s2.frames = [a.frames EXCEPT ![f].content = c]
      BY DEF Installed, PoolType
    <3> HIDE DEF a
    <3> QED
      BY <3>1
  <2> QED
    BY <2>1, <2>2, <2>3, <2>4, <2>5, <2>6, <2>7 DEF Changes
<1> HIDE DEF c
<1>2. new \in FrameType
  BY <1>1 DEF FrameType
<1> HIDE DEF new
<1>5. s2.table \in [Pages -> Frames \cup {NoFrame}] /\ Tidy(s2.lru)
  BY <1>4 DEF PoolType
<1>6. PoolType(s2) /\ s2.frames[f] = new /\ \A g \in Frames : g # f => s2.frames[g] = s.frames[g]
  BY <1>2, <1>4, <1>5, ChangesType
<1>7. IsFrame(new, p, c, "Ready", 1, new.dirty) /\ new.dirty
  BY <1>1 DEF new, FrameType, IsFrame
<1>8. \A q \in Pages : s2.table[q] = IF q = p THEN f ELSE s.table[q]
  BY <1>4 DEF PoolType
<1>9. EnteredTo(s, s2, f, p, c, 1, new.dirty) /\ new.dirty \in BOOLEAN
  BY <1>2, <1>4, <1>6, <1>7, <1>8 DEF EnteredTo, FrameType
<1> QED
  BY <1>7, <1>9 DEF c

\* FetchPage does that with a page it has loaded (LoadDone).
Loaded(s, f, p) == [s EXCEPT !.frames[f].state = "Ready", !.table[p] = f]

\* The operator does that.
LEMMA EnteredIs ==
    ASSUME NEW s, PoolType(s), NEW f \in Frames, NEW p \in Pages, NEW s2,
           s2 = Loaded(s, f, p), s.frames[f].page = p
    PROVE  EnteredTo(s, s2, f, p, s.frames[f].content, s.frames[f].pin, s.frames[f].dirty)
<1> DEFINE new == [s.frames[f] EXCEPT !.state = "Ready"]
<1>1. s.frames[f] \in FrameType
  BY DEF PoolType
<1>2. new \in FrameType
  BY <1>1 DEF FrameType
<1>3. Changes(s, s2, f, new) /\ s2.lru = s.lru
  BY DEF Loaded, PoolType, Changes
<1>4. s2.table = [s.table EXCEPT ![p] = f]
  BY DEF Loaded, PoolType
<1>5. IsFrame(new, p, s.frames[f].content, "Ready", s.frames[f].pin, s.frames[f].dirty)
  BY <1>1 DEF FrameType, IsFrame
<1> HIDE DEF new
<1>6. s2.table \in [Pages -> Frames \cup {NoFrame}] /\ Tidy(s2.lru)
  BY <1>3, <1>4 DEF PoolType
<1>7. PoolType(s2) /\ s2.frames[f] = new /\ \A g \in Frames : g # f => s2.frames[g] = s.frames[g]
  BY <1>2, <1>3, <1>6, ChangesType
<1>8. \A q \in Pages : s2.table[q] = IF q = p THEN f ELSE s.table[q]
  BY <1>4 DEF PoolType
<1> QED
  BY <1>3, <1>5, <1>7, <1>8 DEF EnteredTo

\* A frame whose page could not be loaded is empty again.
EmptiedTo(s, s2, f) ==
    /\ PoolType(s2) /\ s2.table = s.table /\ s2.lru = s.lru
    /\ \A g \in Frames : g # f => s2.frames[g] = s.frames[g]
    /\ s2.frames[f].state = "Empty"

\* FetchPage does that (LoadDone).
Emptied(s, f) == [s EXCEPT !.frames[f].state = "Empty", !.frames[f].pin = 0]

\* The operator does that.
LEMMA EmptiedIs ==
    ASSUME Cardinality(Threads) = 1, NEW s, PoolType(s), NEW f \in Frames, NEW s2, s2 = Emptied(s, f)
    PROVE  EmptiedTo(s, s2, f)
<1> DEFINE new == [s.frames[f] EXCEPT !.state = "Empty", !.pin = 0]
<1>1. s.frames[f] \in FrameType /\ 0 \in 0 .. 2 * Cardinality(Threads)
  BY DEF PoolType
<1>2. new \in FrameType
  BY <1>1 DEF FrameType
<1>3. Changes(s, s2, f, new) /\ s2.lru = s.lru /\ s2.table = s.table
  BY DEF Emptied, PoolType, Changes
<1>4. new.state = "Empty"
  BY <1>1 DEF FrameType
<1> HIDE DEF new
<1>5. s2.table \in [Pages -> Frames \cup {NoFrame}] /\ Tidy(s2.lru)
  BY <1>3 DEF PoolType
<1>6. PoolType(s2) /\ s2.frames[f] = new /\ \A g \in Frames : g # f => s2.frames[g] = s.frames[g]
  BY <1>2, <1>3, <1>5, ChangesType
<1> QED
  BY <1>3, <1>4, <1>6 DEF EmptiedTo

\* A frame whose content, count of pins, or dirty flag changes.
ChangedTo(s, s2, f, content, pin, dirty) ==
    /\ PoolType(s2) /\ s2.table = s.table
    /\ \A g \in Frames : g # f => s2.frames[g] = s.frames[g]
    /\ IsFrame(s2.frames[f], s.frames[f].page, content, s.frames[f].state, pin, dirty)

\* What has to be known of a frame that is changed.
LEMMA ChangedIs ==
    ASSUME NEW s, PoolType(s), NEW f \in Frames, NEW new \in FrameType, NEW s2, Changes(s, s2, f, new),
           s2.table = s.table, Tidy(s2.lru), new.page = s.frames[f].page, new.state = s.frames[f].state
    PROVE  ChangedTo(s, s2, f, new.content, new.pin, new.dirty)
<1>1. s2.table \in [Pages -> Frames \cup {NoFrame}]
  BY DEF PoolType
<1>2. PoolType(s2) /\ s2.frames[f] = new /\ \A g \in Frames : g # f => s2.frames[g] = s.frames[g]
  BY <1>1, ChangesType
<1> QED
  BY <1>2 DEF ChangedTo, IsFrame

\* A frame that is found in the table.
LEMMA HitIs ==
    ASSUME NEW s, PoolType(s), NEW f \in Frames,
           s.frames[f].pin + 1 \in 0 .. 2 * Cardinality(Threads), NEW s2, s2 = Hit(s, f)
    PROVE  /\ ChangedTo(s, s2, f, s.frames[f].content, s.frames[f].pin + 1, s.frames[f].dirty)
           /\ Linked(s2.lru) = Linked(s.lru)
<1> DEFINE new == [s.frames[f] EXCEPT !.pin = s.frames[f].pin + 1]
<1>1. s.frames[f] \in FrameType
  BY DEF PoolType
<1>2. new \in FrameType
  BY <1>1 DEF FrameType
<1>3. Changes(s, s2, f, new) /\ s2.lru = LruAccess(s.lru, f) /\ s2.table = s.table
  BY DEF Hit, PoolType, Changes
<1>4. Tidy(s2.lru) /\ Linked(s2.lru) = Linked(s.lru)
  BY <1>3, TidyAccess DEF PoolType
<1>5. /\ new.page = s.frames[f].page /\ new.state = s.frames[f].state
      /\ new.content = s.frames[f].content /\ new.pin = s.frames[f].pin + 1
      /\ new.dirty = s.frames[f].dirty
  BY <1>1 DEF FrameType
<1> HIDE DEF new
<1>6. ChangedTo(s, s2, f, new.content, new.pin, new.dirty)
  BY <1>2, <1>3, <1>4, <1>5, ChangedIs
<1> QED
  BY <1>4, <1>5, <1>6

\* A frame that a flush has begun or failed to write.
LEMMA MarkIs ==
    ASSUME NEW s, PoolType(s), NEW f \in Frames, NEW w \in BOOLEAN, NEW s2,
           s2 = [s EXCEPT !.frames[f].dirty = w]
    PROVE  /\ ChangedTo(s, s2, f, s.frames[f].content, s.frames[f].pin, w)
           /\ s2.lru = s.lru
<1> DEFINE new == [s.frames[f] EXCEPT !.dirty = w]
<1>1. s.frames[f] \in FrameType
  BY DEF PoolType
<1>2. new \in FrameType
  BY <1>1 DEF FrameType
<1>3. Changes(s, s2, f, new) /\ s2.lru = s.lru /\ s2.table = s.table /\ Tidy(s2.lru)
  BY DEF PoolType, Changes
<1>5. /\ new.page = s.frames[f].page /\ new.state = s.frames[f].state
      /\ new.content = s.frames[f].content /\ new.pin = s.frames[f].pin /\ new.dirty = w
  BY <1>1 DEF FrameType
<1> HIDE DEF new
<1>6. ChangedTo(s, s2, f, new.content, new.pin, new.dirty)
  BY <1>2, <1>3, <1>5, ChangedIs
<1> QED
  BY <1>3, <1>5, <1>6

\* A frame whose latch is taken or given back for a transfer.
LEMMA LockIs ==
    ASSUME NEW s, PoolType(s), NEW f \in Frames, NEW t \in Threads \cup {Nobody}, NEW s2,
           s2 = [s EXCEPT !.frames[f].writer = t]
    PROVE  /\ ChangedTo(s, s2, f, s.frames[f].content, s.frames[f].pin, s.frames[f].dirty)
           /\ s2.lru = s.lru
<1> DEFINE new == [s.frames[f] EXCEPT !.writer = t]
<1>1. s.frames[f] \in FrameType
  BY DEF PoolType
<1>2. new \in FrameType
  BY <1>1 DEF FrameType
<1>3. Changes(s, s2, f, new) /\ s2.lru = s.lru /\ s2.table = s.table /\ Tidy(s2.lru)
  BY DEF PoolType, Changes
<1>5. /\ new.page = s.frames[f].page /\ new.state = s.frames[f].state
      /\ new.content = s.frames[f].content /\ new.pin = s.frames[f].pin
      /\ new.dirty = s.frames[f].dirty
  BY <1>1 DEF FrameType
<1> HIDE DEF new
<1>6. ChangedTo(s, s2, f, new.content, new.pin, new.dirty)
  BY <1>2, <1>3, <1>5, ChangedIs
<1> QED
  BY <1>3, <1>5, <1>6

\* A frame that is read into, or changed by the client.
LEMMA FillIs ==
    ASSUME NEW s, PoolType(s), NEW f \in Frames, NEW c \in Contents, NEW s2,
           s2 = [s EXCEPT !.frames[f].content = c]
    PROVE  /\ ChangedTo(s, s2, f, c, s.frames[f].pin, s.frames[f].dirty)
           /\ s2.lru = s.lru
<1> DEFINE new == [s.frames[f] EXCEPT !.content = c]
<1>1. s.frames[f] \in FrameType
  BY DEF PoolType
<1>2. new \in FrameType
  BY <1>1 DEF FrameType
<1>3. Changes(s, s2, f, new) /\ s2.lru = s.lru /\ s2.table = s.table /\ Tidy(s2.lru)
  BY DEF PoolType, Changes
<1>5. /\ new.page = s.frames[f].page /\ new.state = s.frames[f].state
      /\ new.content = c /\ new.pin = s.frames[f].pin /\ new.dirty = s.frames[f].dirty
  BY <1>1 DEF FrameType
<1> HIDE DEF new
<1>6. ChangedTo(s, s2, f, new.content, new.pin, new.dirty)
  BY <1>2, <1>3, <1>5, ChangedIs
<1> QED
  BY <1>3, <1>5, <1>6

\* A frame that is pinned to be latched.
LEMMA PinIs ==
    ASSUME NEW s, PoolType(s), NEW f \in Frames, NEW n \in 0 .. 2 * Cardinality(Threads), NEW s2,
           s2 = [s EXCEPT !.frames[f].pin = n]
    PROVE  /\ ChangedTo(s, s2, f, s.frames[f].content, n, s.frames[f].dirty)
           /\ s2.lru = s.lru
<1> DEFINE new == [s.frames[f] EXCEPT !.pin = n]
<1>1. s.frames[f] \in FrameType
  BY DEF PoolType
<1>2. new \in FrameType
  BY <1>1 DEF FrameType
<1>3. Changes(s, s2, f, new) /\ s2.lru = s.lru /\ s2.table = s.table /\ Tidy(s2.lru)
  BY DEF PoolType, Changes
<1>5. /\ new.page = s.frames[f].page /\ new.state = s.frames[f].state
      /\ new.content = s.frames[f].content /\ new.pin = n /\ new.dirty = s.frames[f].dirty
  BY <1>1 DEF FrameType
<1> HIDE DEF new
<1>6. ChangedTo(s, s2, f, new.content, new.pin, new.dirty)
  BY <1>2, <1>3, <1>5, ChangedIs
<1> QED
  BY <1>3, <1>5, <1>6

\* A frame has one pin less, and is dirty if it was or has been changed.
UnpinnedTo(s, s2, f, w) ==
    /\ \E v \in BOOLEAN : /\ s.frames[f].dirty \/ w => v
                          /\ ChangedTo(s, s2, f, s.frames[f].content, s.frames[f].pin - 1, v)
    /\ Linked(s2.lru) = IF s.frames[f].pin = 1 THEN Linked(s.lru) \cup {f} ELSE Linked(s.lru)

\* A frame whose client has done with it, and may have changed it.
LEMMA UnpinnedIs ==
    ASSUME NEW s, PoolType(s), NEW f \in Frames, NEW w \in BOOLEAN, NEW s2,
           s2 = Unpinned(Marked(s, f, w), f),
           s.frames[f].pin - 1 \in 0 .. 2 * Cardinality(Threads)
    PROVE  UnpinnedTo(s, s2, f, w)
<1> DEFINE d == s.frames[f].dirty \/ w
           m == Marked(s, f, w)
           n == s.frames[f].pin - 1
           u == [m EXCEPT !.frames[f].pin = n]
           l == IF s.frames[f].pin = 1 THEN LruUnpin(s.lru, f) ELSE s.lru
<1>1. d \in BOOLEAN
  BY DEF PoolType, FrameType
<1>2. Tidy(l) /\ Linked(l) = IF s.frames[f].pin = 1 THEN Linked(s.lru) \cup {f} ELSE Linked(s.lru)
  BY TidyUnpin DEF PoolType
<1>3. m = [s EXCEPT !.frames[f].dirty = d]
  BY DEF Marked, PoolType
<1> HIDE DEF d, m, l
<1>4. ChangedTo(s, m, f, s.frames[f].content, s.frames[f].pin, d) /\ m.lru = s.lru
  BY <1>1, <1>3, MarkIs
<1>5. PoolType(m) /\ m.frames[f].pin = s.frames[f].pin /\ m.frames[f].content = s.frames[f].content
      /\ m.frames[f].dirty = d
  BY <1>4 DEF ChangedTo, IsFrame
<1>6. n \in 0 .. 2 * Cardinality(Threads)
  OBVIOUS
<1> HIDE DEF n
<1>7. ChangedTo(m, u, f, s.frames[f].content, n, d)
  BY <1>5, <1>6, PinIs
<1>8. s2.lru = l /\ s2.table = u.table /\ s2.frames = u.frames /\ DOMAIN s2 = DOMAIN u
  BY <1>4, <1>5 DEF Unpinned, PoolType, m, n, l
<1> HIDE DEF u
<1>9. ChangedTo(s, u, f, s.frames[f].content, n, d)
  BY <1>4, <1>7 DEF ChangedTo, IsFrame
<1>10. ChangedTo(s, s2, f, s.frames[f].content, n, d)
  BY <1>2, <1>8, <1>9 DEF ChangedTo, PoolType
<1>11. s.frames[f].dirty \/ w => d
  BY DEF d
<1> QED
  BY <1>1, <1>2, <1>8, <1>10, <1>11 DEF n, UnpinnedTo

\* ReleaseLatch does that.
Released(s, f, t) ==
    [s EXCEPT !.frames[f].readers = @ \ {t}, !.frames[f].pin = @ - 1,
              !.frames[f].writer = IF @ = t THEN Nobody ELSE @]

\* A frame whose latch and pin are given back.
LEMMA ReleasedIs ==
    ASSUME NEW s, PoolType(s), NEW f \in Frames, NEW t \in Threads, NEW s2,
           s.frames[f].pin - 1 \in 0 .. 2 * Cardinality(Threads),
           s2 = Released(s, f, t)
    PROVE  /\ ChangedTo(s, s2, f, s.frames[f].content, s.frames[f].pin - 1, s.frames[f].dirty)
           /\ s2.lru = s.lru
<1> DEFINE n == s.frames[f].pin - 1
           r == s.frames[f].readers \ {t}
           w == IF s.frames[f].writer = t THEN Nobody ELSE s.frames[f].writer
           new == [s.frames[f] EXCEPT !.readers = r, !.pin = n, !.writer = w]
<1>1. s.frames[f] \in FrameType /\ n \in 0 .. 2 * Cardinality(Threads)
  BY DEF PoolType
<1>2. r \in SUBSET Threads /\ w \in Threads \cup {Nobody}
  BY <1>1 DEF FrameType
<1>3. Changes(s, s2, f, new) /\ s2.lru = s.lru /\ s2.table = s.table
  <2>1. s2.lru = s.lru
    BY DEF Released, PoolType
  <2>2. s2.table = s.table
    BY DEF Released, PoolType
  <2>3. s2.frames[f] = new
    BY DEF Released, PoolType
  <2>4. \A g \in DOMAIN s.frames : g # f => s2.frames[g] = s.frames[g]
    BY DEF Released, PoolType
  <2>5. DOMAIN s2 = DOMAIN s
    BY DEF Released
  <2>6. DOMAIN s2.frames = DOMAIN s.frames
    BY DEF Released, PoolType
  <2>7. s2.frames = [g \in DOMAIN s2.frames |-> s2.frames[g]]
    BY DEF Released, PoolType
  <2> HIDE DEF n, r, w, new
  <2> QED
    BY <2>1, <2>2, <2>3, <2>4, <2>5, <2>6, <2>7 DEF Changes
<1> HIDE DEF n, r, w
<1>4. new \in FrameType
  BY <1>1, <1>2 DEF FrameType
<1>5. /\ new.page = s.frames[f].page /\ new.state = s.frames[f].state
      /\ new.content = s.frames[f].content /\ new.pin = n /\ new.dirty = s.frames[f].dirty
  BY <1>1 DEF FrameType
<1>6. Tidy(s2.lru)
  BY <1>3 DEF PoolType
<1> HIDE DEF new
<1>7. ChangedTo(s, s2, f, new.content, new.pin, new.dirty)
  BY <1>3, <1>4, <1>5, <1>6, ChangedIs
<1> QED
  BY <1>3, <1>5, <1>7 DEF n

\* Only the list of the replacer changes.
LEMMA RelinkedIs ==
    ASSUME NEW s, PoolType(s), NEW l, Tidy(l), NEW s2, s2 = [s EXCEPT !.lru = l]
    PROVE  PoolType(s2) /\ s2.table = s.table /\ s2.frames = s.frames /\ s2.lru = l
BY DEF PoolType

\* Tables, frames and file still fit together then.
LEMMA ChangedKeeps ==
    ASSUME NEW s, NEW d, PoolOK(s), FileOK(s, d), NEW f \in Frames, NEW s2, NEW c, NEW n, NEW w,
           ChangedTo(s, s2, f, c, n, w), \A g \in Linked(s2.lru) : g \in Frames /\ Ready(s, g)
    PROVE  /\ PoolOK(s2) /\ FileOK(s2, d)
           /\ \A g \in Frames : (Ready(s2, g) <=> Ready(s, g)) /\ s2.frames[g].page = s.frames[g].page
                                /\ s2.frames[g].state = s.frames[g].state
           /\ \A p \in Pages : (InTable(s2, p) <=> InTable(s, p)) /\ s2.table[p] = s.table[p]
           /\ \A p \in Pages : InTable(s, p) => s.table[p] \in Frames
           /\ s2.frames[f].content = c /\ s2.frames[f].pin = n /\ s2.frames[f].dirty = w
           /\ \A g \in Frames : g # f => s2.frames[g] = s.frames[g]
<1>1. /\ PoolType(s2) /\ s2.table = s.table
      /\ \A g \in Frames : g # f => s2.frames[g] = s.frames[g]
      /\ s2.frames[f].page = s.frames[f].page /\ s2.frames[f].state = s.frames[f].state
      /\ s2.frames[f].content = c /\ s2.frames[f].pin = n /\ s2.frames[f].dirty = w
  BY DEF ChangedTo, IsFrame
<1>2. ASSUME NEW g \in Frames
      PROVE  (Ready(s2, g) <=> Ready(s, g)) /\ s2.frames[g].page = s.frames[g].page
             /\ s2.frames[g].state = s.frames[g].state
  <2>1. CASE g = f
    BY <2>1, <1>1 DEF Ready
  <2>2. CASE g # f
    BY <2>2, <1>1 DEF Ready
  <2> QED
    BY <2>1, <2>2
<1>3. \A p \in Pages : (InTable(s2, p) <=> InTable(s, p)) /\ s2.table[p] = s.table[p]
  BY <1>1 DEF InTable
<1>4. \A p \in Pages : InTable(s, p) => s.table[p] \in Frames
  BY DEF PoolOK, PoolType, InTable
<1>5. PoolOK(s2)
  <2>1. \A g \in Frames : Ready(s2, g) => s2.frames[g].page \in Pages /\ s2.table[s2.frames[g].page] = g
    BY <1>1, <1>2 DEF PoolOK
  <2>2. \A p \in Pages : InTable(s2, p) => FrameOf(s2, p).state = "Ready" /\ FrameOf(s2, p).page = p
    BY <1>2, <1>3, <1>4 DEF PoolOK, FrameOf
  <2>3. \A g \in Linked(s2.lru) : Ready(s2, g)
    BY <1>2
  <2> QED
    BY <1>1, <2>1, <2>2, <2>3 DEF PoolOK
<1>6. FileOK(s2, d)
  BY <1>3 DEF FileOK
<1> QED
  BY <1>1, <1>2, <1>3, <1>4, <1>5, <1>6

\* The linked frames of a pool are ready ones.
LEMMA LinkedReady ==
    ASSUME NEW s, PoolOK(s)
    PROVE  \A g \in Linked(s.lru) : g \in Frames /\ Ready(s, g)
BY DEF PoolOK, PoolType, Tidy, LruOK, LruRecords

-----------------------------------------------------------------------------
\* What the operators on the file change.

\* The position is set.
Moved(d, d2, pos) ==
    d2 \in FileType /\ d2.disk = d.disk /\ d2.numPages = d.numPages /\ d2.pos = pos

\* Seeks and reads only do that.
LEMMA MovedIs ==
    ASSUME NEW d \in FileType, NEW x \in Positions, NEW d2, d2 = [d EXCEPT !.pos = x]
    PROVE  Moved(d, d2, x)
BY DEF Moved, FileType

\* Page x is written.
WrittenTo(d, d2, x, c) ==
    /\ d2 \in FileType /\ d2.numPages = d.numPages /\ d2.pos = x + 1 /\ d2.disk[x] = c
    /\ \A q \in Pages : q # x => d2.disk[q] = d.disk[q]

\* A write in or right behind the pages of the file changes no other page.
LEMMA WrittenIs ==
    ASSUME NEW s, FileOK(s, file), NEW c \in Contents, file.pos \in Pages,
           file.pos <= file.numPages, file.pos + 1 \in Positions,
           \A p \in Pages : p \in Positions, NEW d2, d2 = Written(c)
    PROVE  WrittenTo(file, d2, file.pos, c)
<1> DEFINE disk == [q \in Positions |->
                       IF q = file.pos THEN c
                       ELSE IF q < file.pos /\ file.disk[q] = Absent THEN Zeros ELSE file.disk[q]]
<1>1. file \in FileType
  BY DEF FileOK
<1>2. d2 = [file EXCEPT !.disk = disk, !.pos = file.pos + 1]
  BY <1>1 DEF Written, FileType
<1>3. \A q \in Positions : disk[q] \in Contents \cup {Absent}
  BY <1>1, FirstValues DEF FileType
<1>4. disk[file.pos] = c
  <2>1. file.pos \in Positions
    OBVIOUS
  <2> QED
    BY <2>1
<1>5. ASSUME NEW q \in Pages, q # file.pos
      PROVE  disk[q] = file.disk[q]
  <2>1. q < file.pos => q < file.numPages
    <3>1. file.numPages \in Pages \cup {MaxPages}
      BY <1>1 DEF FileType
    <3>2. q \in Nat /\ file.pos \in Nat /\ file.numPages \in Nat
      BY <3>1, Numbers
    <3> QED
      BY <3>2
  <2>2. q < file.pos => file.disk[q] # Absent
    BY <2>1, FirstValues DEF FileOK
  <2> QED
    BY <1>5, <2>2
<1>6. disk \in [Positions -> Contents \cup {Absent}]
  BY <1>3
<1> HIDE DEF disk
<1>7. d2 \in FileType /\ d2.disk = disk /\ d2.numPages = file.numPages /\ d2.pos = file.pos + 1
  BY <1>1, <1>2, <1>6 DEF FileType
<1> QED
  BY <1>4, <1>5, <1>7 DEF WrittenTo

-----------------------------------------------------------------------------
\* Frames are taken into use.

\* The latest content of page p, as Current(p), in pool s and file d.
Latest(s, d, p) ==
    IF InTable(s, p) THEN FrameOf(s, p).content
    ELSE IF p < d.numPages THEN d.disk[p] ELSE Zeros

SameLatest(s, d, s2, d2) == \A p \in Pages : Latest(s2, d2, p) = Latest(s, d, p)

\* Between the calls of a client that holds nothing, every page can be evicted,
\* and those that are not dirty are on disk.
LEMMA AtRest ==
    ASSUME NEW s, NEW d, Good(s, d, Idle, {})
    PROVE  /\ \A g \in Frames : Ready(s, g) => s.frames[g].pin = 0 /\ g \in Linked(s.lru)
           /\ \A p \in Pages : InTable(s, p) =>
                 FrameOf(s, p).dirty \/ d.disk[p] = FrameOf(s, p).content
<1>1. \A g \in Frames : ~Holds({}, g) /\ ~Latches(Idle, g)
  BY FirstValues DEF Holds, Latches, Latched
<1>2. \A g \in Frames : Ready(s, g) => s.frames[g].pin = 0
  BY <1>1 DEF Good, PinsOK
<1>3. \A g \in Frames : Ready(s, g) => g \in Linked(s.lru)
  BY <1>2, FirstValues DEF Good, KeptOK, Flushes
<1>4. ~Unwritten(Idle)
  BY FirstValues DEF Unwritten
<1> QED
  BY <1>2, <1>3, <1>4 DEF Good, CleanOK

\* Conversely, such a pool is good.
LEMMA Rests ==
    ASSUME NEW s, NEW d, PoolOK(s), FileOK(s, d),
           \A g \in Frames : Ready(s, g) => s.frames[g].pin = 0 /\ g \in Linked(s.lru),
           \A p \in Pages : InTable(s, p) =>
              FrameOf(s, p).dirty \/ d.disk[p] = FrameOf(s, p).content
    PROVE  Good(s, d, Idle, {})
<1>1. \A g \in Frames : ~Holds({}, g) /\ ~Latches(Idle, g)
  BY FirstValues DEF Holds, Latches, Latched
<1>2. PinsOK(s, Idle, {}) /\ KeptOK(s, Idle) /\ CleanOK(s, d, Idle, {}) /\ HeldOK(s, {})
  BY <1>1 DEF PinsOK, KeptOK, CleanOK, HeldOK
<1>3. CallOK(s, d, Idle, {})
  BY FirstValues DEF CallOK, AllocateOK, LoadOK, FlushOK, LatchOK, Loads, Flushes, Latched
<1> QED
  BY <1>2, <1>3 DEF Good

\* FetchPage reserves an empty frame.
LEMMA ClaimOK ==
    ASSUME Cardinality(Threads) = 1,
           NEW s, NEW d, NEW j \in Jobs, Good(s, d, Idle, {}), Wants(s, d, j, {}), j.op = "fetch",
           NEW f \in Frames, s.frames[f].state = "Empty"
    PROVE  /\ Good(Claimed(s, f, j.page), d, [[j EXCEPT !.frame = f] EXCEPT !.pc = "loadSeek"], {})
           /\ SameLatest(s, d, Claimed(s, f, j.page), d)
<1> DEFINE p == j.page
           s2 == Claimed(s, f, p)
           j2 == [[j EXCEPT !.frame = f] EXCEPT !.pc = "loadSeek"]
<1>1. PoolType(s) /\ f \notin Linked(s.lru) /\ j.page \in Pages
  BY DEF Good, PoolOK, Ready, Wants
<1>0. p \in Pages /\ s2 = Claimed(s, f, p) /\ p = j.page
  BY <1>1
<1> HIDE DEF s2, p
<1>2a. ClaimedTo(s, s2, f, p)
  BY <1>0, <1>1, ClaimedIs
<1>2. /\ PoolType(s2) /\ s2.lru = s.lru /\ s2.table = s.table
      /\ \A g \in Frames : g # f => s2.frames[g] = s.frames[g]
      /\ IsFrame(s2.frames[f], p, s.frames[f].content, "Loading", 1, FALSE)
  BY <1>2a DEF ClaimedTo
<1>4. s2.frames[f].state = "Loading" /\ s2.frames[f].page = j.page /\ s2.frames[f].pin = 1
  BY <1>0, <1>2 DEF IsFrame
<1>5. /\ j2 \in Jobs /\ j2.op = "fetch" /\ j2.pc = "loadSeek" /\ j2.page = j.page /\ j2.frame = f
  BY DEF Jobs, Loads
<1> HIDE DEF j2
<1>6. \A q \in Pages : InTable(s, q) => s.table[q] \in Frames /\ s.table[q] # f
  BY <1>1 DEF Good, PoolOK, PoolType, InTable, FrameOf
<1>7. \A q \in Pages : InTable(s2, q) = InTable(s, q) /\ (InTable(s, q) => FrameOf(s2, q) = FrameOf(s, q))
  BY <1>2, <1>6 DEF InTable, FrameOf
<1>8. \A g \in Frames : Ready(s2, g) => g # f /\ Ready(s, g) /\ s2.frames[g] = s.frames[g]
  BY <1>2, <1>4 DEF Ready
<1>9. PoolOK(s2)
  <2>1. \A g \in Frames : Ready(s2, g) => s2.frames[g].page \in Pages /\ s2.table[s2.frames[g].page] = g
    BY <1>2, <1>8 DEF Good, PoolOK
  <2>2. \A q \in Pages : InTable(s2, q) => FrameOf(s2, q).state = "Ready" /\ FrameOf(s2, q).page = q
    BY <1>7 DEF Good, PoolOK
  <2>3. \A g \in Linked(s2.lru) : Ready(s2, g)
    <3>1. \A g \in Linked(s.lru) : g \in Frames /\ g # f /\ Ready(s, g)
      BY <1>1 DEF Good, PoolOK, PoolType, Tidy, LruOK, LruRecords
    <3> QED
      BY <3>1, <1>2 DEF Ready
  <2> QED
    BY <1>2, <2>1, <2>2, <2>3 DEF PoolOK
<1>10. FileOK(s2, d)
  BY <1>7 DEF Good, FileOK
<1>11. PinsOK(s2, j2, {})
  <2>1. \A g \in Frames : ~Holds({}, g) /\ ~Latches(j2, g)
    BY <1>5 DEF Holds, Latches, Latched
  <2> QED
    BY <2>1, <1>8, AtRest DEF PinsOK
<1>12. KeptOK(s2, j2)
  BY <1>2, <1>8, AtRest DEF KeptOK
<1>13. CleanOK(s2, d, j2, {})
  BY <1>7, AtRest DEF CleanOK
<1>14. CallOK(s2, d, j2, {})
  <2>1. Wants(s2, d, j2, {})
    BY <1>5, <1>7 DEF Wants
  <2> QED
    BY <2>1, <1>4, <1>5 DEF CallOK, AllocateOK, LoadOK, FlushOK, LatchOK, Loads, Flushes, Latched
<1>15. HeldOK(s2, {})
  BY DEF HeldOK
<1>16. SameLatest(s, d, s2, d)
  BY <1>7 DEF SameLatest, Latest
<1> QED
  BY <1>9, <1>10, <1>11, <1>12, <1>13, <1>14, <1>15, <1>16 DEF Good, s2, j2, p

\* A page gets content c, and the others keep theirs.
Creates(s, d, s2, p, c) ==
    /\ Latest(s2, d, p) = c
    /\ \A q \in Pages : q # p => Latest(s2, d, q) = Latest(s, d, q)

\* The client is given a page that has entered the table, dirty or as on disk.
LEMMA EnterOK ==
    ASSUME NEW s, NEW d, Good(s, d, Idle, {}), NEW p \in Pages, ~InTable(s, p), p < d.numPages,
           NEW f \in Frames, ~Ready(s, f), NEW s2, NEW c, NEW w \in BOOLEAN,
           EnteredTo(s, s2, f, p, c, 1, w), w \/ d.disk[p] = c
    PROVE  /\ Good(s2, d, Idle, {Handle(p, f)}) /\ Handle(p, f) \in Handles
           /\ s2.frames[f].content = c /\ c \in Contents
           /\ Creates(s, d, s2, p, c)
<1> DEFINE h == Handle(p, f)
<1>1. PoolType(s) /\ f \notin Linked(s.lru) /\ s.table[p] = NoFrame /\ PoolOK(s)
  BY LinkedReady DEF Good, PoolOK, InTable
<1>2. /\ PoolType(s2) /\ s2.lru = s.lru
      /\ \A q \in Pages : s2.table[q] = IF q = p THEN f ELSE s.table[q]
      /\ \A g \in Frames : g # f => s2.frames[g] = s.frames[g]
      /\ s2.frames[f].page = p /\ s2.frames[f].content = c
      /\ s2.frames[f].state = "Ready" /\ s2.frames[f].pin = 1 /\ (w => s2.frames[f].dirty)
  BY DEF EnteredTo, IsFrame
<1>3. h \in Handles /\ h.page = p /\ h.frame = f
  BY <1>1 DEF Handle, Handles
<1> HIDE DEF h
<1>4. f # NoFrame
  BY Numbers
<1>5. \A q \in Pages : InTable(s, q) => s.table[q] \in Frames /\ s.table[q] # f
  BY <1>1 DEF PoolOK, PoolType, InTable, FrameOf, Ready
<1>6. ASSUME NEW q \in Pages, q # p
      PROVE  /\ InTable(s2, q) <=> InTable(s, q)
             /\ InTable(s, q) => FrameOf(s2, q) = FrameOf(s, q)
  <2>1. s2.table[q] = s.table[q]
    BY <1>2, <1>6
  <2> QED
    BY <2>1, <1>2, <1>5 DEF InTable, FrameOf
<1>7. InTable(s2, p) /\ FrameOf(s2, p) = s2.frames[f]
  BY <1>1, <1>2, <1>4 DEF InTable, FrameOf
<1>8. \A g \in Frames : g # f => Ready(s2, g) = Ready(s, g) /\ s2.frames[g] = s.frames[g]
  BY <1>2 DEF Ready
<1>9. PoolOK(s2)
  <2>1. ASSUME NEW g \in Frames, Ready(s2, g)
        PROVE  s2.frames[g].page \in Pages /\ s2.table[s2.frames[g].page] = g
    <3>1. CASE g = f
      BY <1>1, <1>2, <3>1
    <3>2. CASE g # f
      <4>1. /\ s2.frames[g] = s.frames[g] /\ s.frames[g].page \in Pages
            /\ s.table[s.frames[g].page] = g
        BY <2>1, <3>2, <1>8 DEF Good, PoolOK
      <4>2. s.frames[g].page # p
        BY <4>1, <1>1, Numbers
      <4> QED
        BY <4>1, <4>2, <1>2
    <3> QED
      BY <3>1, <3>2
  <2>2. ASSUME NEW q \in Pages, InTable(s2, q)
        PROVE  FrameOf(s2, q).state = "Ready" /\ FrameOf(s2, q).page = q
    <3>1. CASE q = p
      BY <3>1, <1>2, <1>7
    <3>2. CASE q # p
      BY <2>2, <3>2, <1>6 DEF Good, PoolOK
    <3> QED
      BY <3>1, <3>2
  <2>3. \A g \in Linked(s2.lru) : Ready(s2, g)
    <3>1. \A g \in Linked(s.lru) : g \in Frames /\ g # f /\ Ready(s, g)
      BY <1>1, LinkedReady
    <3> QED
      BY <3>1, <1>2, <1>8
  <2> QED
    BY <1>2, <2>1, <2>2, <2>3 DEF PoolOK
<1>10. FileOK(s2, d)
  BY <1>1, <1>6 DEF Good, FileOK
<1>11. HeldOK(s2, {h})
  BY <1>1, <1>2, <1>3 DEF HeldOK
<1>12. PinsOK(s2, Idle, {h})
  <2>1. \A g \in Frames : ~Latches(Idle, g) /\ (Holds({h}, g) <=> g = f)
    BY <1>3, FirstValues DEF Holds, Latches, Latched
  <2>2. \A g \in Frames : Ready(s2, g) => s2.frames[g].pin = IF g = f THEN 1 ELSE 0
    BY <1>2, <1>8, AtRest
  <2> QED
    BY <2>1, <2>2 DEF PinsOK
<1>13. KeptOK(s2, Idle)
  BY <1>2, <1>8, AtRest DEF KeptOK
<1>14. CleanOK(s2, d, Idle, {h})
  <2>1. \A q \in Pages : InTable(s2, q) =>
           FrameOf(s2, q).dirty \/ d.disk[q] = FrameOf(s2, q).content
    BY <1>2, <1>6, <1>7, AtRest
  <2> QED
    BY <2>1 DEF CleanOK
<1>15. CallOK(s2, d, Idle, {h})
  BY FirstValues DEF CallOK, AllocateOK, LoadOK, FlushOK, LatchOK, Loads, Flushes, Latched
<1>16. Latest(s2, d, p) = c
  BY <1>2, <1>7 DEF Latest
<1>18. c \in Contents
  BY <1>2 DEF PoolType, FrameType
<1>17. \A q \in Pages : q # p => Latest(s2, d, q) = Latest(s, d, q)
  BY <1>6 DEF Latest
<1> QED
  BY <1>2, <1>3, <1>9, <1>10, <1>11, <1>12, <1>13, <1>14, <1>15, <1>16, <1>17, <1>18 DEF Good, Creates, h

\* Frame f holds a page that is about to leave it; nothing is pinned.
Evicting(s, d, f) ==
    /\ PoolOK(s) /\ FileOK(s, d) /\ f \in Frames /\ Ready(s, f) /\ f \notin Linked(s.lru)
    /\ \A g \in Frames : Ready(s, g) => s.frames[g].pin = 0 /\ (g # f => g \in Linked(s.lru))
    /\ \A p \in Pages : InTable(s, p) /\ s.table[p] # f =>
          FrameOf(s, p).dirty \/ d.disk[p] = FrameOf(s, p).content

\* The victim that Evict takes off the list is such a frame, and on disk unless
\* it is dirty.
LEMMA EvictIs ==
    ASSUME NEW s, NEW d, Good(s, d, Idle, {}), HasVictim(s.lru), NEW f, f = Victim(s.lru),
           NEW s2, s2 = [s EXCEPT !.lru = LruEvict(@)]
    PROVE  /\ Evicting(s2, d, f) /\ s2.table = s.table /\ s2.frames = s.frames
           /\ SameLatest(s, d, s2, d)
           /\ ~s2.frames[f].dirty => d.disk[s2.frames[f].page] = s2.frames[f].content
<1>1. PoolOK(s) /\ FileOK(s, d) /\ PoolType(s) /\ Tidy(s.lru)
  BY DEF Good, PoolOK, PoolType
<1>2. f \in Linked(s.lru) /\ Tidy(LruEvict(s.lru)) /\ Linked(LruEvict(s.lru)) = Linked(s.lru) \ {f}
  BY <1>1, TidyEvict
<1>3. s2 = [s EXCEPT !.lru = LruEvict(s.lru)]
  BY <1>1 DEF PoolType
<1>4. PoolType(s2) /\ s2.table = s.table /\ s2.frames = s.frames /\ s2.lru = LruEvict(s.lru)
  BY <1>1, <1>2, <1>3, RelinkedIs
<1>5. f \in Frames /\ Ready(s, f)
  BY <1>1, <1>2, LinkedReady
<1>6. \A g \in Frames : (Ready(s2, g) <=> Ready(s, g))
  BY <1>4 DEF Ready
<1>7. \A p \in Pages : (InTable(s2, p) <=> InTable(s, p)) /\ FrameOf(s2, p) = FrameOf(s, p)
  BY <1>4 DEF InTable, FrameOf
<1>8. PoolOK(s2) /\ FileOK(s2, d)
  <2>1. \A g \in Linked(s2.lru) : Ready(s2, g)
    BY <1>1, <1>2, <1>4, <1>6, LinkedReady
  <2> QED
    BY <1>1, <1>4, <1>6, <1>7, <2>1 DEF PoolOK, FileOK
<1>9. Evicting(s2, d, f)
  BY <1>2, <1>4, <1>5, <1>6, <1>7, <1>8, AtRest DEF Evicting
<1>10. ~s2.frames[f].dirty => d.disk[s2.frames[f].page] = s2.frames[f].content
  <2>1. s.frames[f].page \in Pages /\ s.table[s.frames[f].page] = f
    BY <1>1, <1>5 DEF PoolOK
  <2>2. InTable(s, s.frames[f].page) /\ FrameOf(s, s.frames[f].page) = s.frames[f]
    BY <2>1, <1>5, Numbers DEF InTable, FrameOf
  <2> QED
    BY <2>1, <2>2, <1>4, AtRest
<1>11. SameLatest(s, d, s2, d)
  BY <1>7 DEF SameLatest, Latest
<1> QED
  BY <1>4, <1>9, <1>10, <1>11

\* The end of findVictim leaves an empty frame.
LEMMA DropOK ==
    ASSUME NEW s, NEW d, NEW f, Evicting(s, d, f), NEW s2, DroppedTo(s, s2, f)
    PROVE  /\ Good(s2, d, Idle, {}) /\ f \in Frames /\ s2.frames[f].state = "Empty"
           /\ \A p \in Pages : InTable(s2, p) => InTable(s, p)
           /\ d.disk[s.frames[f].page] = s.frames[f].content => SameLatest(s, d, s2, d)
<1> DEFINE p == s.frames[f].page
<1>1. /\ PoolOK(s) /\ FileOK(s, d) /\ f \in Frames /\ f \notin Linked(s.lru)
      /\ p \in Pages /\ s.table[p] = f
  BY DEF Evicting, PoolOK
<1>2. /\ PoolType(s2) /\ s2.lru = s.lru
      /\ \A q \in Pages : s2.table[q] = IF q = p THEN NoFrame ELSE s.table[q]
      /\ \A g \in Frames : g # f => s2.frames[g] = s.frames[g]
      /\ s2.frames[f].state = "Empty"
  BY DEF DroppedTo, IsFrame
<1>3. InTable(s, p) /\ FrameOf(s, p) = s.frames[f] /\ ~InTable(s2, p) /\ p < d.numPages
  BY <1>1, <1>2, Numbers DEF InTable, FrameOf, FileOK
<1> HIDE DEF p
<1>4. ASSUME NEW q \in Pages, q # p
      PROVE  /\ InTable(s2, q) <=> InTable(s, q)
             /\ InTable(s, q) => FrameOf(s2, q) = FrameOf(s, q) /\ s.table[q] # f
  <2>1. s2.table[q] = s.table[q]
    BY <1>2, <1>4
  <2>2. InTable(s, q) => s.table[q] \in Frames /\ s.table[q] # f
    BY <1>1, <1>4 DEF PoolOK, PoolType, InTable, FrameOf, p
  <2> QED
    BY <2>1, <2>2, <1>2 DEF InTable, FrameOf
<1>5. \A g \in Frames : Ready(s2, g) => g # f /\ Ready(s, g) /\ s2.frames[g] = s.frames[g]
  BY <1>2 DEF Ready
<1>6. PoolOK(s2)
  <2>1. ASSUME NEW g \in Frames, Ready(s2, g)
        PROVE  s2.frames[g].page \in Pages /\ s2.table[s2.frames[g].page] = g
    <3>1. /\ g # f /\ s2.frames[g] = s.frames[g] /\ s.frames[g].page \in Pages
          /\ s.table[s.frames[g].page] = g
      BY <2>1, <1>1, <1>5 DEF PoolOK
    <3>2. s.frames[g].page # p
      BY <3>1, <1>1
    <3> QED
      BY <3>1, <3>2, <1>2
  <2>2. \A q \in Pages : InTable(s2, q) => FrameOf(s2, q).state = "Ready" /\ FrameOf(s2, q).page = q
    BY <1>1, <1>3, <1>4 DEF PoolOK
  <2>3. \A g \in Linked(s2.lru) : Ready(s2, g)
    BY <1>1, <1>2, LinkedReady DEF Ready
  <2> QED
    BY <1>2, <2>1, <2>2, <2>3 DEF PoolOK
<1>7. FileOK(s2, d)
  BY <1>1, <1>3, <1>4 DEF FileOK
<1>8. \A g \in Frames : Ready(s2, g) => s2.frames[g].pin = 0 /\ g \in Linked(s2.lru)
  BY <1>2, <1>5 DEF Evicting
<1>9. \A q \in Pages : InTable(s2, q) => FrameOf(s2, q).dirty \/ d.disk[q] = FrameOf(s2, q).content
  BY <1>3, <1>4 DEF Evicting
<1>10. Good(s2, d, Idle, {})
  BY <1>6, <1>7, <1>8, <1>9, Rests
<1>11. \A q \in Pages : InTable(s2, q) => InTable(s, q)
  BY <1>3, <1>4
<1>12. ASSUME d.disk[p] = s.frames[f].content
       PROVE  SameLatest(s, d, s2, d)
  <2>1. Latest(s2, d, p) = Latest(s, d, p)
    BY <1>3, <1>12 DEF Latest
  <2>2. \A q \in Pages : q # p => Latest(s2, d, q) = Latest(s, d, q)
    BY <1>4 DEF Latest
  <2> QED
    BY <2>1, <2>2 DEF SameLatest
<1> QED
  BY <1>1, <1>2, <1>10, <1>11, <1>12 DEF p

\* A change of one frame that does not show, or not while its page is in the table.
LEMMA ChangedLatest ==
    ASSUME NEW s, NEW d, PoolOK(s), FileOK(s, d), NEW f \in Frames, NEW s2, NEW n, NEW w,
           ChangedTo(s, s2, f, s.frames[f].content, n, w), s2.lru = s.lru
    PROVE  /\ SameLatest(s, d, s2, d)
           /\ \A g \in Frames : s2.frames[g].content = s.frames[g].content
           /\ \A p \in Pages : InTable(s, p) => FrameOf(s2, p).content = FrameOf(s, p).content
<1>1. /\ \A g \in Frames : g # f => s2.frames[g] = s.frames[g]
      /\ s2.frames[f].content = s.frames[f].content
      /\ \A p \in Pages : (InTable(s2, p) <=> InTable(s, p)) /\ s2.table[p] = s.table[p]
      /\ \A p \in Pages : InTable(s, p) => s.table[p] \in Frames
  BY ChangedKeeps, LinkedReady
<1>2. \A g \in Frames : s2.frames[g].content = s.frames[g].content
  BY <1>1
<1>3. \A p \in Pages : InTable(s, p) => FrameOf(s2, p).content = FrameOf(s, p).content
  BY <1>1, <1>2 DEF FrameOf
<1> QED
  BY <1>1, <1>2, <1>3 DEF SameLatest, Latest

\* The flush of a dirty victim begins.
LEMMA EvictFlush ==
    ASSUME NEW s, NEW d, NEW f, Evicting(s, d, f), NEW s2,
           NEW w \in BOOLEAN, ~w,
           ChangedTo(s, s2, f, s.frames[f].content, s.frames[f].pin, w), s2.lru = s.lru,
           NEW j \in Jobs, Wants(s, d, j, {}), j.pc = "flushSeek", j.frame = f,
           j.pid = s.frames[f].page
    PROVE  Good(s2, d, j, {}) /\ SameLatest(s, d, s2, d)
<1>1. PoolOK(s) /\ FileOK(s, d) /\ f \in Frames /\ Ready(s, f)
  BY DEF Evicting
<1>2. s.frames[f].page \in Pages /\ s.table[s.frames[f].page] = f
  BY <1>1 DEF PoolOK
<1>3. /\ PoolOK(s2) /\ FileOK(s2, d)
      /\ \A g \in Frames : Ready(s2, g) <=> Ready(s, g)
      /\ \A p \in Pages : (InTable(s2, p) <=> InTable(s, p)) /\ s2.table[p] = s.table[p]
      /\ \A p \in Pages : InTable(s, p) => s.table[p] \in Frames
      /\ s2.frames[f].pin = s.frames[f].pin /\ ~s2.frames[f].dirty
      /\ \A g \in Frames : g # f => s2.frames[g] = s.frames[g]
  BY <1>1, ChangedKeeps, LinkedReady
<1>4. \A g \in Frames : ~Holds({}, g) /\ ~Latches(j, g)
  BY DEF Holds, Latches, Latched
<1>5. \A g \in Frames : Ready(s2, g) => s2.frames[g].pin = 0
  BY <1>3 DEF Evicting
<1>6. PinsOK(s2, j, {})
  BY <1>4, <1>5 DEF PinsOK
<1>7. KeptOK(s2, j)
  BY <1>3 DEF KeptOK, Evicting, Flushes, Wants
<1>8. CleanOK(s2, d, j, {})
  BY <1>3 DEF CleanOK, Evicting, FrameOf, Unwritten
<1>9. HeldOK(s2, {})
  BY DEF HeldOK
<1>10. Wants(s2, d, j, {})
  BY <1>3 DEF Wants
<1>11. CallOK(s2, d, j, {})
  BY <1>1, <1>2, <1>3, <1>10
     DEF CallOK, AllocateOK, LoadOK, FlushOK, LatchOK, Loads, Flushes, Latched, Evicting, Wants
<1>12. SameLatest(s, d, s2, d)
  BY <1>1, ChangedLatest
<1> QED
  BY <1>3, <1>6, <1>7, <1>8, <1>9, <1>11, <1>12 DEF Good

\* The flush of a dirty page begins that stays in the pool.
LEMMA FlushBegins ==
    ASSUME NEW s, NEW d, NEW hd, Good(s, d, Idle, hd), NEW f \in Frames, Ready(s, f), NEW s2,
           NEW w \in BOOLEAN, ~w,
           ChangedTo(s, s2, f, s.frames[f].content, s.frames[f].pin, w), s2.lru = s.lru,
           NEW j \in Jobs, j.op \in {"flush", "flushAll"}, j.pc = "flushSeek", j.frame = f,
           j.pid = s.frames[f].page
    PROVE  Good(s2, d, j, hd) /\ SameLatest(s, d, s2, d)
<1>1. PoolOK(s) /\ FileOK(s, d)
  BY DEF Good
<1>2. s.frames[f].page \in Pages /\ s.table[s.frames[f].page] = f
  BY <1>1 DEF PoolOK
<1>3. /\ PoolOK(s2) /\ FileOK(s2, d)
      /\ \A g \in Frames : Ready(s2, g) <=> Ready(s, g)
      /\ \A p \in Pages : (InTable(s2, p) <=> InTable(s, p)) /\ s2.table[p] = s.table[p]
      /\ \A p \in Pages : InTable(s, p) => s.table[p] \in Frames
      /\ s2.frames[f].pin = s.frames[f].pin /\ ~s2.frames[f].dirty
      /\ \A g \in Frames : g # f => s2.frames[g] = s.frames[g]
  BY <1>1, ChangedKeeps, LinkedReady
<1>4. \A g \in Frames : ~Latches(Idle, g) /\ ~Latches(j, g) /\ s2.frames[g].pin = s.frames[g].pin
  BY <1>3, FirstValues DEF Latches, Latched
<1>5. PinsOK(s2, j, hd)
  BY <1>3, <1>4 DEF PinsOK, Good
<1>6. KeptOK(s2, j)
  BY <1>3, <1>4, FirstValues DEF KeptOK, Good, Flushes
<1>7. ~Unwritten(Idle)
  BY FirstValues DEF Unwritten
<1>8. CleanOK(s2, d, j, hd)
  BY <1>3, <1>7 DEF CleanOK, Good, FrameOf, Unwritten
<1>9. HeldOK(s2, hd)
  BY <1>3 DEF HeldOK, Good, Handles
<1>10. CallOK(s2, d, j, hd)
  BY <1>2, <1>3 DEF CallOK, AllocateOK, LoadOK, FlushOK, LatchOK, Loads, Flushes, Latched
<1>11. SameLatest(s, d, s2, d)
  BY <1>1, ChangedLatest
<1> QED
  BY <1>3, <1>5, <1>6, <1>8, <1>9, <1>10, <1>11 DEF Good

\* The same call, further on.
Further(j, j2) ==
    j2 \in Jobs /\ j2.op = j.op /\ j2.page = j.page /\ j2.frame = j.frame /\ j2.pid = j.pid

\* What a flush in progress leaves alone.
LEMMA FlushKeeps ==
    ASSUME NEW s, NEW d, NEW j, NEW hd, Good(s, d, j, hd), j.pc \in Flushes, NEW s2,
           ChangedTo(s, s2, j.frame, s.frames[j.frame].content, s.frames[j.frame].pin,
                     s.frames[j.frame].dirty),
           s2.lru = s.lru, NEW j2, Further(j, j2), j2.pc \in Flushes
    PROVE  /\ j.frame \in Frames /\ PoolOK(s2) /\ FileOK(s2, d) /\ PinsOK(s2, j2, hd)
           /\ KeptOK(s2, j2) /\ HeldOK(s2, hd) /\ SameLatest(s, d, s2, d)
           /\ \A p \in Pages : (InTable(s2, p) <=> InTable(s, p)) /\ s2.table[p] = s.table[p]
           /\ \A p \in Pages : InTable(s, p) => s.table[p] \in Frames
           /\ \A g \in Frames : s2.frames[g].dirty = s.frames[g].dirty
                                /\ s2.frames[g].content = s.frames[g].content
<1> DEFINE f == j.frame
<1>1. PoolOK(s) /\ FileOK(s, d) /\ f \in Frames
  BY DEF Good, CallOK, FlushOK
<1>2. /\ PoolOK(s2) /\ FileOK(s2, d)
      /\ \A g \in Frames : Ready(s2, g) <=> Ready(s, g)
      /\ \A p \in Pages : (InTable(s2, p) <=> InTable(s, p)) /\ s2.table[p] = s.table[p]
      /\ \A p \in Pages : InTable(s, p) => s.table[p] \in Frames
      /\ s2.frames[f].pin = s.frames[f].pin /\ s2.frames[f].dirty = s.frames[f].dirty
      /\ s2.frames[f].content = s.frames[f].content
      /\ \A g \in Frames : g # f => s2.frames[g] = s.frames[g]
  BY <1>1, ChangedKeeps, LinkedReady
<1>3. \A g \in Frames : /\ s2.frames[g].pin = s.frames[g].pin /\ s2.frames[g].dirty = s.frames[g].dirty
                        /\ s2.frames[g].content = s.frames[g].content
  BY <1>2
<1>4. \A g \in Frames : ~Latches(j, g) /\ ~Latches(j2, g)
  BY DEF Latches, Latched, Flushes
<1>5. PinsOK(s2, j2, hd)
  BY <1>2, <1>3, <1>4 DEF PinsOK, Good
<1>6. KeptOK(s2, j2)
  BY <1>2, <1>3 DEF KeptOK, Good, Flushes, Further
<1>7. HeldOK(s2, hd)
  BY <1>2 DEF HeldOK, Good, Handles
<1>8. SameLatest(s, d, s2, d)
  BY <1>1, ChangedLatest
<1> QED
  BY <1>1, <1>2, <1>3, <1>5, <1>6, <1>7, <1>8

\* The file position is set, and the frame copied.
LEMMA FlushSeeks ==
    ASSUME NEW s, NEW d, NEW j, NEW hd, Good(s, d, j, hd), j.pc = "flushSeek", NEW s2,
           ChangedTo(s, s2, j.frame, s.frames[j.frame].content, s.frames[j.frame].pin,
                     s.frames[j.frame].dirty),
           s2.lru = s.lru, NEW d2, Moved(d, d2, j.pid), NEW j2, Further(j, j2),
           j2.pc = "flushWrite", j2.buffer = s.frames[j.frame].content
    PROVE  Good(s2, d2, j2, hd) /\ SameLatest(s, d, s2, d2)
<1>1. /\ j.frame \in Frames /\ PoolOK(s2) /\ FileOK(s2, d) /\ PinsOK(s2, j2, hd)
      /\ KeptOK(s2, j2) /\ HeldOK(s2, hd) /\ SameLatest(s, d, s2, d)
      /\ \A p \in Pages : (InTable(s2, p) <=> InTable(s, p)) /\ s2.table[p] = s.table[p]
      /\ \A p \in Pages : InTable(s, p) => s.table[p] \in Frames
      /\ \A g \in Frames : s2.frames[g].dirty = s.frames[g].dirty
                           /\ s2.frames[g].content = s.frames[g].content
  BY FlushKeeps DEF Flushes
<1>2. d2 \in FileType /\ d2.disk = d.disk /\ d2.numPages = d.numPages /\ d2.pos = j.pid
  BY DEF Moved
<1>3. FileOK(s2, d2)
  BY <1>1, <1>2 DEF FileOK
<1>4. CleanOK(s2, d2, j2, hd)
  BY <1>1, <1>2 DEF CleanOK, Good, FrameOf, Unwritten, Further
<1>5. j.op \in {"fetch", "new"} => Wants(s2, d2, j2, hd)
  BY <1>1, <1>2 DEF Good, CallOK, FlushOK, Flushes, Wants, Further
<1>6. CallOK(s2, d2, j2, hd)
  BY <1>1, <1>2, <1>5
     DEF Good, CallOK, AllocateOK, LoadOK, FlushOK, LatchOK, Loads, Flushes, Latched, Further
<1>7. SameLatest(s, d, s2, d2)
  BY <1>1, <1>2 DEF SameLatest, Latest
<1> QED
  BY <1>1, <1>3, <1>4, <1>6, <1>7 DEF Good

\* The copy is written.
LEMMA FlushWrites ==
    ASSUME NEW s, NEW d, NEW j, NEW hd, Good(s, d, j, hd), j.pc = "flushWrite", NEW s2,
           ChangedTo(s, s2, j.frame, s.frames[j.frame].content, s.frames[j.frame].pin,
                     s.frames[j.frame].dirty),
           s2.lru = s.lru, NEW d2, WrittenTo(d, d2, j.pid, j.buffer), NEW j2, Further(j, j2),
           j2.pc = "flushDone", j2.ok
    PROVE  Good(s2, d2, j2, hd) /\ SameLatest(s, d, s2, d2)
<1>1. /\ j.frame \in Frames /\ PoolOK(s2) /\ FileOK(s2, d) /\ PinsOK(s2, j2, hd)
      /\ KeptOK(s2, j2) /\ HeldOK(s2, hd) /\ SameLatest(s, d, s2, d)
      /\ \A p \in Pages : (InTable(s2, p) <=> InTable(s, p)) /\ s2.table[p] = s.table[p]
      /\ \A p \in Pages : InTable(s, p) => s.table[p] \in Frames
      /\ \A g \in Frames : s2.frames[g].dirty = s.frames[g].dirty
                           /\ s2.frames[g].content = s.frames[g].content
  BY FlushKeeps DEF Flushes
<1>2. /\ d2 \in FileType /\ d2.numPages = d.numPages /\ d2.disk[j.pid] = j.buffer
      /\ \A q \in Pages : q # j.pid => d2.disk[q] = d.disk[q]
  BY DEF WrittenTo
<1>3. /\ j.pid \in Pages /\ s.table[j.pid] = j.frame /\ InTable(s, j.pid)
      /\ j.buffer = s.frames[j.frame].content /\ j.buffer \in Contents
  BY <1>1, Numbers DEF Good, CallOK, FlushOK, Flushes, InTable, Jobs
<1>4. FileOK(s2, d2)
  BY <1>1, <1>2, <1>3 DEF FileOK
<1>5. CleanOK(s2, d2, j2, hd)
  <2>1. ASSUME NEW p \in Pages, InTable(s2, p)
        PROVE  \/ FrameOf(s2, p).dirty
               \/ d2.disk[p] = FrameOf(s2, p).content
               \/ \E h \in hd : h.page = p /\ h.wrote
    <3>1. CASE p = j.pid
      BY <3>1, <1>1, <1>2, <1>3 DEF FrameOf
    <3>2. CASE p # j.pid
      <4>1. s.table[p] # j.frame
        BY <2>1, <3>2, <1>1, <1>3 DEF Good, PoolOK, FrameOf
      <4>2. \/ FrameOf(s, p).dirty
            \/ d.disk[p] = FrameOf(s, p).content
            \/ \E h \in hd : h.page = p /\ h.wrote
        BY <2>1, <4>1, <1>1 DEF Good, CleanOK
      <4> QED
        BY <2>1, <3>2, <4>2, <1>1, <1>2 DEF FrameOf
    <3> QED
      BY <3>1, <3>2
  <2> QED
    BY <2>1 DEF CleanOK
<1>6. j.op \in {"fetch", "new"} => Wants(s2, d2, j2, hd)
  BY <1>1, <1>2, <1>3 DEF Good, CallOK, FlushOK, Flushes, Wants, Further
<1>7. CallOK(s2, d2, j2, hd)
  BY <1>1, <1>2, <1>6
     DEF Good, CallOK, AllocateOK, LoadOK, FlushOK, LatchOK, Loads, Flushes, Latched, Further
<1>8. SameLatest(s, d, s2, d2)
  BY <1>1, <1>2, <1>3 DEF SameLatest, Latest
<1> QED
  BY <1>1, <1>4, <1>5, <1>7, <1>8 DEF Good

\* The copy cannot be written.
LEMMA FlushFails ==
    ASSUME NEW s, NEW d, NEW j, NEW hd, Good(s, d, j, hd), j.pc = "flushWrite", NEW s2,
           ChangedTo(s, s2, j.frame, s.frames[j.frame].content, s.frames[j.frame].pin,
                     s.frames[j.frame].dirty),
           s2.lru = s.lru, NEW j2, Further(j, j2),
           j2.pc = "flushDone", ~j2.ok, "write" \in Faults \/ j.op \in {"flush", "flushAll"}
    PROVE  Good(s2, d, j2, hd) /\ SameLatest(s, d, s2, d)
<1>1. /\ j.frame \in Frames /\ PoolOK(s2) /\ FileOK(s2, d) /\ PinsOK(s2, j2, hd)
      /\ KeptOK(s2, j2) /\ HeldOK(s2, hd) /\ SameLatest(s, d, s2, d)
      /\ \A p \in Pages : (InTable(s2, p) <=> InTable(s, p)) /\ s2.table[p] = s.table[p]
      /\ \A p \in Pages : InTable(s, p) => s.table[p] \in Frames
      /\ \A g \in Frames : s2.frames[g].dirty = s.frames[g].dirty
                           /\ s2.frames[g].content = s.frames[g].content
  BY FlushKeeps DEF Flushes
<1>2. CleanOK(s2, d, j2, hd)
  BY <1>1 DEF CleanOK, Good, FrameOf, Unwritten, Further
<1>3. j.op \in {"fetch", "new"} => Wants(s2, d, j2, hd)
  BY <1>1 DEF Good, CallOK, FlushOK, Flushes, Wants, Further
<1>4. CallOK(s2, d, j2, hd)
  BY <1>1, <1>3
     DEF Good, CallOK, AllocateOK, LoadOK, FlushOK, LatchOK, Loads, Flushes, Latched, Further
<1> QED
  BY <1>1, <1>2, <1>4 DEF Good

\* The end of FlushPage, or of one page of FlushAll: a failure is remembered.
LEMMA FlushEnds ==
    ASSUME NEW s, NEW d, NEW j, NEW hd, Good(s, d, j, hd), j.pc = "flushDone",
           j.op \in {"flush", "flushAll"}, NEW s2, NEW w \in BOOLEAN,
           ChangedTo(s, s2, j.frame, s.frames[j.frame].content, s.frames[j.frame].pin, w),
           s2.lru = s.lru, w \/ j.ok, s.frames[j.frame].dirty => w
    PROVE  Good(s2, d, Idle, hd) /\ SameLatest(s, d, s2, d)
<1> DEFINE f == j.frame
<1>1. PoolOK(s) /\ FileOK(s, d) /\ f \in Frames
  BY DEF Good, CallOK, FlushOK, Flushes
<1>2. /\ PoolOK(s2) /\ FileOK(s2, d)
      /\ \A g \in Frames : Ready(s2, g) <=> Ready(s, g)
      /\ \A p \in Pages : (InTable(s2, p) <=> InTable(s, p)) /\ s2.table[p] = s.table[p]
      /\ \A p \in Pages : InTable(s, p) => s.table[p] \in Frames
      /\ s2.frames[f].pin = s.frames[f].pin /\ s2.frames[f].content = s.frames[f].content
      /\ \A g \in Frames : g # f => s2.frames[g] = s.frames[g]
  BY <1>1, ChangedKeeps, LinkedReady
<1>3. \A g \in Frames : ~Latches(Idle, g) /\ ~Latches(j, g) /\ s2.frames[g].pin = s.frames[g].pin
  BY <1>2, FirstValues DEF Latches, Latched
<1>4. PinsOK(s2, Idle, hd)
  BY <1>2, <1>3 DEF PinsOK, Good
<1>5. KeptOK(s2, Idle)
  BY <1>2, <1>3 DEF KeptOK, Good
<1>6. w => s2.frames[f].dirty
  BY DEF ChangedTo, IsFrame
<1>7. CleanOK(s2, d, Idle, hd)
  BY <1>2, <1>6 DEF CleanOK, Good, FrameOf, Unwritten
<1>8. HeldOK(s2, hd)
  BY <1>2 DEF HeldOK, Good, Handles
<1>9. CallOK(s2, d, Idle, hd)
  BY FirstValues DEF CallOK, AllocateOK, LoadOK, FlushOK, LatchOK, Loads, Flushes, Latched
<1>10. SameLatest(s, d, s2, d)
  BY <1>1, ChangedLatest
<1> QED
  BY <1>2, <1>4, <1>5, <1>7, <1>8, <1>9, <1>10 DEF Good

\* The end of the flush of a victim.  A failure is remembered, too, though the
\* frame is given away all the same.
LEMMA EvictEnds ==
    ASSUME NEW s, NEW d, NEW j, NEW hd, Good(s, d, j, hd), j.pc = "flushDone",
           j.op \in {"fetch", "new"}, NEW s2, NEW w \in BOOLEAN,
           ChangedTo(s, s2, j.frame, s.frames[j.frame].content, s.frames[j.frame].pin, w),
           s2.lru = s.lru
    PROVE  /\ hd = {} /\ Evicting(s2, d, j.frame) /\ Wants(s2, d, j, {})
           /\ SameLatest(s, d, s2, d)
           /\ d.disk[s2.frames[j.frame].page] = s2.frames[j.frame].content \/ "write" \in Faults
<1> DEFINE f == j.frame
<1>1. /\ PoolOK(s) /\ FileOK(s, d) /\ f \in Frames /\ hd = {} /\ Wants(s, d, j, {})
      /\ j.pid \in Pages /\ s.table[j.pid] = f /\ f \notin Linked(s.lru) /\ ~s.frames[f].dirty
  BY DEF Good, CallOK, FlushOK, Flushes, Wants
<1>2. InTable(s, j.pid) /\ Ready(s, f) /\ s.frames[f].page = j.pid
  BY <1>1, Numbers DEF PoolOK, InTable, FrameOf, Ready
<1>3. \A g \in Frames : Ready(s, g) => s.frames[g].pin = 0 /\ (g # f => g \in Linked(s.lru))
  <2>1. \A g \in Frames : ~Holds({}, g) /\ ~Latches(j, g)
    BY DEF Holds, Latches, Latched
  <2>2. \A g \in Frames : Ready(s, g) => s.frames[g].pin = 0
    BY <1>1, <2>1 DEF Good, PinsOK
  <2> QED
    BY <2>2 DEF Good, KeptOK
<1>4. \A p \in Pages : InTable(s, p) /\ s.table[p] # f =>
         FrameOf(s, p).dirty \/ d.disk[p] = FrameOf(s, p).content
  BY <1>1 DEF Good, CleanOK
<1>5. d.disk[s.frames[f].page] = s.frames[f].content \/ "write" \in Faults
  <2>1. CASE j.ok
    BY <2>1, <1>1, <1>2 DEF Good, CleanOK, Unwritten, FrameOf
  <2>2. CASE ~j.ok
    BY <2>2 DEF Good, CallOK, FlushOK
  <2> QED
    BY <2>1, <2>2
<1>6. /\ PoolOK(s2) /\ FileOK(s2, d)
      /\ \A g \in Frames : (Ready(s2, g) <=> Ready(s, g)) /\ s2.frames[g].page = s.frames[g].page
      /\ \A p \in Pages : (InTable(s2, p) <=> InTable(s, p)) /\ s2.table[p] = s.table[p]
      /\ \A p \in Pages : InTable(s, p) => s.table[p] \in Frames
      /\ s2.frames[f].pin = s.frames[f].pin /\ s2.frames[f].content = s.frames[f].content
      /\ \A g \in Frames : g # f => s2.frames[g] = s.frames[g]
  BY <1>1, ChangedKeeps, LinkedReady
<1>7. SameLatest(s, d, s2, d)
  BY <1>1, ChangedLatest
<1>8. \A g \in Frames : s2.frames[g].pin = s.frames[g].pin
  BY <1>6
<1>9. Evicting(s2, d, f)
  BY <1>1, <1>2, <1>3, <1>4, <1>6, <1>8 DEF Evicting, FrameOf
<1>10. Wants(s2, d, j, {})
  BY <1>1, <1>6 DEF Wants
<1> QED
  BY <1>1, <1>5, <1>6, <1>7, <1>9, <1>10

-----------------------------------------------------------------------------
\* Pages are loaded and allocated.

\* A call that has not entered its page in the table has changed nothing yet.
LEMMA Untouched ==
    ASSUME NEW s, NEW d, NEW j, NEW hd, Good(s, d, j, hd), j.pc \in Loads \cup {"allocate"}
    PROVE  hd = {} /\ Good(s, d, Idle, {})
<1>1. hd = {} /\ PoolOK(s) /\ FileOK(s, d)
  BY DEF Good, CallOK, LoadOK, AllocateOK, Wants
<1>2. \A g \in Frames : ~Holds({}, g) /\ ~Latches(j, g)
  BY DEF Holds, Latches, Latched, Loads
<1>3. \A g \in Frames : Ready(s, g) => s.frames[g].pin = 0
  BY <1>1, <1>2 DEF Good, PinsOK
<1>4. \A g \in Frames : Ready(s, g) => g \in Linked(s.lru)
  BY <1>3 DEF Good, KeptOK, Flushes, Loads
<1>5. \A p \in Pages : InTable(s, p) => FrameOf(s, p).dirty \/ d.disk[p] = FrameOf(s, p).content
  BY <1>1 DEF Good, CleanOK, Unwritten, Loads
<1> QED
  BY <1>1, <1>3, <1>4, <1>5, Rests

\* The position is set, and the page read.
LEMMA LoadMoves ==
    ASSUME NEW s, NEW d, NEW j, NEW hd, Good(s, d, j, hd), j.pc \in Loads, NEW s2, NEW c,
           ChangedTo(s, s2, j.frame, c, s.frames[j.frame].pin, s.frames[j.frame].dirty),
           s2.lru = s.lru, NEW d2, NEW x, Moved(d, d2, x), NEW j2, Further(j, j2), j2.pc \in Loads,
           j2.pc = "loadRead" => x = j.page,
           j2.pc = "loadDone" /\ j2.ok => c = d.disk[j.page]
    PROVE  Good(s2, d2, j2, hd) /\ SameLatest(s, d, s2, d2)
<1> DEFINE f == j.frame
<1>1. /\ PoolOK(s) /\ FileOK(s, d) /\ hd = {} /\ f \in Frames /\ j.op = "fetch" /\ Wants(s, d, j, {})
      /\ s.frames[f].state = "Loading" /\ s.frames[f].page = j.page /\ s.frames[f].pin = 1
  BY DEF Good, CallOK, LoadOK, Wants
<1>2. /\ PoolOK(s2) /\ FileOK(s2, d)
      /\ \A g \in Frames : (Ready(s2, g) <=> Ready(s, g)) /\ s2.frames[g].page = s.frames[g].page
                           /\ s2.frames[g].state = s.frames[g].state
      /\ \A p \in Pages : (InTable(s2, p) <=> InTable(s, p)) /\ s2.table[p] = s.table[p]
      /\ \A p \in Pages : InTable(s, p) => s.table[p] \in Frames
      /\ s2.frames[f].content = c /\ s2.frames[f].pin = s.frames[f].pin
      /\ \A g \in Frames : g # f => s2.frames[g] = s.frames[g]
  BY <1>1, ChangedKeeps, LinkedReady
<1>3. d2 \in FileType /\ d2.disk = d.disk /\ d2.numPages = d.numPages /\ d2.pos = x
  BY DEF Moved
<1>4. FileOK(s2, d2)
  BY <1>2, <1>3 DEF FileOK
<1>5. \A p \in Pages : InTable(s, p) => s.table[p] # f /\ FrameOf(s2, p) = FrameOf(s, p)
  BY <1>1, <1>2 DEF PoolOK, FrameOf
<1>6. \A g \in Frames : ~Latches(j, g) /\ ~Latches(j2, g)
  BY DEF Latches, Latched, Loads
<1>7. \A g \in Frames : Ready(s, g) => g # f /\ s2.frames[g] = s.frames[g]
  BY <1>1, <1>2 DEF Ready
<1>8. PinsOK(s2, j2, hd)
  BY <1>2, <1>6, <1>7 DEF PinsOK, Good
<1>9. KeptOK(s2, j2)
  BY <1>2, <1>7 DEF KeptOK, Good, Flushes, Loads
<1>10. CleanOK(s2, d2, j2, hd)
  BY <1>2, <1>3, <1>5 DEF CleanOK, Good, Unwritten, Loads
<1>11. HeldOK(s2, hd)
  BY <1>1 DEF HeldOK
<1>12. Wants(s2, d2, j2, hd)
  BY <1>1, <1>2, <1>3 DEF Wants, Further
<1>13. CallOK(s2, d2, j2, hd)
  BY <1>1, <1>2, <1>3, <1>12
     DEF CallOK, AllocateOK, LoadOK, FlushOK, LatchOK, Loads, Flushes, Latched, Further
<1>14. SameLatest(s, d, s2, d2)
  BY <1>2, <1>3, <1>5 DEF SameLatest, Latest
<1> QED
  BY <1>2, <1>4, <1>8, <1>9, <1>10, <1>11, <1>13, <1>14 DEF Good

\* A page that could not be read leaves an empty frame behind.
LEMMA EmptyOK ==
    ASSUME NEW s, NEW d, Good(s, d, Idle, {}), NEW f \in Frames, ~Ready(s, f), NEW s2,
           EmptiedTo(s, s2, f)
    PROVE  Good(s2, d, Idle, {}) /\ SameLatest(s, d, s2, d)
<1>1. /\ PoolType(s2) /\ s2.table = s.table /\ s2.lru = s.lru
      /\ \A g \in Frames : g # f => s2.frames[g] = s.frames[g]
      /\ s2.frames[f].state = "Empty"
  BY DEF EmptiedTo
<1>2. PoolOK(s) /\ FileOK(s, d)
  BY DEF Good
<1>3. \A g \in Frames : (Ready(s2, g) <=> Ready(s, g)) /\ (Ready(s, g) => s2.frames[g] = s.frames[g])
  BY <1>1 DEF Ready
<1>4. \A p \in Pages : /\ InTable(s2, p) <=> InTable(s, p)
                       /\ InTable(s, p) => FrameOf(s2, p) = FrameOf(s, p)
  BY <1>1, <1>2, <1>3 DEF InTable, FrameOf, PoolOK, PoolType, Ready
<1>5. PoolOK(s2) /\ FileOK(s2, d)
  <2>1. \A g \in Frames : Ready(s2, g) => s2.frames[g].page \in Pages /\ s2.table[s2.frames[g].page] = g
    BY <1>1, <1>2, <1>3 DEF PoolOK
  <2>2. \A p \in Pages : InTable(s2, p) => FrameOf(s2, p).state = "Ready" /\ FrameOf(s2, p).page = p
    BY <1>2, <1>4 DEF PoolOK
  <2>3. \A g \in Linked(s2.lru) : Ready(s2, g)
    BY <1>1, <1>2, <1>3, LinkedReady
  <2>4. FileOK(s2, d)
    BY <1>2, <1>4 DEF FileOK
  <2> QED
    BY <1>1, <2>1, <2>2, <2>3, <2>4 DEF PoolOK
<1>6. Good(s2, d, Idle, {})
  BY <1>1, <1>3, <1>4, <1>5, AtRest, Rests
<1> QED
  BY <1>4, <1>6 DEF SameLatest, Latest

\* allocatePage seeks to the end of the file.
LEMMA NewOK ==
    ASSUME NEW s, NEW d, Good(s, d, Idle, {}), NEW d2, Moved(d, d2, d.numPages),
           NEW j \in Jobs, j.pc = "allocate", j.op = "new", j.page \in Pages, j.page = d.numPages
    PROVE  Good(s, d2, j, {}) /\ SameLatest(s, d, s, d2)
<1>1. d2 \in FileType /\ d2.disk = d.disk /\ d2.numPages = d.numPages /\ d2.pos = d.numPages
  BY DEF Moved
<1>2. PoolOK(s) /\ FileOK(s, d2)
  BY <1>1 DEF Good, FileOK
<1>3. \A g \in Frames : ~Holds({}, g) /\ ~Latches(j, g)
  BY DEF Holds, Latches, Latched
<1>4. PinsOK(s, j, {}) /\ KeptOK(s, j)
  BY <1>3, AtRest DEF PinsOK, KeptOK
<1>5. CleanOK(s, d2, j, {})
  BY <1>1, AtRest DEF CleanOK
<1>6. CallOK(s, d2, j, {}) /\ HeldOK(s, {})
  BY <1>1 DEF CallOK, AllocateOK, LoadOK, FlushOK, LatchOK, Loads, Flushes, Latched, HeldOK
<1>7. SameLatest(s, d, s, d2)
  BY <1>1 DEF SameLatest, Latest
<1> QED
  BY <1>2, <1>4, <1>5, <1>6, <1>7 DEF Good

\* The file has one more page, of zeros.
Extended(d, d2, p) ==
    /\ d2 \in FileType /\ d2.numPages = p + 1 /\ d2.disk[p] = Zeros
    /\ \A q \in Pages : q # p => d2.disk[q] = d.disk[q]

\* The page that allocatePage has written is not cached.
LEMMA ExtendOK ==
    ASSUME NEW s, NEW d, NEW j, NEW hd, Good(s, d, j, hd), j.pc = "allocate",
           NEW d2, Extended(d, d2, j.page)
    PROVE  /\ hd = {} /\ Good(s, d2, Idle, {}) /\ Wants(s, d2, j, {}) /\ j \in Jobs /\ j.op = "new"
           /\ SameLatest(s, d, s, d2)
<1> DEFINE p == j.page
<1>1. /\ hd = {} /\ Good(s, d, Idle, {}) /\ PoolOK(s) /\ FileOK(s, d)
      /\ j \in Jobs /\ j.op = "new" /\ p \in Pages /\ p = d.numPages
  BY Untouched DEF Good, CallOK, AllocateOK
<1>2. /\ d2 \in FileType /\ d2.numPages = p + 1 /\ d2.disk[p] = Zeros
      /\ \A q \in Pages : q # p => d2.disk[q] = d.disk[q]
  BY DEF Extended
<1>3. p \in Nat
  BY <1>1, Numbers
<1>4. \A q \in Pages : q \in Nat /\ (q < d2.numPages <=> q < d.numPages \/ q = p)
  BY <1>1, <1>2, <1>3, Numbers
<1>5. p < d2.numPages /\ ~(p < d.numPages)
  BY <1>1, <1>2, <1>3
<1>6. \A q \in Pages : InTable(s, q) => q # p /\ d2.disk[q] = d.disk[q] /\ q < d2.numPages
  BY <1>1, <1>2, <1>4, <1>5 DEF FileOK
<1>7. FileOK(s, d2)
  BY <1>1, <1>2, <1>4, <1>6, FirstValues DEF FileOK
<1>8. Good(s, d2, Idle, {})
  BY <1>1, <1>6, <1>7, AtRest, Rests
<1>9. ~InTable(s, p)
  BY <1>1, <1>6
<1>10. Wants(s, d2, j, {})
  BY <1>1, <1>2, <1>5, <1>9 DEF Wants
<1>11. SameLatest(s, d, s, d2)
  <2>1. Latest(s, d2, p) = Latest(s, d, p)
    BY <1>2, <1>5, <1>9 DEF Latest
  <2>2. \A q \in Pages : q # p => Latest(s, d2, q) = Latest(s, d, q)
    BY <1>2, <1>4 DEF Latest
  <2> QED
    BY <2>1, <2>2 DEF SameLatest
<1> QED
  BY <1>1, <1>8, <1>10, <1>11

-----------------------------------------------------------------------------
\* What the client does with the page it holds.

\* Its handle is the only one.
LEMMA OneHandle ==
    ASSUME NEW s, NEW d, NEW j, NEW hd, Good(s, d, j, hd), NEW h \in hd
    PROVE  /\ hd = {h} /\ h \in Handles /\ h.page \in Pages /\ h.frame \in Frames
           /\ h.wrote \in BOOLEAN /\ s.table[h.page] = h.frame /\ InTable(s, h.page)
           /\ Ready(s, h.frame) /\ s.frames[h.frame].page = h.page
           /\ s.frames[h.frame].pin = 1 + (IF Latches(j, h.frame) THEN 1 ELSE 0)
           /\ \A g \in Frames : Holds(hd, g) <=> g = h.frame
<1>1. hd = {h} /\ h \in Handles /\ s.table[h.page] = h.frame
  BY DEF Good, HeldOK
<1>2. h.page \in Pages /\ h.frame \in Frames /\ h.wrote \in BOOLEAN
  BY <1>1 DEF Handles
<1>3. InTable(s, h.page)
  BY <1>1, <1>2, Numbers DEF InTable
<1>4. Ready(s, h.frame) /\ s.frames[h.frame].page = h.page
  BY <1>1, <1>2, <1>3 DEF Good, PoolOK, FrameOf, Ready
<1>5. \A g \in Frames : Holds(hd, g) <=> g = h.frame
  BY <1>1 DEF Holds
<1>6. s.frames[h.frame].pin = 1 + (IF Latches(j, h.frame) THEN 1 ELSE 0)
  <2>1. PinsOK(s, j, hd) /\ h.frame \in Frames
    BY <1>2 DEF Good
  <2>2. Holds(hd, h.frame)
    BY <1>2, <1>5
  <2> QED
    BY <1>4, <2>1, <2>2 DEF PinsOK
<1> QED
  BY <1>1, <1>2, <1>3, <1>4, <1>5, <1>6

\* The client fetches a page that is cached.
LEMMA HitOK ==
    ASSUME NEW s, NEW d, Good(s, d, Idle, {}), NEW p \in Pages, InTable(s, p),
           NEW f, f = s.table[p], NEW s2,
           ChangedTo(s, s2, f, s.frames[f].content, s.frames[f].pin + 1, s.frames[f].dirty),
           Linked(s2.lru) = Linked(s.lru)
    PROVE  /\ Good(s2, d, Idle, {Handle(p, f)}) /\ Handle(p, f) \in Handles
           /\ SameLatest(s, d, s2, d) /\ s2.frames[f].content = Latest(s, d, p)
           /\ Latest(s, d, p) \in Contents
<1> DEFINE h == Handle(p, f)
<1>1. PoolOK(s) /\ FileOK(s, d) /\ f \in Frames /\ Ready(s, f)
  BY DEF Good, PoolOK, PoolType, InTable, FrameOf, Ready
<1>2. /\ PoolOK(s2) /\ FileOK(s2, d)
      /\ \A g \in Frames : Ready(s2, g) <=> Ready(s, g)
      /\ \A q \in Pages : (InTable(s2, q) <=> InTable(s, q)) /\ s2.table[q] = s.table[q]
      /\ \A q \in Pages : InTable(s, q) => s.table[q] \in Frames
      /\ s2.frames[f].content = s.frames[f].content /\ s2.frames[f].pin = s.frames[f].pin + 1
      /\ s2.frames[f].dirty = s.frames[f].dirty
      /\ \A g \in Frames : g # f => s2.frames[g] = s.frames[g]
  BY <1>1, ChangedKeeps, LinkedReady
<1>3. h \in Handles /\ h.page = p /\ h.frame = f
  BY <1>1 DEF Handle, Handles
<1> HIDE DEF h
<1>4. HeldOK(s2, {h})
  BY <1>2, <1>3 DEF HeldOK
<1>5. PinsOK(s2, Idle, {h})
  <2>1. \A g \in Frames : ~Latches(Idle, g) /\ (Holds({h}, g) <=> g = f)
    BY <1>3, FirstValues DEF Holds, Latches, Latched
  <2>2. ASSUME NEW g \in Frames, Ready(s2, g)
        PROVE  s2.frames[g].pin = (IF Holds({h}, g) THEN 1 ELSE 0) + (IF Latches(Idle, g) THEN 1 ELSE 0)
    <3>1. Ready(s, g) /\ s.frames[g].pin = 0
      BY <1>2, <2>2, AtRest
    <3>2. s2.frames[g].pin = IF g = f THEN 1 ELSE 0
      BY <1>2, <3>1
    <3> QED
      BY <2>1, <3>2
  <2> QED
    BY <2>2 DEF PinsOK
<1>6. KeptOK(s2, Idle)
  BY <1>2, AtRest DEF KeptOK
<1>7. CleanOK(s2, d, Idle, {h})
  BY <1>2, AtRest DEF CleanOK, FrameOf
<1>8. CallOK(s2, d, Idle, {h})
  BY FirstValues DEF CallOK, AllocateOK, LoadOK, FlushOK, LatchOK, Loads, Flushes, Latched
<1>9. SameLatest(s, d, s2, d)
  BY <1>2 DEF SameLatest, Latest, FrameOf
<1>10. Latest(s, d, p) = s.frames[f].content /\ s.frames[f].content \in Contents
  BY <1>1 DEF Latest, FrameOf, PoolOK, PoolType, FrameType
<1> QED
  BY <1>2, <1>3, <1>4, <1>5, <1>6, <1>7, <1>8, <1>9, <1>10 DEF Good, h

\* The client unpins its page, perhaps before it gives back its latch.
LEMMA UnpinPageOK ==
    ASSUME NEW s, NEW d, NEW j, NEW hd, Good(s, d, j, hd), j.pc \in {"idle", "unlatch"},
           NEW h \in hd, NEW f, f = h.frame, NEW s2, NEW w \in BOOLEAN,
           ChangedTo(s, s2, f, s.frames[f].content, s.frames[f].pin - 1, w),
           s.frames[f].dirty \/ h.wrote => w,
           Linked(s2.lru) = IF s.frames[f].pin = 1 THEN Linked(s.lru) \cup {f} ELSE Linked(s.lru)
    PROVE  Good(s2, d, j, {}) /\ SameLatest(s, d, s2, d)
<1>1. /\ PoolOK(s) /\ FileOK(s, d) /\ hd = {h} /\ f \in Frames /\ Ready(s, f)
      /\ s.table[h.page] = f /\ h.page \in Pages /\ s.frames[f].page = h.page
      /\ s.frames[f].pin = 1 + (IF Latches(j, f) THEN 1 ELSE 0)
      /\ \A g \in Frames : Holds(hd, g) <=> g = f
  BY OneHandle DEF Good
<1>4. /\ PoolOK(s2) /\ FileOK(s2, d)
      /\ \A g \in Frames : Ready(s2, g) <=> Ready(s, g)
      /\ \A q \in Pages : (InTable(s2, q) <=> InTable(s, q)) /\ s2.table[q] = s.table[q]
      /\ \A q \in Pages : InTable(s, q) => s.table[q] \in Frames
      /\ s2.frames[f].content = s.frames[f].content /\ s2.frames[f].pin = s.frames[f].pin - 1
      /\ \A g \in Frames : g # f => s2.frames[g] = s.frames[g]
  BY <1>1, ChangedKeeps, LinkedReady
<1>5. w => s2.frames[f].dirty
  BY DEF ChangedTo, IsFrame
<1>6. HeldOK(s2, {})
  BY DEF HeldOK
<1>7. \A g \in Frames : ~Holds({}, g)
  BY DEF Holds
<1>8. PinsOK(s2, j, {})
  <2>1. ASSUME NEW g \in Frames, Ready(s2, g)
        PROVE  s2.frames[g].pin = IF Latches(j, g) THEN 1 ELSE 0
    <3>1. CASE g = f
      BY <3>1, <1>1, <1>4
    <3>2. CASE g # f
      <4>1. Ready(s, g) /\ ~Holds(hd, g) /\ s2.frames[g] = s.frames[g]
        BY <2>1, <3>2, <1>1, <1>4
      <4>2. s.frames[g].pin = 0 + (IF Latches(j, g) THEN 1 ELSE 0)
        BY <4>1 DEF Good, PinsOK
      <4> QED
        BY <4>1, <4>2
    <3> QED
      BY <3>1, <3>2
  <2> QED
    BY <2>1, <1>7 DEF PinsOK
<1>9. KeptOK(s2, j)
  <2>1. ASSUME NEW g \in Frames, Ready(s2, g), s2.frames[g].pin = 0
        PROVE  g \in Linked(s2.lru)
    <3>1. CASE g = f
      BY <2>1, <3>1, <1>1, <1>4
    <3>2. CASE g # f
      BY <2>1, <3>2, <1>4 DEF Good, KeptOK, Flushes
    <3> QED
      BY <3>1, <3>2
  <2> QED
    BY <2>1 DEF KeptOK
<1>10. CleanOK(s2, d, j, {})
  <2>1. ASSUME NEW q \in Pages, InTable(s2, q)
        PROVE  FrameOf(s2, q).dirty \/ d.disk[q] = FrameOf(s2, q).content
    <3>1. \/ FrameOf(s, q).dirty \/ d.disk[q] = FrameOf(s, q).content
          \/ h.page = q /\ h.wrote
      BY <2>1, <1>1, <1>4 DEF Good, CleanOK, Unwritten
    <3>2. CASE s.table[q] = f
      <4>1. h.page = q
        BY <2>1, <3>2, <1>1, <1>4 DEF PoolOK, FrameOf
      <4> QED
        BY <3>1, <3>2, <4>1, <1>4, <1>5, <2>1 DEF FrameOf
    <3>3. CASE s.table[q] # f
      BY <2>1, <3>1, <3>3, <1>1, <1>4 DEF FrameOf
    <3> QED
      BY <3>2, <3>3
  <2> QED
    BY <2>1 DEF CleanOK
<1>11. CallOK(s2, d, j, {})
  BY <1>4 DEF Good, CallOK, AllocateOK, LoadOK, FlushOK, LatchOK, Loads, Flushes, Latched
<1>12. SameLatest(s, d, s2, d)
  BY <1>4 DEF SameLatest, Latest, FrameOf
<1> QED
  BY <1>4, <1>6, <1>8, <1>9, <1>10, <1>11, <1>12 DEF Good

\* The client changes its page, with or without a latch.
LEMMA ModifyOK ==
    ASSUME NEW s, NEW d, NEW j, NEW hd, Good(s, d, j, hd), NEW h \in hd, NEW f, f = h.frame,
           NEW s2, NEW c, ChangedTo(s, s2, f, c, s.frames[f].pin, s.frames[f].dirty), s2.lru = s.lru,
           NEW j2, \/ j.pc = "idle" /\ j2 = j
                   \/ j.pc = "use" /\ j2.pc = "unlatch" /\ Further(j, j2),
           NEW h2 \in Handles, h2.page = h.page, h2.frame = h.frame, h2.wrote
    PROVE  Good(s2, d, j2, {h2}) /\ Creates(s, d, s2, h.page, c)
<1>1. /\ PoolOK(s) /\ FileOK(s, d) /\ f \in Frames /\ Ready(s, f) /\ h.page \in Pages
      /\ s.table[h.page] = f /\ InTable(s, h.page)
      /\ \A g \in Frames : Holds(hd, g) <=> g = f
  BY OneHandle DEF Good
<1>2. /\ PoolOK(s2) /\ FileOK(s2, d)
      /\ \A g \in Frames : Ready(s2, g) <=> Ready(s, g)
      /\ \A p \in Pages : (InTable(s2, p) <=> InTable(s, p)) /\ s2.table[p] = s.table[p]
      /\ \A p \in Pages : InTable(s, p) => s.table[p] \in Frames
      /\ s2.frames[f].content = c /\ s2.frames[f].pin = s.frames[f].pin
      /\ \A g \in Frames : g # f => s2.frames[g] = s.frames[g]
  BY <1>1, ChangedKeeps, LinkedReady
<1>3. \A g \in Frames : s2.frames[g].pin = s.frames[g].pin
  BY <1>2
<1>4. \A p \in Pages : InTable(s, p) /\ p # h.page => s.table[p] # f
  BY <1>1 DEF PoolOK, FrameOf
<1>5. \A g \in Frames : /\ Holds({h2}, g) <=> Holds(hd, g)
                        /\ Latches(j2, g) <=> Latches(j, g)
  <2>1. \A g \in Frames : Holds({h2}, g) <=> Holds(hd, g)
    BY <1>1 DEF Holds
  <2>2. \A g \in Frames : Latches(j2, g) <=> Latches(j, g)
    BY DEF Latches, Latched, Further
  <2> QED
    BY <2>1, <2>2
<1>6. PinsOK(s2, j2, {h2})
  BY <1>2, <1>3, <1>5 DEF PinsOK, Good
<1>7. KeptOK(s2, j2)
  BY <1>2, <1>3 DEF KeptOK, Good, Flushes
<1>8. HeldOK(s2, {h2})
  BY <1>1, <1>2 DEF HeldOK
<1>9. CleanOK(s2, d, j2, {h2})
  <2>1. ASSUME NEW p \in Pages, InTable(s2, p), p # h.page
        PROVE  FrameOf(s2, p).dirty \/ d.disk[p] = FrameOf(s2, p).content
    <3>1. hd = {h}
      BY OneHandle
    <3>2. FrameOf(s, p).dirty \/ d.disk[p] = FrameOf(s, p).content
      BY <2>1, <3>1, <1>2 DEF Good, CleanOK, Unwritten
    <3> QED
      BY <2>1, <3>2, <1>2, <1>4 DEF FrameOf
  <2> QED
    BY <2>1 DEF CleanOK
<1>10. CallOK(s2, d, j2, {h2})
  BY <1>2, <1>3 DEF Good, CallOK, AllocateOK, LoadOK, FlushOK, LatchOK, Loads, Flushes, Latched, Further
<1>11. Creates(s, d, s2, h.page, c)
  BY <1>1, <1>2, <1>4 DEF Creates, Latest, FrameOf
<1> QED
  BY <1>2, <1>6, <1>7, <1>8, <1>9, <1>10, <1>11 DEF Good

\* CleanOK when no flush is in progress.
Settled(s, d, hd) ==
    \A p \in Pages : InTable(s, p) =>
        \/ FrameOf(s, p).dirty
        \/ d.disk[p] = FrameOf(s, p).content
        \/ \E h \in hd : h.page = p /\ h.wrote

\* The pools differ in the pins of frame f.
Repinned(s, s2, f, n) ==
    /\ \A g \in Frames : Ready(s2, g) <=> Ready(s, g)
    /\ \A p \in Pages : (InTable(s2, p) <=> InTable(s, p)) /\ s2.table[p] = s.table[p]
    /\ s2.frames[f].pin = n
    /\ \A g \in Frames : g # f => s2.frames[g].pin = s.frames[g].pin

\* A change to frame f that does not show but in its count of pins.
LEMMA PinsOnly ==
    ASSUME NEW s, NEW d, NEW j, NEW hd, Good(s, d, j, hd), ~Unwritten(j),
           NEW f \in Frames, NEW s2, NEW n, NEW w,
           ChangedTo(s, s2, f, s.frames[f].content, n, w), s2.lru = s.lru, s.frames[f].dirty <=> w
    PROVE  /\ PoolOK(s2) /\ FileOK(s2, d) /\ HeldOK(s2, hd) /\ SameLatest(s, d, s2, d)
           /\ Repinned(s, s2, f, n)
           /\ Settled(s2, d, hd)
<1>1. PoolOK(s) /\ FileOK(s, d)
  BY DEF Good
<1>2. /\ PoolOK(s2) /\ FileOK(s2, d)
      /\ \A g \in Frames : Ready(s2, g) <=> Ready(s, g)
      /\ \A p \in Pages : (InTable(s2, p) <=> InTable(s, p)) /\ s2.table[p] = s.table[p]
      /\ \A p \in Pages : InTable(s, p) => s.table[p] \in Frames
      /\ s2.frames[f].content = s.frames[f].content /\ s2.frames[f].pin = n
      /\ s2.frames[f].dirty = w
      /\ \A g \in Frames : g # f => s2.frames[g] = s.frames[g]
  BY <1>1, ChangedKeeps, LinkedReady
<1>3. HeldOK(s2, hd)
  BY <1>2 DEF HeldOK, Good, Handles
<1>4. SameLatest(s, d, s2, d)
  BY <1>1, ChangedLatest
<1>5. Settled(s2, d, hd)
  <2>1. \A g \in Frames : s2.frames[g].content = s.frames[g].content /\ (s2.frames[g].dirty <=> s.frames[g].dirty)
    BY <1>2
  <2> QED
    BY <1>2, <2>1 DEF CleanOK, Settled, Good, FrameOf
<1> QED
  BY <1>2, <1>3, <1>4, <1>5 DEF Repinned

\* A page the client holds is pinned to be latched.
LEMMA LatchPageOK ==
    ASSUME NEW s, NEW d, NEW hd, Good(s, d, Idle, hd), NEW h \in hd, NEW f, f = h.frame, NEW s2,
           ChangedTo(s, s2, f, s.frames[f].content, s.frames[f].pin + 1, s.frames[f].dirty),
           s2.lru = s.lru, NEW j \in Jobs, j.op \in {"edit", "look"}, j.pc = "acquire",
           j.page = h.page, j.frame = f
    PROVE  Good(s2, d, j, hd) /\ SameLatest(s, d, s2, d)
<1>1. /\ f \in Frames /\ Ready(s, f) /\ h.page \in Pages /\ s.table[h.page] = f
      /\ \A g \in Frames : Holds(hd, g) <=> g = f
  BY OneHandle
<1>2. ~Unwritten(Idle) /\ \A g \in Frames : ~Latches(Idle, g) /\ (Latches(j, g) <=> g = f)
  BY FirstValues DEF Unwritten, Latches, Latched
<1>3. /\ PoolOK(s2) /\ FileOK(s2, d) /\ HeldOK(s2, hd) /\ SameLatest(s, d, s2, d)
      /\ \A g \in Frames : Ready(s2, g) <=> Ready(s, g)
      /\ \A p \in Pages : (InTable(s2, p) <=> InTable(s, p)) /\ s2.table[p] = s.table[p]
      /\ s2.frames[f].pin = s.frames[f].pin + 1
      /\ \A g \in Frames : g # f => s2.frames[g].pin = s.frames[g].pin
      /\ Settled(s2, d, hd)
  <2>1. /\ PoolOK(s2) /\ FileOK(s2, d) /\ HeldOK(s2, hd) /\ SameLatest(s, d, s2, d)
        /\ Repinned(s, s2, f, s.frames[f].pin + 1) /\ Settled(s2, d, hd)
    BY <1>1, <1>2, PinsOnly
  <2> QED
    BY <2>1 DEF Repinned
<1>4. \A g \in Frames : Ready(s, g) => s.frames[g].pin = IF g = f THEN 1 ELSE 0
  BY <1>1, <1>2 DEF Good, PinsOK
<1>5. PinsOK(s2, j, hd)
  BY <1>1, <1>2, <1>3, <1>4 DEF PinsOK
<1>6. KeptOK(s2, j)
  BY <1>1, <1>3, <1>4, FirstValues DEF KeptOK, Good, Flushes
<1>7. CallOK(s2, d, j, hd)
  BY <1>1, <1>3 DEF CallOK, AllocateOK, LoadOK, FlushOK, LatchOK, Loads, Flushes, Latched
<1> QED
  BY <1>3, <1>5, <1>6, <1>7 DEF Good, CleanOK, Settled

\* A latch is taken, used, and looked up again to be given back.
LEMMA LatchMoves ==
    ASSUME NEW s, NEW d, NEW j, NEW hd, Good(s, d, j, hd), j.pc \in Latched, NEW s2,
           ChangedTo(s, s2, j.frame, s.frames[j.frame].content, s.frames[j.frame].pin,
                     s.frames[j.frame].dirty),
           s2.lru = s.lru, NEW j2, Further(j, j2), j2.pc \in Latched
    PROVE  Good(s2, d, j2, hd) /\ SameLatest(s, d, s2, d)
<1> DEFINE f == j.frame
<1>1. f \in Frames /\ ~Unwritten(j) /\ \A g \in Frames : Latches(j, g) <=> Latches(j2, g)
  BY DEF Good, CallOK, LatchOK, Unwritten, Latches, Latched, Further
<1>2. /\ PoolOK(s2) /\ FileOK(s2, d) /\ HeldOK(s2, hd) /\ SameLatest(s, d, s2, d)
      /\ \A g \in Frames : Ready(s2, g) <=> Ready(s, g)
      /\ \A p \in Pages : (InTable(s2, p) <=> InTable(s, p)) /\ s2.table[p] = s.table[p]
      /\ s2.frames[f].pin = s.frames[f].pin
      /\ \A g \in Frames : g # f => s2.frames[g].pin = s.frames[g].pin
      /\ Settled(s2, d, hd)
  <2>1. /\ PoolOK(s2) /\ FileOK(s2, d) /\ HeldOK(s2, hd) /\ SameLatest(s, d, s2, d)
        /\ Repinned(s, s2, f, s.frames[f].pin) /\ Settled(s2, d, hd)
    BY <1>1, PinsOnly
  <2> QED
    BY <2>1 DEF Repinned
<1>3. \A g \in Frames : s2.frames[g].pin = s.frames[g].pin
  BY <1>2
<1>4. PinsOK(s2, j2, hd)
  BY <1>1, <1>2, <1>3 DEF PinsOK, Good
<1>5. KeptOK(s2, j2)
  BY <1>2, <1>3 DEF KeptOK, Good, Flushes, Latched
<1>6. CallOK(s2, d, j2, hd)
  BY <1>2, <1>3
     DEF Good, CallOK, AllocateOK, LoadOK, FlushOK, LatchOK, Loads, Flushes, Latched, Further
<1> QED
  BY <1>2, <1>4, <1>5, <1>6 DEF Good, CleanOK, Settled

\* A latch is given back: whoever takes the count to zero tells the replacer.
LEMMA ReleaseOK ==
    ASSUME NEW s, NEW d, NEW j, NEW hd, Good(s, d, j, hd), j.pc = "release", NEW f, f = j.frame,
           NEW s2, ChangedTo(s, s2, f, s.frames[f].content, s.frames[f].pin - 1, s.frames[f].dirty),
           s2.lru = s.lru, NEW j2,
           \/ s.frames[f].pin = 1 /\ Further(j, j2) /\ j2.pc = "rejoin"
           \/ s.frames[f].pin # 1 /\ j2 = Idle
    PROVE  Good(s2, d, j2, hd) /\ SameLatest(s, d, s2, d)
<1>1. /\ f \in Frames /\ Ready(s, f) /\ ~Unwritten(j) /\ j.page \in Pages /\ s.table[j.page] = f
      /\ j.op \in {"edit", "look"}
  <2>1. f \in Frames /\ j.page \in Pages /\ s.table[j.page] = f /\ j.op \in {"edit", "look"}
    BY DEF Good, CallOK, LatchOK, Latched
  <2>2. InTable(s, j.page)
    BY <2>1, Numbers DEF InTable
  <2> QED
    BY <2>1, <2>2 DEF Good, PoolOK, FrameOf, Ready, Unwritten
<1>2. /\ PoolOK(s2) /\ FileOK(s2, d) /\ HeldOK(s2, hd) /\ SameLatest(s, d, s2, d)
      /\ \A g \in Frames : Ready(s2, g) <=> Ready(s, g)
      /\ \A p \in Pages : (InTable(s2, p) <=> InTable(s, p)) /\ s2.table[p] = s.table[p]
      /\ s2.frames[f].pin = s.frames[f].pin - 1
      /\ \A g \in Frames : g # f => s2.frames[g].pin = s.frames[g].pin
      /\ Settled(s2, d, hd)
  <2>1. /\ PoolOK(s2) /\ FileOK(s2, d) /\ HeldOK(s2, hd) /\ SameLatest(s, d, s2, d)
        /\ Repinned(s, s2, f, s.frames[f].pin - 1) /\ Settled(s2, d, hd)
    BY <1>1, PinsOnly
  <2> QED
    BY <2>1 DEF Repinned
<1>3. \A g \in Frames : ~Latches(j2, g) /\ (Latches(j, g) <=> g = f)
  BY FirstValues DEF Latches, Latched
<1>4. s.frames[f].pin = (IF Holds(hd, f) THEN 1 ELSE 0) + 1
  BY <1>1, <1>3 DEF Good, PinsOK
<1>5. \A g \in Frames : Ready(s, g) /\ g # f => s.frames[g].pin = IF Holds(hd, g) THEN 1 ELSE 0
  BY <1>3 DEF Good, PinsOK
<1>6. s2.frames[f].pin = IF Holds(hd, f) THEN 1 ELSE 0
  BY <1>2, <1>4
<1>7. PinsOK(s2, j2, hd)
  BY <1>2, <1>3, <1>5, <1>6 DEF PinsOK
<1>8. KeptOK(s2, j2)
  <2>1. ASSUME NEW g \in Frames, Ready(s2, g), s2.frames[g].pin = 0
        PROVE  g \in Linked(s2.lru) \/ (j2.frame = g /\ j2.pc = "rejoin")
    <3>1. CASE g = f
      BY <2>1, <3>1, <1>4, <1>6 DEF Further
    <3>2. CASE g # f
      BY <2>1, <3>2, <1>2 DEF Good, KeptOK, Flushes
    <3> QED
      BY <3>1, <3>2
  <2> QED
    BY <2>1 DEF KeptOK
<1>9. CallOK(s2, d, j2, hd)
  <2>1. CASE j2 = Idle
    BY <2>1, FirstValues DEF CallOK, AllocateOK, LoadOK, FlushOK, LatchOK, Loads, Flushes, Latched
  <2>2. CASE s.frames[f].pin = 1 /\ Further(j, j2) /\ j2.pc = "rejoin"
    BY <2>2, <1>1, <1>2
       DEF CallOK, AllocateOK, LoadOK, FlushOK, LatchOK, Loads, Flushes, Latched, Further
  <2> QED
    BY <2>1, <2>2
<1> QED
  BY <1>2, <1>7, <1>8, <1>9 DEF Good, CleanOK, Settled

\* The frame can be evicted again.
LEMMA RejoinOK ==
    ASSUME NEW s, NEW d, NEW j, NEW hd, Good(s, d, j, hd), j.pc = "rejoin", NEW s2,
           PoolType(s2), s2.table = s.table, s2.frames = s.frames,
           Linked(s2.lru) = Linked(s.lru) \cup {j.frame}
    PROVE  Good(s2, d, Idle, hd) /\ SameLatest(s, d, s2, d)
<1> DEFINE f == j.frame
<1>1. PoolOK(s) /\ FileOK(s, d) /\ f \in Frames /\ Ready(s, f)
  <2>1. f \in Frames /\ j.page \in Pages /\ s.table[j.page] = f
    BY DEF Good, CallOK, LatchOK, Latched
  <2>2. InTable(s, j.page)
    BY <2>1, Numbers DEF InTable
  <2> QED
    BY <2>1, <2>2 DEF Good, PoolOK, FrameOf, Ready
<1>2. \A g \in Frames : Ready(s2, g) <=> Ready(s, g)
  BY DEF Ready
<1>3. \A p \in Pages : (InTable(s2, p) <=> InTable(s, p)) /\ FrameOf(s2, p) = FrameOf(s, p)
  BY DEF InTable, FrameOf
<1>4. PoolOK(s2)
  <2>1. \A g \in Linked(s2.lru) : Ready(s2, g)
    BY <1>1, <1>2, LinkedReady
  <2> QED
    BY <2>1, <1>1, <1>2, <1>3 DEF PoolOK
<1>5. FileOK(s2, d) /\ HeldOK(s2, hd)
  BY <1>1, <1>3 DEF FileOK, HeldOK, Good
<1>6. \A g \in Frames : ~Latches(j, g) /\ ~Latches(Idle, g)
  BY FirstValues DEF Latches, Latched
<1>7. PinsOK(s2, Idle, hd)
  BY <1>2, <1>6 DEF PinsOK, Good
<1>8. KeptOK(s2, Idle)
  BY <1>2 DEF KeptOK, Good, Flushes
<1>9. CleanOK(s2, d, Idle, hd)
  BY <1>3 DEF CleanOK, Good, Unwritten
<1>10. CallOK(s2, d, Idle, hd)
  BY FirstValues DEF CallOK, AllocateOK, LoadOK, FlushOK, LatchOK, Loads, Flushes, Latched
<1>11. SameLatest(s, d, s2, d)
  BY <1>3 DEF SameLatest, Latest
<1> QED
  BY <1>4, <1>5, <1>7, <1>8, <1>9, <1>10, <1>11 DEF Good
=============================================================================
