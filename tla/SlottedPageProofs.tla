------------------------- MODULE SlottedPageProofs -------------------------
(***************************************************************************)
(* Proofs about SlottedPage, for every page size, header and slot size:    *)
(* the layout is sound, compaction leaves no hole, and rows read back as   *)
(* they were written.                                                      *)
(*                                                                         *)
(* All of it is for rows whose size with a slot entry does not wrap in a   *)
(* uint16_t (NoneWraps); a larger one breaks the layout.  The work is in   *)
(* compact(): where a record goes is the number of bytes of the live       *)
(* records before it, so that the lemmas count sets of bytes.              *)
(***************************************************************************)
EXTENDS SlottedPage, FiniteSetTheorems, SequenceTheorems, TLAPS

NoneWraps == \A r \in Records : Len(r) + SlotSize < Word

Shape == [slots : Seq(Slots), lower : 0 .. PageSize, upper : 0 .. PageSize, body : [Offsets -> Bytes]]

\* The cursors: the directory ends where its slots do, and a page that was never
\* formatted has no room.
CursorsOf(p) ==
    /\ p.lower <= p.upper
    /\ \/ p.lower = HeaderSize + SlotSize * Len(p.slots)
       \/ p.slots = <<>> /\ p.lower = 0 /\ p.upper = 0

Within(p) == \A i \in SlotIds(p) : Extent(p, i) \subseteq p.upper .. PageSize - 1
Apart(p) == \A i, j \in SlotIds(p) : i # j => Extent(p, i) \cap Extent(p, j) = {}

\* What every operation relies on and leaves behind.
Sound(p) == p \in Shape /\ CursorsOf(p) /\ Within(p) /\ Apart(p)

-----------------------------------------------------------------------------
\* The bytes of the live records.

\* The fields of a sound page.
LEMMA Fields ==
    ASSUME NEW p \in Shape
    PROVE  /\ Len(p.slots) \in Nat /\ SlotIds(p) = 1 .. Len(p.slots)
           /\ p.lower \in 0 .. PageSize /\ p.upper \in 0 .. PageSize
           /\ \A i \in SlotIds(p) : /\ p.slots[i] \in Slots
                                    /\ p.slots[i].at \in Int
                                    /\ p.slots[i].size \in 0 .. Word - 1
<1>1. p.slots \in Seq(Slots) /\ p.lower \in 0 .. PageSize /\ p.upper \in 0 .. PageSize
  BY DEF Shape
<1>2. \A i \in SlotIds(p) : p.slots[i] \in Slots
  BY <1>1 DEF SlotIds
<1>3. \A x \in Slots : x.at \in Int /\ x.size \in 0 .. Word - 1
  BY SizeAssumption DEF Slots, Offsets
<1> QED
  BY <1>1, <1>2, <1>3 DEF SlotIds

\* A record lies where its slot says, byte by byte, from upper on.
LEMMA InPlace ==
    ASSUME NEW p, Sound(p), NEW i \in SlotIds(p), NEW k \in 1 .. p.slots[i].size
    PROVE  /\ p.slots[i].at + k - 1 \in Extent(p, i)
           /\ p.slots[i].at + k - 1 \in p.upper .. PageSize - 1
           /\ p.slots[i].at + k - 1 \in Offsets
<1>1. Len(p.slots) \in Nat /\ p.upper \in Nat /\ p.lower \in Nat /\ p.slots # <<>>
  BY Fields, SizeAssumption DEF Sound
<1>2. p.slots[i].at \in Int /\ p.slots[i].size \in Nat
  BY Fields, SizeAssumption DEF Sound
<1>3. p.slots[i].at + k - 1 \in Extent(p, i)
  BY <1>2 DEF Extent
<1>4. p.slots[i].at + k - 1 \in p.upper .. PageSize - 1
  BY <1>3 DEF Sound, Within
<1>5. SlotSize * Len(p.slots) >= 0
  BY <1>1, SizeAssumption
<1>6. HeaderSize <= p.upper
  BY <1>1, <1>5, SizeAssumption DEF Sound, CursorsOf
<1> QED
  BY <1>1, <1>3, <1>4, <1>6, SizeAssumption DEF Offsets

\* The bytes of the records of a sound page fit behind upper, one each; when they
\* are as many as the bytes behind upper, no byte there is left over.
LEMMA BytesFit ==
    ASSUME NEW p, Sound(p), NEW n \in 0 .. Len(p.slots)
    PROVE  /\ IsFiniteSet(LiveBytes(p, n))
           /\ Cardinality(LiveBytes(p, n)) \in Nat
           /\ Cardinality(LiveBytes(p, n)) <= PageSize - p.upper
           /\ Cardinality(LiveBytes(p, n)) = PageSize - p.upper
                 => \A a \in p.upper .. PageSize - 1 : \E i \in SlotIds(p) : a \in Extent(p, i)
<1> DEFINE place == [b \in LiveBytes(p, n) |-> p.slots[b[1]].at + b[2] - 1]
<1>0. p.slots \in Seq(Slots) /\ p.upper \in 0 .. PageSize /\ PageSize \in Nat
  BY SizeAssumption DEF Sound, Shape
<1>1. ASSUME NEW b \in LiveBytes(p, n)
      PROVE  b[1] \in SlotIds(p) /\ b[2] \in 1 .. p.slots[b[1]].size /\ b = <<b[1], b[2]>>
  BY <1>0, <1>1 DEF LiveBytes, SlotIds
<1>2. place \in [LiveBytes(p, n) -> p.upper .. PageSize - 1]
  BY <1>1, InPlace
<1>3. ASSUME NEW b \in LiveBytes(p, n), NEW c \in LiveBytes(p, n), place[b] = place[c]
      PROVE  b = c
  <2>1. /\ place[b] \in Extent(p, b[1])
        /\ place[c] \in Extent(p, c[1])
    BY <1>1, InPlace
  <2>2. b[1] = c[1]
    BY <1>1, <1>3, <2>1 DEF Sound, Apart
  <2>3. p.slots[b[1]].at \in Int /\ b[2] \in Int /\ c[2] \in Int
    BY <1>1, Fields DEF Sound
  <2>4. p.slots[b[1]].at + b[2] - 1 = p.slots[b[1]].at + c[2] - 1
    BY <1>3, <2>2
  <2>5. b[2] = c[2]
    BY <2>3, <2>4
  <2> QED
    BY <1>1, <2>2, <2>5
<1>4. place \in Injection(LiveBytes(p, n), p.upper .. PageSize - 1)
  BY <1>2, <1>3 DEF Injection, IsInjective
<1>5. IsFiniteSet(p.upper .. PageSize - 1) /\ Cardinality(p.upper .. PageSize - 1) = PageSize - p.upper
  <2>1. /\ IsFiniteSet(p.upper .. PageSize - 1)
        /\ Cardinality(p.upper .. PageSize - 1)
              = IF p.upper > PageSize - 1 THEN 0 ELSE PageSize - 1 - p.upper + 1
    <3>1. p.upper \in Int /\ PageSize - 1 \in Int
      BY <1>0
    <3> QED
      BY <3>1, FS_Interval
  <2> QED
    BY <1>0, <2>1
<1>6. ASSUME place \in Surjection(LiveBytes(p, n), p.upper .. PageSize - 1),
             NEW a \in p.upper .. PageSize - 1
      PROVE  \E i \in SlotIds(p) : a \in Extent(p, i)
  <2>1. PICK b \in LiveBytes(p, n) : place[b] = a
    BY <1>6 DEF Surjection
  <2> QED
    BY <1>1, <2>1, InPlace
<1> HIDE DEF place
<1>7. /\ IsFiniteSet(LiveBytes(p, n))
      /\ Cardinality(LiveBytes(p, n)) <= PageSize - p.upper
      /\ Cardinality(LiveBytes(p, n)) = PageSize - p.upper
            => place \in Surjection(LiveBytes(p, n), p.upper .. PageSize - 1)
  BY <1>4, <1>5, FS_Injection
<1> QED
  BY <1>6, <1>7, FS_CardinalityType

\* A record of n bytes adds n.
LEMMA OwnBytes ==
    ASSUME NEW i, NEW n \in Nat
    PROVE  IsFiniteSet({i} \X (1 .. n)) /\ Cardinality({i} \X (1 .. n)) = n
<1>1. IsFiniteSet({i}) /\ Cardinality({i}) = 1
  BY FS_Singleton
<1>2. IsFiniteSet(1 .. n) /\ Cardinality(1 .. n) = IF 1 > n THEN 0 ELSE n - 1 + 1
  BY FS_Interval
<1>3. Cardinality(1 .. n) = n
  BY <1>2
<1>4. /\ IsFiniteSet({i} \X (1 .. n))
      /\ Cardinality({i} \X (1 .. n)) = Cardinality({i}) * Cardinality(1 .. n)
  BY <1>1, <1>2, FS_Product
<1> QED
  BY <1>1, <1>3, <1>4

\* Where compact() puts the records: each ends where the previous live one
\* begins, and none goes below upper.
LEMMA Tops ==
    ASSUME NEW p, Sound(p)
    PROVE  /\ Top(p, 0) = PageSize
           /\ \A n \in 0 .. Len(p.slots) : Top(p, n) \in p.upper .. PageSize
           /\ \A i \in SlotIds(p) : Top(p, i - 1) = Top(p, i) + p.slots[i].size
           /\ \A m, n \in 0 .. Len(p.slots) : m <= n => Top(p, n) <= Top(p, m)
<1>0. Len(p.slots) \in Nat /\ SlotIds(p) = 1 .. Len(p.slots) /\ p.upper \in 0 .. PageSize /\ PageSize \in Nat
  BY Fields, SizeAssumption DEF Sound
<1>1. Top(p, 0) = PageSize
  <2>1. LiveBytes(p, 0) = {}
    BY DEF LiveBytes
  <2>2. Cardinality(LiveBytes(p, 0)) = 0
    BY <2>1, FS_EmptySet
  <2> QED
    BY <1>0, <2>2 DEF Top
<1>2. ASSUME NEW n \in 0 .. Len(p.slots)
      PROVE  Top(p, n) \in p.upper .. PageSize
  BY <1>0, BytesFit DEF Top
<1>3. ASSUME NEW i \in SlotIds(p)
      PROVE  Top(p, i - 1) = Top(p, i) + p.slots[i].size
  <2> DEFINE own == {i} \X (1 .. p.slots[i].size)
             before == LiveBytes(p, i - 1)
  <2>1. p.slots[i].size \in Nat /\ i \in 0 .. Len(p.slots) /\ i - 1 \in 0 .. Len(p.slots)
    BY <1>0, Fields, SizeAssumption DEF Sound
  <2>2. IsFiniteSet(own) /\ Cardinality(own) = p.slots[i].size
    BY <2>1, OwnBytes
  <2>3. LiveBytes(p, i) = before \cup own
    <3>1. 1 .. i = (1 .. (i - 1)) \cup {i}
      BY <1>0
    <3> QED
      BY <3>1 DEF LiveBytes
  <2>4. before \cap own = {}
    <3>1. i \notin 1 .. (i - 1)
      BY <1>0
    <3> QED
      BY <3>1 DEF LiveBytes
  <2>5. /\ IsFiniteSet(before) /\ Cardinality(before) \in Nat
        /\ Cardinality(LiveBytes(p, i)) \in Nat
    BY <2>1, BytesFit
  <2> HIDE DEF own, before
  <2>6. Cardinality(before \cup own) = Cardinality(before) + Cardinality(own) - Cardinality(before \cap own)
    BY <2>2, <2>5, FS_Union
  <2>7. Cardinality(before \cap own) = 0
    BY <2>4, FS_EmptySet
  <2>8. Cardinality(LiveBytes(p, i)) = Cardinality(before) + p.slots[i].size
    BY <2>1, <2>2, <2>3, <2>5, <2>6, <2>7
  <2> QED
    BY <1>0, <2>1, <2>5, <2>8 DEF Top, before
<1>4. ASSUME NEW m \in 0 .. Len(p.slots), NEW n \in 0 .. Len(p.slots), m <= n
      PROVE  Top(p, n) <= Top(p, m)
  <2>1. LiveBytes(p, m) \subseteq LiveBytes(p, n)
    BY <1>4 DEF LiveBytes
  <2>2. Cardinality(LiveBytes(p, m)) <= Cardinality(LiveBytes(p, n))
    BY <2>1, BytesFit, FS_Subset
  <2> QED
    BY <1>0, <2>2, BytesFit DEF Top
<1> QED
  BY <1>1, <1>2, <1>3, <1>4

-----------------------------------------------------------------------------
\* compact().

\* The directory of a compacted page: the same slots with the same sizes, the
\* live ones where Top puts them.
LEMMA CompactedSlots ==
    ASSUME NEW p, Sound(p), NEW q, q = Compacted(p)
    PROVE  /\ Len(q.slots) = Len(p.slots) /\ SlotIds(q) = SlotIds(p)
           /\ q.slots \in Seq(Slots)
           /\ \A i \in SlotIds(p) : q.slots[i].size = p.slots[i].size
           /\ \A i \in SlotIds(p) : Extent(q, i) = Top(p, i) .. Top(p, i - 1) - 1
<1>0. /\ Len(p.slots) \in Nat /\ SlotIds(p) = 1 .. Len(p.slots) /\ PageSize \in Nat
      /\ p.upper \in Nat /\ p.slots \in Seq(Slots) /\ HeaderSize \in Nat /\ p.lower \in Nat
  BY Fields, SizeAssumption DEF Sound, Shape
<1>1. q.slots = [i \in SlotIds(p) |->
                    IF Live(p, i) THEN [p.slots[i] EXCEPT !.at = Top(p, i)] ELSE p.slots[i]]
  BY DEF Compacted
<1>2. ASSUME NEW i \in SlotIds(p)
      PROVE  /\ q.slots[i] \in Slots
             /\ q.slots[i].size = p.slots[i].size
             /\ Extent(q, i) = Top(p, i) .. Top(p, i - 1) - 1
  <2>1. /\ p.slots[i] \in Slots /\ p.slots[i].size \in Nat /\ p.slots[i].at \in Int
    BY Fields, SizeAssumption DEF Sound
  <2>2. /\ Top(p, i) \in p.upper .. PageSize
        /\ Top(p, i - 1) \in p.upper .. PageSize
        /\ Top(p, i - 1) = Top(p, i) + p.slots[i].size
    BY <1>0, Tops
  <2>3. CASE Live(p, i)
    <3>1. q.slots[i] = [p.slots[i] EXCEPT !.at = Top(p, i)]
      BY <1>1, <2>3
    <3>2. p.slots # <<>> /\ SlotSize * Len(p.slots) \in Nat
      BY <1>0, SizeAssumption
    <3>3. HeaderSize <= p.upper
      BY <1>0, <3>2, SizeAssumption DEF Sound, CursorsOf
    <3>4. Top(p, i) \in Offsets
      <4>1. p.slots[i].size >= 1
        BY <2>1, <2>3 DEF Live
      <4>2. Top(p, i) >= HeaderSize /\ Top(p, i) <= PageSize - 1
        <5>1. /\ Top(p, i) \in Nat /\ Top(p, i - 1) \in Nat
              /\ p.upper <= Top(p, i) /\ Top(p, i - 1) <= PageSize
          BY <1>0, <2>2
        <5>2. HeaderSize <= Top(p, i)
          BY <1>0, <3>3, <5>1
        <5>3. \A t, u, s \in Nat : u = t + s /\ s >= 1 => t <= u - 1
          OBVIOUS
        <5>4. Top(p, i) <= Top(p, i - 1) - 1
          BY <2>1, <2>2, <4>1, <5>1, <5>3
        <5>5. Top(p, i) <= PageSize - 1
          BY <1>0, <5>1, <5>4
        <5> QED
          BY <5>2, <5>5
      <4> QED
        BY <1>0, <2>2, <4>2 DEF Offsets
    <3>5. q.slots[i] = [at |-> Top(p, i), size |-> p.slots[i].size]
      BY <2>1, <3>1 DEF Slots
    <3> QED
      BY <1>0, <2>1, <2>2, <3>4, <3>5 DEF Slots, Extent
  <2>4. CASE ~Live(p, i)
    <3>1. q.slots[i] = p.slots[i]
      BY <1>1, <2>4
    <3>2. p.slots[i].size = 0
      BY <2>1, <2>4 DEF Live
    <3> QED
      BY <1>0, <2>1, <2>2, <3>1, <3>2 DEF Extent
  <2> QED
    BY <2>3, <2>4
<1>3. q.slots \in [1 .. Len(p.slots) -> Slots]
  BY <1>0, <1>1, <1>2
<1>4. q.slots \in Seq(Slots)
  BY <1>0, <1>3, SeqDef
<1>5. Len(q.slots) = Len(p.slots)
  BY <1>0, <1>3, <1>4, LenProperties
<1> QED
  BY <1>0, <1>2, <1>4, <1>5 DEF SlotIds

\* Compaction keeps a page sound, gives back every byte no live record uses, and
\* changes no record.
LEMMA CompactSound ==
    ASSUME NEW p, Sound(p), p.slots # <<>>, NEW q, q = Compacted(p)
    PROVE  /\ Sound(q)
           /\ q.lower = p.lower /\ q.upper = Top(p, Len(p.slots))
           /\ UNION {Extent(q, i) : i \in SlotIds(q)} = q.upper .. PageSize - 1
           /\ \A i \in SlotIds(p) : Record(q, i) = Record(p, i)
<1>0. /\ Len(p.slots) \in Nat /\ SlotIds(p) = 1 .. Len(p.slots) /\ PageSize \in Nat
      /\ p.upper \in Nat /\ p.lower \in Nat /\ p.lower <= PageSize
      /\ p.lower <= p.upper /\ p.body \in [Offsets -> Bytes]
  BY Fields, SizeAssumption DEF Sound, Shape, CursorsOf
<1>1. /\ q.lower = p.lower /\ q.upper = Top(p, Len(p.slots))
      /\ q.body = RelaidBody(p, [i \in SlotIds(p) |-> Top(p, i)])
      /\ DOMAIN q = {"slots", "lower", "upper", "body"}
      /\ q = [slots |-> q.slots, lower |-> q.lower, upper |-> q.upper, body |-> q.body]
  BY DEF Compacted
<1>2. q.upper \in p.upper .. PageSize
  BY <1>0, <1>1, Tops
<1>3. CursorsOf(q)
  <2>1. p.lower = HeaderSize + SlotSize * Len(p.slots)
    BY DEF Sound, CursorsOf
  <2> QED
    BY <1>0, <1>1, <1>2, <2>1, CompactedSlots DEF CursorsOf
<1>4. Within(q)
  <2> SUFFICES ASSUME NEW i \in SlotIds(q)
               PROVE  Extent(q, i) \subseteq q.upper .. PageSize - 1
    BY DEF Within
  <2>1. i \in SlotIds(p) /\ i \in 0 .. Len(p.slots) /\ i - 1 \in 0 .. Len(p.slots)
    BY <1>0, CompactedSlots
  <2>2. Extent(q, i) = Top(p, i) .. Top(p, i - 1) - 1
    BY <2>1, CompactedSlots
  <2>3. q.upper <= Top(p, i) /\ Top(p, i) \in Nat /\ Top(p, i - 1) \in Nat /\ Top(p, i - 1) <= PageSize
    BY <1>0, <1>1, <2>1, Tops
  <2> QED
    BY <1>0, <1>2, <2>2, <2>3
<1>5. Apart(q)
  <2>1. ASSUME NEW i \in SlotIds(p), NEW j \in SlotIds(p), i < j
        PROVE  Extent(q, i) \cap Extent(q, j) = {}
    <3>1. i \in 0 .. Len(p.slots) /\ j - 1 \in 0 .. Len(p.slots) /\ i <= j - 1
          /\ i - 1 \in 0 .. Len(p.slots) /\ j \in 0 .. Len(p.slots)
      BY <1>0, <2>1
    <3>2. /\ Top(p, j - 1) <= Top(p, i) /\ Top(p, i) \in Nat /\ Top(p, j - 1) \in Nat
          /\ Top(p, j) \in Nat /\ Top(p, i - 1) \in Nat
      BY <1>0, <3>1, Tops
    <3>3. /\ Extent(q, i) = Top(p, i) .. Top(p, i - 1) - 1
          /\ Extent(q, j) = Top(p, j) .. Top(p, j - 1) - 1
      BY CompactedSlots
    <3> QED
      BY <3>2, <3>3
  <2>2. SlotIds(q) = SlotIds(p)
    BY CompactedSlots
  <2> SUFFICES ASSUME NEW i \in SlotIds(p), NEW j \in SlotIds(p), i # j
               PROVE  Extent(q, i) \cap Extent(q, j) = {}
    BY <2>2 DEF Apart
  <2>3. i < j \/ j < i
    BY <1>0
  <2> QED
    BY <2>1, <2>3
<1>6. ASSUME NEW i \in SlotIds(p), NEW a \in Offsets
      PROVE  Covers(p, [k \in SlotIds(p) |-> Top(p, k)], i, a) <=> a \in Extent(q, i)
  <2>1. /\ Top(p, i) \in Nat /\ Top(p, i - 1) = Top(p, i) + p.slots[i].size
        /\ p.slots[i].size \in Nat
    BY <1>0, Tops, Fields, SizeAssumption DEF Sound
  <2>2. Extent(q, i) = Top(p, i) .. Top(p, i) + p.slots[i].size - 1
    BY <2>1, CompactedSlots
  <2>3. a \in Int
    BY SizeAssumption DEF Offsets
  <2> QED
    BY <2>1, <2>2, <2>3 DEF Covers, Live
\* What lies where slot i is laid out is what lay where slot i was.
<1>7. ASSUME NEW i \in SlotIds(p), NEW a \in Offsets, a \in Extent(q, i)
      PROVE  q.body[a] = p.body[p.slots[i].at + (a - Top(p, i))]
  <2> DEFINE top == [k \in SlotIds(p) |-> Top(p, k)]
             found == CHOOSE k \in SlotIds(p) : Covers(p, top, k, a)
  <2>1. Covers(p, top, i, a)
    BY <1>6, <1>7
  <2>2. found \in SlotIds(p) /\ Covers(p, top, found, a)
    BY <2>1
  <2>3. a \in Extent(q, found)
    BY <1>6, <2>2
  <2>4. found = i
    BY <1>5, <1>7, <2>2, <2>3, CompactedSlots DEF Apart
  <2>5. q.body[a] = p.body[p.slots[found].at + (a - top[found])]
    BY <1>1, <2>1 DEF RelaidBody
  <2> QED
    BY <2>4, <2>5
<1>8. ASSUME NEW i \in SlotIds(p), NEW a \in Offsets, a \in Extent(q, i)
      PROVE  /\ a - Top(p, i) + 1 \in 1 .. p.slots[i].size
             /\ p.slots[i].at + (a - Top(p, i)) \in Offsets
  <2>1. /\ Top(p, i) \in Nat /\ Top(p, i - 1) = Top(p, i) + p.slots[i].size
        /\ p.slots[i].size \in Nat /\ p.slots[i].at \in Int
    BY <1>0, Tops, Fields, SizeAssumption DEF Sound
  <2>. a \in Int
    BY SizeAssumption DEF Offsets
  <2>2. a \in Top(p, i) .. Top(p, i) + p.slots[i].size - 1
    BY <1>8, <2>1, CompactedSlots
  <2>3. a - Top(p, i) + 1 \in 1 .. p.slots[i].size
    BY <2>1, <2>2
  <2>4. p.slots[i].at + (a - Top(p, i) + 1) - 1 \in Offsets
    BY <2>3, InPlace
  <2>5. p.slots[i].at + (a - Top(p, i) + 1) - 1 = p.slots[i].at + (a - Top(p, i))
    BY <2>1
  <2> QED
    BY <2>3, <2>4, <2>5
<1>9. q.body \in [Offsets -> Bytes]
  <2>1. q.body = [a \in Offsets |-> q.body[a]]
    BY <1>1 DEF RelaidBody
  <2> SUFFICES ASSUME NEW a \in Offsets PROVE q.body[a] \in Bytes
    BY <2>1
  <2>2. CASE \E i \in SlotIds(p) : a \in Extent(q, i)
    BY <1>0, <1>7, <1>8, <2>2
  <2>3. CASE ~ \E i \in SlotIds(p) : a \in Extent(q, i)
    <3>1. q.body[a] = p.body[a]
      BY <1>1, <1>6, <2>3 DEF RelaidBody
    <3> QED
      BY <1>0, <3>1
  <2> QED
    BY <2>2, <2>3
<1>10. Sound(q)
  <2>1. q.lower \in 0 .. PageSize /\ q.upper \in 0 .. PageSize /\ q.slots \in Seq(Slots)
    BY <1>0, <1>1, <1>2, CompactedSlots
  <2>2. q \in Shape
    BY <1>1, <1>9, <2>1 DEF Shape
  <2> QED
    BY <1>3, <1>4, <1>5, <2>2 DEF Sound
<1>11. UNION {Extent(q, i) : i \in SlotIds(q)} = q.upper .. PageSize - 1
  <2>1. Len(q.slots) = Len(p.slots) /\ Len(q.slots) \in 0 .. Len(q.slots)
    BY <1>0, CompactedSlots
  <2>2. LiveBytes(q, Len(q.slots)) = LiveBytes(p, Len(p.slots))
    BY <1>0, <2>1, CompactedSlots DEF LiveBytes
  <2>3. Cardinality(LiveBytes(p, Len(p.slots))) \in Nat
    BY <1>0, BytesFit
  <2>4. Cardinality(LiveBytes(q, Len(q.slots))) = PageSize - q.upper
    BY <1>0, <1>1, <2>2, <2>3 DEF Top
  <2>5. \A a \in q.upper .. PageSize - 1 : \E i \in SlotIds(q) : a \in Extent(q, i)
    BY <1>10, <2>1, <2>4, BytesFit
  <2> QED
    BY <1>4, <2>5 DEF Within
<1>12. ASSUME NEW i \in SlotIds(p)
       PROVE  Record(q, i) = Record(p, i)
  <2>1. /\ q.slots[i].size = p.slots[i].size /\ i \in SlotIds(q)
        /\ Extent(q, i) = Top(p, i) .. Top(p, i - 1) - 1
    BY CompactedSlots
  <2>2. /\ Top(p, i) \in Nat /\ Top(p, i - 1) = Top(p, i) + p.slots[i].size
        /\ p.slots[i].size \in Nat /\ p.slots[i].at \in Int
    BY <1>0, Tops, Fields, SizeAssumption DEF Sound
  <2>3. ASSUME NEW k \in 1 .. p.slots[i].size
        PROVE  q.body[q.slots[i].at + k - 1] = p.body[p.slots[i].at + k - 1]
    <3>. Live(p, i)
      BY <2>2, <2>3 DEF Live
    <3>. p.slots[i] \in Slots
      BY Fields DEF Sound
    <3>1. q.slots[i].at = Top(p, i)
      BY DEF Compacted, Slots
    <3>2. PICK a \in Offsets : a = q.slots[i].at + k - 1 /\ a \in Extent(q, i)
      BY <1>10, <2>1, InPlace
    <3>3. q.body[a] = p.body[p.slots[i].at + (a - Top(p, i))]
      BY <1>7, <3>2
    <3>4. p.slots[i].at + (a - Top(p, i)) = p.slots[i].at + k - 1
      BY <2>2, <3>1, <3>2
    <3> QED
      BY <3>2, <3>3, <3>4
  <2> QED
    BY <2>1, <2>3 DEF Record
<1> QED
  BY <1>1, <1>10, <1>11, <1>12

-----------------------------------------------------------------------------
\* insertRecord, deleteRecord and the update in place.

\* The sum of insertRecord is the one it means.
LEMMA NeededSum ==
    ASSUME NEW size \in Nat, size + SlotSize < Word
    PROVE  Needed(size) = size + SlotSize
<1>1. \A m, w \in Nat : m < w => m % w = m
  OBVIOUS
<1>2. size + SlotSize \in Nat /\ Word \in Nat
  BY SizeAssumption
<1> QED
  BY <1>1, <1>2 DEF Needed

\* An insertion that is accepted keeps a page sound; the record goes to a new
\* slot, and the others keep theirs.
LEMMA InsertedSound ==
    ASSUME NEW p, Sound(p), NEW r \in Records, Len(r) + SlotSize < Word,
           Accepts(p, Len(r)), NEW q, q = Inserted(p, r)
    PROVE  /\ Sound(q)
           /\ q.slots # <<>>
           /\ Len(q.slots) = Len(p.slots) + 1
           /\ Record(q, Len(p.slots) + 1) = r
           /\ \A i \in SlotIds(p) : Record(q, i) = Record(p, i)
           /\ Extent(q, Len(p.slots) + 1) = q.upper .. p.upper - 1
           /\ \A i \in SlotIds(p) : Extent(q, i) = Extent(p, i)
           /\ q.upper <= p.upper
<1> DEFINE n == Len(p.slots)
           at == p.upper - Len(r)
<1>0. /\ n \in Nat /\ SlotIds(p) = 1 .. n /\ PageSize \in Nat /\ HeaderSize \in Nat
      /\ p.upper \in Nat /\ p.lower \in Nat /\ p.upper <= PageSize /\ SlotSize \in Nat \ {0}
      /\ p.lower <= p.upper /\ p.body \in [Offsets -> Bytes] /\ p.slots \in Seq(Slots)
  BY Fields, SizeAssumption DEF Sound, Shape, CursorsOf
<1>1. /\ r \in Seq(Bytes) /\ Len(r) \in Nat \ {0} /\ Len(r) < Word
  BY RecordAssumption
<1>2. p.upper - p.lower >= Len(r) + SlotSize
  <2>1. Needed(Len(r)) = Len(r) + SlotSize
    BY <1>1, NeededSum
  <2> QED
    BY <1>0, <1>1, <2>1 DEF Accepts, FreeSpace
<1>3. p.lower = HeaderSize + SlotSize * n
  BY <1>0, <1>1, <1>2 DEF Sound, CursorsOf
<1>4. SlotSize * n \in Nat /\ SlotSize * (n + 1) = SlotSize * n + SlotSize
  BY <1>0
<1>5. at \in Nat /\ p.lower + SlotSize <= at /\ HeaderSize <= at /\ at < p.upper
  <2>1. HeaderSize <= p.lower
    BY <1>0, <1>3, <1>4
  <2>2. at + Len(r) = p.upper /\ at \in Int
    BY <1>0, <1>1
  <2> HIDE DEF at
  <2>3. p.lower + SlotSize <= at
    BY <1>0, <1>1, <1>2, <2>2
  <2> QED
    BY <1>0, <1>1, <2>1, <2>2, <2>3
<1>6. /\ q.slots = Append(p.slots, [at |-> at, size |-> Len(r)])
      /\ q.lower = p.lower + SlotSize /\ q.upper = at
      /\ q.body = CopyIn(p.body, at, r)
      /\ q = [slots |-> q.slots, lower |-> q.lower, upper |-> q.upper, body |-> q.body]
  BY DEF Inserted
<1>7. [at |-> at, size |-> Len(r)] \in Slots
  BY <1>0, <1>1, <1>5, SizeAssumption DEF Slots, Offsets
<1> HIDE DEF n, at
<1>8. /\ q.slots \in Seq(Slots) /\ Len(q.slots) = n + 1 /\ SlotIds(q) = 1 .. n + 1
      /\ q.slots[n + 1] = [at |-> at, size |-> Len(r)]
      /\ \A i \in 1 .. n : q.slots[i] = p.slots[i]
  <2>1. /\ q.slots \in Seq(Slots) /\ Len(q.slots) = n + 1
        /\ q.slots[n + 1] = [at |-> at, size |-> Len(r)]
        /\ \A i \in 1 .. n : q.slots[i] = p.slots[i]
    BY <1>0, <1>6, <1>7, AppendProperties DEF n
  <2> QED
    BY <2>1, LenProperties DEF SlotIds
<1>9. /\ Extent(q, n + 1) = at .. p.upper - 1
      /\ \A i \in 1 .. n : Extent(q, i) = Extent(p, i)
  <2>1. at + Len(r) - 1 = p.upper - 1
    BY <1>0, <1>1 DEF at
  <2>2. Extent(q, n + 1) = at .. at + Len(r) - 1
    BY <1>8 DEF Extent
  <2> QED
    BY <1>8, <2>1, <2>2 DEF Extent
<1>10. q.body \in [Offsets -> Bytes]
  <2> SUFFICES ASSUME NEW a \in Offsets, a \in at .. at + Len(r) - 1
               PROVE  r[a - at + 1] \in Bytes
    BY <1>0, <1>6 DEF CopyIn
  <2>. a \in Int
    BY <1>0 DEF Offsets
  <2>1. a - at + 1 \in 1 .. Len(r)
    BY <1>1, <1>5
  <2> QED
    BY <1>1, <2>1
<1>11. Sound(q)
  <2>1. q \in Shape
    <3>0. at \in 0 .. PageSize /\ p.lower + SlotSize \in 0 .. PageSize
      BY <1>0, <1>5
    <3>1. q.lower \in 0 .. PageSize /\ q.upper \in 0 .. PageSize
      BY <1>6, <3>0
    <3> QED
      BY <1>6, <1>8, <1>10, <3>1 DEF Shape
  <2>2. CursorsOf(q)
    <3>1. q.lower = HeaderSize + (SlotSize * n + SlotSize)
      BY <1>0, <1>3, <1>4, <1>6
    <3>2. q.lower = HeaderSize + SlotSize * Len(q.slots)
      BY <1>4, <1>8, <3>1
    <3> QED
      BY <1>5, <1>6, <3>2 DEF CursorsOf
  <2>3. Within(q)
    <3> SUFFICES ASSUME NEW i \in 1 .. n + 1 PROVE Extent(q, i) \subseteq at .. PageSize - 1
      BY <1>6, <1>8 DEF Within
    <3>1. CASE i = n + 1
      BY <1>0, <1>5, <1>9, <3>1
    <3>2. CASE i \in 1 .. n
      <4>1. Extent(q, i) \subseteq p.upper .. PageSize - 1
        BY <1>0, <1>9, <3>2 DEF Sound, Within
      <4> QED
        BY <1>0, <1>5, <4>1
    <3> QED
      BY <1>0, <3>1, <3>2
  <2>4. \A i \in 1 .. n : Extent(q, i) \cap Extent(q, n + 1) = {}
    <3> TAKE i \in 1 .. n
    <3>1. Extent(q, i) \subseteq p.upper .. PageSize - 1
      BY <1>0, <1>9 DEF Sound, Within
    <3> QED
      BY <1>0, <1>5, <1>9, <3>1
  <2>5. \A i, j \in 1 .. n : i # j => Extent(q, i) \cap Extent(q, j) = {}
    BY <1>0, <1>9 DEF Sound, Apart
  <2>6. 1 .. n + 1 = (1 .. n) \cup {n + 1}
    BY <1>0
  <2>7. Apart(q)
    BY <1>8, <2>4, <2>5, <2>6 DEF Apart
  <2> QED
    BY <2>1, <2>2, <2>3, <2>7 DEF Sound
<1>12. Record(q, n + 1) = r
  <2>1. ASSUME NEW k \in 1 .. Len(r)
        PROVE  q.body[at + k - 1] = r[k]
    <3>. at + Len(r) = p.upper /\ k \in Int /\ 1 <= k /\ k <= Len(r) /\ Len(r) \in Int
      BY <1>0, <1>1 DEF at
    <3>0. at + k - 1 \in HeaderSize .. PageSize - 1
      BY <1>0, <1>5
    <3>1. PICK a \in Offsets : a = at + k - 1
      BY <3>0 DEF Offsets
    <3>2. a \in at .. at + Len(r) - 1 /\ a - at + 1 = k
      BY <1>1, <1>5, <3>1
    <3> QED
      BY <1>6, <3>1, <3>2 DEF CopyIn
  <2>2. Record(q, n + 1) = [k \in 1 .. Len(r) |-> q.body[at + k - 1]]
    BY <1>8 DEF Record
  <2>3. r = [k \in 1 .. Len(r) |-> r[k]]
    BY <1>1
  <2> QED
    BY <2>1, <2>2, <2>3
<1>13. ASSUME NEW i \in SlotIds(p)
       PROVE  Record(q, i) = Record(p, i)
  <2>1. q.slots[i] = p.slots[i]
    BY <1>0, <1>8
  <2>2. ASSUME NEW k \in 1 .. p.slots[i].size
        PROVE  q.body[p.slots[i].at + k - 1] = p.body[p.slots[i].at + k - 1]
    <3>1. PICK a \in Offsets : a = p.slots[i].at + k - 1 /\ a \in p.upper .. PageSize - 1
      BY InPlace
    <3>2. a \notin at .. at + Len(r) - 1
      BY <1>0, <1>1, <3>1 DEF at
    <3> QED
      BY <1>6, <3>1, <3>2 DEF CopyIn
  <2> QED
    BY <2>1, <2>2 DEF Record
<1>14. q.slots # <<>> /\ q.upper <= p.upper
  <2>1. n + 1 # 0
    BY <1>0
  <2>2. q.slots # <<>>
    BY <1>8, <2>1, EmptySeq
  <2>3. q.upper <= p.upper
    BY <1>0, <1>1, <1>6 DEF at
  <2> QED
    BY <2>2, <2>3
<1>15. Extent(q, n + 1) = q.upper .. p.upper - 1
  BY <1>6, <1>9
<1>16. \A i \in SlotIds(p) : Extent(q, i) = Extent(p, i)
  BY <1>0, <1>9
<1> QED
  BY <1>8, <1>11, <1>12, <1>13, <1>14, <1>15, <1>16 DEF n

\* A deleted slot stays, without a record; its bytes are nobody's.
LEMMA ErasedSound ==
    ASSUME NEW p, Sound(p), NEW i \in SlotIds(p), NEW q, q = Erased(p, i)
    PROVE  /\ Sound(q)
           /\ Len(q.slots) = Len(p.slots) /\ SlotIds(q) = SlotIds(p)
           /\ q.lower = p.lower /\ q.upper = p.upper
           /\ q.slots[i].size = 0
           /\ \A j \in SlotIds(p) \ {i} : q.slots[j] = p.slots[j]
           /\ Record(q, i) = <<>>
           /\ \A j \in SlotIds(p) \ {i} : Record(q, j) = Record(p, j)
<1>0. /\ Len(p.slots) \in Nat /\ SlotIds(p) = 1 .. Len(p.slots) /\ p.slots \in Seq(Slots)
      /\ p.slots[i] \in Slots /\ p.slots[i].at \in Int /\ p.slots \in [1 .. Len(p.slots) -> Slots]
  BY Fields, LenProperties DEF Sound, Shape
<1>1. /\ q.slots = [p.slots EXCEPT ![i] = [p.slots[i] EXCEPT !.size = 0]]
      /\ q.lower = p.lower /\ q.upper = p.upper /\ q.body = p.body
      /\ q = [slots |-> q.slots, lower |-> q.lower, upper |-> q.upper, body |-> q.body]
  BY DEF Erased, Sound, Shape
<1>2. /\ q.slots[i] \in Slots /\ q.slots[i].size = 0 /\ q.slots[i].at = p.slots[i].at
      /\ \A j \in SlotIds(p) \ {i} : q.slots[j] = p.slots[j]
  <2>1. q.slots[i] = [p.slots[i] EXCEPT !.size = 0]
    BY <1>0, <1>1
  <2>2. 0 \in 0 .. Word - 1
    BY SizeAssumption
  <2>3. q.slots[i] = [at |-> p.slots[i].at, size |-> 0]
    BY <1>0, <2>1 DEF Slots
  <2> QED
    BY <1>0, <1>1, <2>2, <2>3 DEF Slots
<1>3. q.slots \in [1 .. Len(p.slots) -> Slots]
  BY <1>0, <1>1, <1>2
<1>4. q.slots \in Seq(Slots)
  BY <1>0, <1>3, SeqDef
<1>5. Len(q.slots) = Len(p.slots) /\ SlotIds(q) = SlotIds(p)
  BY <1>0, <1>3, <1>4, LenProperties DEF SlotIds
<1>6. /\ Extent(q, i) = {}
      /\ \A j \in SlotIds(p) \ {i} : Extent(q, j) = Extent(p, j)
  BY <1>0, <1>2 DEF Extent
<1>7. Sound(q)
  <2>1. q \in Shape
    BY <1>1, <1>4 DEF Sound, Shape
  <2>2. CursorsOf(q)
    BY <1>0, <1>1, <1>5 DEF Sound, CursorsOf
  <2>3. Within(q)
    BY <1>1, <1>5, <1>6 DEF Sound, Within
  <2>4. Apart(q)
    BY <1>5, <1>6 DEF Sound, Apart
  <2> QED
    BY <2>1, <2>2, <2>3, <2>4 DEF Sound
<1>8. Record(q, i) = <<>>
  BY <1>2 DEF Record
<1>9. \A j \in SlotIds(p) \ {i} : Record(q, j) = Record(p, j)
  BY <1>1, <1>2 DEF Record
<1> QED
  BY <1>1, <1>2, <1>5, <1>7, <1>8, <1>9

\* Once a record is deleted and the page compacted, its bytes are free: the
\* insertion of an update in place is never refused.
LEMMA UpdateFits ==
    ASSUME NEW p, Sound(p), NEW i \in SlotIds(p), Live(p, i),
           NEW r \in Records, Len(r) + SlotSize < Word,
           FreeSpace(p) + p.slots[i].size >= Len(r) + SlotSize,
           NEW q, q = Compacted(Erased(p, i))
    PROVE  /\ Sound(q)
           /\ SlotIds(q) = SlotIds(p) /\ Len(q.slots) = Len(p.slots)
           /\ Accepts(q, Len(r))
           /\ UNION {Extent(q, k) : k \in SlotIds(q)} = q.upper .. PageSize - 1
           /\ Record(q, i) = <<>>
           /\ \A j \in SlotIds(p) \ {i} : Record(q, j) = Record(p, j)
<1> DEFINE e == Erased(p, i)
           n == Len(p.slots)
           own == {i} \X (1 .. p.slots[i].size)
<1>0. /\ n \in Nat /\ SlotIds(p) = 1 .. n /\ PageSize \in Nat /\ p.upper \in Nat
      /\ p.lower \in Nat /\ p.lower <= p.upper /\ p.upper <= PageSize
      /\ p.slots[i].size \in Nat /\ SlotSize \in Nat
  BY Fields, SizeAssumption DEF Sound, CursorsOf
<1>1. /\ Sound(e) /\ Len(e.slots) = n /\ SlotIds(e) = SlotIds(p)
      /\ e.lower = p.lower /\ e.upper = p.upper /\ e.slots[i].size = 0
      /\ \A j \in SlotIds(p) \ {i} : e.slots[j] = p.slots[j]
      /\ Record(e, i) = <<>>
      /\ \A j \in SlotIds(p) \ {i} : Record(e, j) = Record(p, j)
  BY ErasedSound
<1> HIDE DEF e
<1>2. e.slots # <<>>
  BY <1>0, <1>1
<1>3. q = Compacted(e)
  BY DEF e
<1>4. /\ Sound(q) /\ q.lower = e.lower /\ q.upper = Top(e, n)
      /\ UNION {Extent(q, k) : k \in SlotIds(q)} = q.upper .. PageSize - 1
      /\ \A j \in SlotIds(e) : Record(q, j) = Record(e, j)
  BY <1>1, <1>2, <1>3, CompactSound
<1>5. SlotIds(q) = SlotIds(p) /\ Len(q.slots) = n
  BY <1>1, <1>3, CompactedSlots
\* The bytes of the page are those of the other records and its own.
<1>6. LiveBytes(p, n) = LiveBytes(e, n) \cup own /\ LiveBytes(e, n) \cap own = {}
  <2>1. \A b : b \in LiveBytes(p, n) <=>
                  \E j \in 1 .. n : b \in {j} \X (1 .. p.slots[j].size)
    BY DEF LiveBytes
  <2>2. \A b : b \in LiveBytes(e, n) <=>
                  \E j \in 1 .. n : b \in {j} \X (1 .. e.slots[j].size)
    BY DEF LiveBytes
  <2>3. {i} \X (1 .. e.slots[i].size) = {}
    BY <1>1
  <2>4. \A j \in (1 .. n) \ {i} : {j} \X (1 .. e.slots[j].size) = {j} \X (1 .. p.slots[j].size)
    BY <1>0, <1>1
  <2>5. \A j \in (1 .. n) \ {i} : ({j} \X (1 .. p.slots[j].size)) \cap own = {}
    OBVIOUS
  <2>. i \in 1 .. n
    BY <1>0
  <2> QED
    BY <2>1, <2>2, <2>3, <2>4, <2>5
<1>7. IsFiniteSet(own) /\ Cardinality(own) = p.slots[i].size
  BY <1>0, OwnBytes
<1> HIDE DEF own
<1>8. Cardinality(LiveBytes(p, n)) = Cardinality(LiveBytes(e, n)) + p.slots[i].size
  <2>1. IsFiniteSet(LiveBytes(e, n)) /\ Cardinality(LiveBytes(e, n)) \in Nat
    BY <1>0, <1>1, BytesFit
  <2>2. Cardinality(LiveBytes(e, n) \cup own)
           = Cardinality(LiveBytes(e, n)) + Cardinality(own) - Cardinality(LiveBytes(e, n) \cap own)
    BY <1>7, <2>1, FS_Union
  <2>3. Cardinality(LiveBytes(e, n) \cap own) = 0
    BY <1>6, FS_EmptySet
  <2> QED
    BY <1>0, <1>6, <1>7, <2>1, <2>2, <2>3
<1>9. q.upper >= p.upper + p.slots[i].size
  <2>1. Cardinality(LiveBytes(p, n)) \in Nat /\ Cardinality(LiveBytes(p, n)) <= PageSize - p.upper
    BY <1>0, BytesFit
  <2>2. Cardinality(LiveBytes(e, n)) \in Nat
    BY <1>0, <1>1, BytesFit
  <2> QED
    BY <1>0, <1>4, <1>8, <2>1, <2>2 DEF Top
<1>10. Accepts(q, Len(r))
  <2>1. Len(r) \in Nat \ {0}
    BY RecordAssumption
  <2>2. q.upper \in Nat
    BY <1>4, Fields, SizeAssumption DEF Sound
  <2>3. FreeSpace(q) >= Len(r) + SlotSize
    BY <1>0, <1>1, <1>4, <1>9, <2>1, <2>2 DEF FreeSpace
  <2>4. Needed(Len(r)) = Len(r) + SlotSize
    BY <2>1, NeededSum
  <2> QED
    BY <2>1, <2>3, <2>4 DEF Accepts
<1> QED
  BY <1>0, <1>1, <1>4, <1>5, <1>10

-----------------------------------------------------------------------------
\* The invariant, and the steps from one sound page to the next.

\* A new page is sound, and so is one read back as zeros.
LEMMA InitSound == Init => Sound(page) /\ page.slots = <<>>
<1> SUFFICES ASSUME Init PROVE Sound(page) /\ page.slots = <<>>
  OBVIOUS
<1>1. page.slots = <<>> /\ page.body = EmptyBody
  BY DEF Init, FreshPage, ZeroPage
<1>2. /\ page.lower <= page.upper /\ page.lower \in 0 .. PageSize /\ page.upper \in 0 .. PageSize
      /\ \/ page.lower = HeaderSize
         \/ page.lower = 0 /\ page.upper = 0
      /\ page = [slots |-> page.slots, lower |-> page.lower, upper |-> page.upper, body |-> page.body]
  BY SizeAssumption DEF Init, FreshPage, ZeroPage
<1>3. /\ SlotIds(page) = {} /\ Len(page.slots) = 0 /\ page.slots \in Seq(Slots)
      /\ SlotSize * 0 = 0
  BY <1>1, SizeAssumption DEF SlotIds
<1>4. page.body \in [Offsets -> Bytes]
  BY <1>1, SizeAssumption DEF EmptyBody
<1>5. page \in Shape
  BY <1>2, <1>3, <1>4 DEF Shape
<1>6. HeaderSize = HeaderSize + SlotSize * Len(page.slots)
  BY <1>3, SizeAssumption
<1> QED
  BY <1>1, <1>2, <1>3, <1>5, <1>6 DEF Sound, CursorsOf, Within, Apart

\* What getRecord answers, slot by slot.
Rows(p) == [i \in SlotIds(p) |-> Record(p, i)]

\* A sequence that another one extends by one element.
LEMMA Extended ==
    ASSUME NEW n \in Nat, NEW S, NEW s \in [1 .. n -> S], NEW t \in [1 .. n + 1 -> S],
           \A i \in 1 .. n : t[i] = s[i]
    PROVE  t = Append(s, t[n + 1])
<1> DEFINE u == Append(s, t[n + 1])
<1>1. s \in Seq(S)
  BY SeqDef
<1>2. Len(s) = n
  BY <1>1, LenProperties
<1>3. t[n + 1] \in S
  OBVIOUS
<1>4. /\ u \in Seq(S) /\ Len(u) = n + 1
      /\ \A i \in 1 .. n : u[i] = s[i]
      /\ u[n + 1] = t[n + 1]
  BY <1>1, <1>2, <1>3, AppendProperties
<1>5. u \in [1 .. n + 1 -> S]
  BY <1>4, LenProperties
<1> HIDE DEF u
<1>6. \A i \in 1 .. n + 1 : u[i] = t[i]
  BY <1>4
<1>7. u = t
  BY <1>5, <1>6
<1> QED
  BY <1>7 DEF u

\* Every byte of the data area belongs to a record.
Filled(p) == UNION {Extent(p, k) : k \in SlotIds(p)} = p.upper .. PageSize - 1

\* insertRecord appends the row to the slots, and opens no hole.
LEMMA InsertStep ==
    ASSUME NEW p, Sound(p), NEW r \in Records, Len(r) + SlotSize < Word, Accepts(p, Len(r)),
           NEW q, q = Inserted(p, r)
    PROVE  /\ Sound(q)
           /\ Rows(q) = Append(Rows(p), r)
           /\ Filled(p) => Filled(q)
<1> DEFINE n == Len(p.slots)
<1>1. /\ Sound(q) /\ Len(q.slots) = n + 1 /\ Record(q, n + 1) = r
      /\ \A i \in SlotIds(p) : Record(q, i) = Record(p, i)
      /\ Extent(q, n + 1) = q.upper .. p.upper - 1
      /\ \A i \in SlotIds(p) : Extent(q, i) = Extent(p, i)
      /\ q.upper <= p.upper
  BY InsertedSound
<1>2. /\ n \in Nat /\ SlotIds(p) = 1 .. n /\ SlotIds(q) = 1 .. n + 1
      /\ p.upper \in 0 .. PageSize /\ q.upper \in 0 .. PageSize /\ PageSize \in Nat
  BY <1>1, Fields, SizeAssumption DEF Sound
<1> HIDE DEF n
<1>3. 1 .. n + 1 = (1 .. n) \cup {n + 1}
  BY <1>2
<1>4. Rows(q) = Append(Rows(p), r)
  <2>1. Rows(q)[n + 1] = r
    BY <1>1, <1>2 DEF Rows
  <2>2. \A i \in 1 .. n : Rows(q)[i] = Rows(p)[i]
    BY <1>1, <1>2, <1>3 DEF Rows
  <2> DEFINE S == {Record(q, i) : i \in 1 .. n + 1}
  <2>3. Rows(p) \in [1 .. n -> S] /\ Rows(q) \in [1 .. n + 1 -> S]
    BY <1>1, <1>2, <1>3 DEF Rows
  <2> HIDE DEF S
  <2>4. Rows(q) = Append(Rows(p), Rows(q)[n + 1])
    BY <1>2, <2>2, <2>3, Extended
  <2> QED
    BY <2>1, <2>4
<1>5. ASSUME Filled(p) PROVE Filled(q)
  <2>1. UNION {Extent(q, k) : k \in SlotIds(q)}
           = (UNION {Extent(p, k) : k \in SlotIds(p)}) \cup (q.upper .. p.upper - 1)
    <3>1. \A a : a \in UNION {Extent(q, k) : k \in SlotIds(q)}
                    <=> (\E k \in 1 .. n : a \in Extent(q, k)) \/ a \in Extent(q, n + 1)
      <4>1. \A a : a \in UNION {Extent(q, k) : k \in SlotIds(q)}
                      <=> \E k \in SlotIds(q) : a \in Extent(q, k)
        OBVIOUS
      <4>2. SlotIds(q) = (1 .. n) \cup {n + 1}
        BY <1>2, <1>3
      <4> QED
        BY <4>1, <4>2
    <3>2. \A a : a \in UNION {Extent(p, k) : k \in SlotIds(p)}
                    <=> \E k \in 1 .. n : a \in Extent(q, k)
      BY <1>1, <1>2
    <3> QED
      BY <1>1, <3>1, <3>2
  <2>2. (p.upper .. PageSize - 1) \cup (q.upper .. p.upper - 1) = q.upper .. PageSize - 1
    <3>1. \A a, b, c \in Nat : a <= b /\ b <= c => (b .. c - 1) \cup (a .. b - 1) = a .. c - 1
      <4> SUFFICES ASSUME NEW a \in Nat, NEW b \in Nat, NEW c \in Nat, a <= b, b <= c, NEW x
                   PROVE  x \in (b .. c - 1) \cup (a .. b - 1) <=> x \in a .. c - 1
        OBVIOUS
      <4> QED
        OBVIOUS
    <3>2. /\ q.upper \in Nat /\ p.upper \in Nat /\ PageSize \in Nat
          /\ q.upper <= p.upper /\ p.upper <= PageSize
      BY <1>1, <1>2
    <3> QED
      BY <3>1, <3>2
  <2> QED
    BY <1>5, <2>1, <2>2 DEF Filled
<1> QED
  BY <1>1, <1>4, <1>5

\* deleteRecord empties one slot.
LEMMA DeleteStep ==
    ASSUME NEW p, Sound(p), NEW i \in SlotIds(p), NEW q, q = Erased(p, i)
    PROVE  /\ Sound(q)
           /\ Rows(q) = [Rows(p) EXCEPT ![i] = <<>>]
<1>1. /\ Sound(q) /\ SlotIds(q) = SlotIds(p) /\ Record(q, i) = <<>>
      /\ \A j \in SlotIds(p) \ {i} : Record(q, j) = Record(p, j)
  BY ErasedSound
<1> QED
  BY <1>1 DEF Rows

\* compact() changes no row and leaves no hole.
LEMMA CompactStep ==
    ASSUME NEW p, Sound(p), p.slots # <<>>, NEW q, q = Compacted(p)
    PROVE  Sound(q) /\ Rows(q) = Rows(p) /\ Filled(q)
<1>1. /\ Sound(q) /\ UNION {Extent(q, k) : k \in SlotIds(q)} = q.upper .. PageSize - 1
      /\ \A i \in SlotIds(p) : Record(q, i) = Record(p, i)
  BY CompactSound
<1>2. SlotIds(q) = SlotIds(p)
  BY CompactedSlots
<1> QED
  BY <1>1, <1>2 DEF Rows, Filled

\* The update in place moves its row to a new slot, and leaves no hole.
LEMMA UpdateStep ==
    ASSUME NEW p, Sound(p), NEW i \in SlotIds(p), NEW r \in Records, Len(r) + SlotSize < Word,
           Live(p, i), FreeSpace(p) + p.slots[i].size >= Len(r) + SlotSize,
           NEW c, c = Compacted(Erased(p, i)),
           NEW q, q = IF Accepts(c, Len(r)) THEN Inserted(c, r) ELSE c
    PROVE  /\ Sound(q)
           /\ Rows(q) = Append([Rows(p) EXCEPT ![i] = <<>>], r)
           /\ Filled(q)
<1>1. /\ Sound(c) /\ SlotIds(c) = SlotIds(p) /\ Accepts(c, Len(r))
      /\ UNION {Extent(c, k) : k \in SlotIds(c)} = c.upper .. PageSize - 1
      /\ Record(c, i) = <<>>
      /\ \A j \in SlotIds(p) \ {i} : Record(c, j) = Record(p, j)
  BY UpdateFits
<1>2. Filled(c) /\ Rows(c) = [Rows(p) EXCEPT ![i] = <<>>]
  BY <1>1 DEF Filled, Rows
<1>3. q = Inserted(c, r)
  BY <1>1
<1> QED
  BY <1>1, <1>2, <1>3, InsertStep

-----------------------------------------------------------------------------
\* Every step of a page, in the terms of the lemmas above.
LEMMA Steps ==
    ASSUME NoneWraps, Sound(page), Next
    PROVE  /\ Sound(page')
           /\ Store!Next \/ Rows(page') = Rows(page)
           /\ (Compact \/ \E i \in SlotIds(page), r \in Records : UpdateInPlace(i, r))
                 => Filled(page')
<1> DEFINE Slot == SlotIds(page)
<1>1. ASSUME NEW r \in Records, InsertRecord(r)
      PROVE  Sound(page') /\ Rows(page') = Append(Rows(page), r) /\ (Filled(page) => Filled(page'))
  BY <1>1, InsertStep DEF InsertRecord, NoneWraps
<1>2. ASSUME NEW i \in Slot, DeleteRecord(i)
      PROVE  Sound(page') /\ Rows(page') = [Rows(page) EXCEPT ![i] = <<>>]
  BY <1>2, DeleteStep DEF DeleteRecord
<1>3. ASSUME Compact
      PROVE  Sound(page') /\ Rows(page') = Rows(page) /\ Filled(page')
  BY <1>3, CompactStep DEF Compact
<1>4. ASSUME NEW i \in Slot, NEW r \in Records, UpdateInPlace(i, r)
      PROVE  /\ Sound(page') /\ Filled(page')
             /\ Rows(page') = Append([Rows(page) EXCEPT ![i] = <<>>], r)
  BY <1>4, UpdateStep DEF UpdateInPlace, NoneWraps
\* A live slot answers a row.
<1>5. ASSUME NEW i \in Slot, Live(page, i)
      PROVE  i \in DOMAIN Rows(page) /\ Rows(page)[i] # Store!Deleted
  <2>1. Rows(page)[i] = Record(page, i) /\ i \in DOMAIN Rows(page)
    BY DEF Rows
  <2>2. page.slots[i].size \in Nat /\ page.slots[i].size > 0
    BY <1>5, Fields, SizeAssumption DEF Sound, Live
  <2>3. 1 \in DOMAIN Record(page, i)
    BY <2>2 DEF Record
  <2> QED
    BY <2>1, <2>3 DEF Store!Deleted
<1>6. \A i \in Slot : Live(page, i) => i \in DOMAIN Rows(page) /\ Rows(page)[i] # Store!Deleted
  BY <1>5
<1>7. ASSUME NEW i \in Slot, NEW r \in Records, UpdateInPlace(i, r)
      PROVE  Sound(page') /\ Filled(page') /\ Store!Next
  <2>1. Store!Update(i, r) /\ i \in DOMAIN Rows(page)
    BY <1>4, <1>6, <1>7 DEF UpdateInPlace, Store!Update, Store!Deleted, Rows
  <2> QED
    BY <1>4, <1>7, <2>1 DEF Store!Next, Rows
<1>8. ASSUME NEW r \in Records, InsertRecord(r) \/ InsertRefused(r)
      PROVE  Sound(page') /\ (Store!Next \/ Rows(page') = Rows(page))
  <2>1. CASE InsertRecord(r)
    BY <1>1, <2>1 DEF Store!Next, Store!Insert, Rows
  <2>2. CASE InsertRefused(r)
    BY <2>2 DEF InsertRefused
  <2> QED
    BY <1>8, <2>1, <2>2
<1>9. ASSUME NEW i \in Slot, DeleteRecord(i)
      PROVE  Sound(page') /\ Store!Next
  <2>1. Store!Delete(i) /\ i \in DOMAIN Rows(page)
    BY <1>2, <1>6, <1>9 DEF DeleteRecord, Store!Delete, Store!Deleted, Rows
  <2> QED
    BY <1>2, <1>9, <2>1 DEF Store!Next, Rows
<1> QED
  BY <1>3, <1>7, <1>8, <1>9 DEF Next

\* The invariant behind the theorems below.
LEMMA Invariance == ASSUME NoneWraps PROVE Spec => []Sound(page)
<1>1. Init => Sound(page)
  BY InitSound
<1>2. Sound(page) /\ [Next]_page => Sound(page)'
  <2> SUFFICES ASSUME Sound(page), [Next]_page PROVE Sound(page)'
    OBVIOUS
  <2>1. CASE Next
    BY <2>1, Steps
  <2>2. CASE UNCHANGED page
    BY <2>2
  <2> QED
    BY <2>1, <2>2
<1> QED
  BY <1>1, <1>2, PTL DEF Spec

\* The type invariant of a page of any size: the cursors stay within the page,
\* slots point into it, and the body is bytes from end to end.
THEOREM TypeCorrect == ASSUME NoneWraps PROVE Spec => []TypeOK
<1>1. Sound(page) => TypeOK
  BY DEF Sound, Shape, TypeOK
<1> QED
  BY <1>1, Invariance, PTL

\* The memcpys of page.h stay apart: the directory ends below the records, live
\* records are within the page and share no byte, after any sequence of
\* insertions, deletions, compactions and updates.
THEOREM LayoutSound == ASSUME NoneWraps PROVE Spec => []LayoutOK
<1>1. Sound(page) => LayoutOK
  BY Fields, SizeAssumption DEF Sound, CursorsOf, Within, Apart, LayoutOK
<1> QED
  BY <1>1, Invariance, PTL

\* compact() gives back every byte that no live record uses, and the update in
\* place uses none but those it needs.
THEOREM Reclaims == ASSUME NoneWraps PROVE Spec => CompactReclaims
<1>1. Sound(page) /\ [Next]_page
         => [(Compact \/ \E i \in SlotIds(page), r \in Records : UpdateInPlace(i, r))
                => UNION {Extent(page', k) : k \in SlotIds(page')}
                      = page'.upper .. PageSize - 1]_page
  BY Steps DEF Filled
<1> QED
  BY <1>1, Invariance, PTL DEF Spec, CompactReclaims

\* A page keeps its rows: read back by getRecord, it is an array of slots that
\* only its operations change, each in the slot it names; an update in place
\* that was let in is never refused half way (storage_manager.cpp:323-325).
THEOREM Refinement == ASSUME NoneWraps PROVE Spec => IsSlotStore
<1>1. Init => Store!Init
  <2>1. Init => page.slots = <<>>
    BY InitSound
  <2> QED
    BY <2>1 DEF Store!Init, SlotIds
<1>2. Sound(page) /\ [Next]_page => [Store!Next]_([i \in SlotIds(page) |-> Record(page, i)])
  <2> SUFFICES ASSUME Sound(page), [Next]_page
               PROVE  \/ Store!Next
                      \/ Rows(page') = Rows(page)
    BY DEF Rows
  <2>1. CASE Next
    BY <2>1, Steps
  <2>2. CASE UNCHANGED page
    BY <2>2
  <2> QED
    BY <2>1, <2>2
<1> QED
  BY <1>1, <1>2, Invariance, PTL DEF Spec, IsSlotStore, Store!Spec

-----------------------------------------------------------------------------
\* The page as HeapTable counts it.

\* A row without its bytes.
Sized(r) == [size |-> Len(r)]

\* The free bytes of a sound page, and the slots of its room.
LEMMA RoomFields ==
    ASSUME NEW p, Sound(p)
    PROVE  /\ RoomOf(p).free = p.upper - p.lower
           /\ DOMAIN RoomOf(p).slots = 1 .. Len(p.slots)
           /\ \A i \in SlotIds(p) : RoomOf(p).slots[i] = [size |-> p.slots[i].size]
           /\ RoomOf(p).slots \in Seq([size : Nat])
           /\ Len(RoomOf(p).slots) = Len(p.slots)
<1>1. /\ Len(p.slots) \in Nat /\ SlotIds(p) = 1 .. Len(p.slots)
      /\ p.lower \in Nat /\ p.upper \in Nat /\ p.lower <= p.upper
      /\ \A i \in SlotIds(p) : p.slots[i].size \in Nat
  BY Fields, SizeAssumption DEF Sound, CursorsOf
<1>2. FreeSpace(p) = p.upper - p.lower
  BY <1>1 DEF FreeSpace
<1>3. RoomOf(p).slots \in [1 .. Len(p.slots) -> [size : Nat]]
  BY <1>1 DEF RoomOf
<1>4. RoomOf(p).slots \in Seq([size : Nat]) /\ Len(RoomOf(p).slots) = Len(p.slots)
  <2> DEFINE f == RoomOf(p).slots
             n == Len(p.slots)
             S == [size : Nat]
  <2>1. n \in Nat /\ f \in [1 .. n -> S]
    BY <1>1, <1>3
  <2> HIDE DEF f, n, S
  <2>2. f \in Seq(S)
    BY <2>1, SeqDef
  <2>3. DOMAIN f = 1 .. Len(f) /\ Len(f) \in Nat
    BY <2>2, LenProperties
  <2>4. Len(f) = n
    BY <2>1, <2>3
  <2> QED
    BY <2>2, <2>4 DEF f, n, S
<1> QED
  BY <1>1, <1>2, <1>4 DEF RoomOf

\* Cardinality, as the room's module has it.
LEMMA SameCount == \A S : Heap!Cardinality(S) = Cardinality(S)
BY DEF Heap!Cardinality, Cardinality

\* Both count the same bytes.
LEMMA SameBytes ==
    ASSUME NEW p, Sound(p)
    PROVE  /\ \A i \in SlotIds(p) : i \in Heap!LiveSlots(RoomOf(p)) <=> Live(p, i)
           /\ Heap!LiveSlots(RoomOf(p)) \subseteq SlotIds(p)
           /\ Heap!LiveSize(RoomOf(p)) = PageSize - Top(p, Len(p.slots))
<1>1. /\ Len(p.slots) \in Nat /\ SlotIds(p) = 1 .. Len(p.slots)
      /\ \A i \in SlotIds(p) : p.slots[i].size \in Nat
  BY Fields, SizeAssumption DEF Sound
<1>2. DOMAIN RoomOf(p).slots = SlotIds(p)
      /\ \A i \in SlotIds(p) : RoomOf(p).slots[i] = [size |-> p.slots[i].size]
  BY <1>1, RoomFields
<1>3. \A i \in SlotIds(p) : RoomOf(p).slots[i] # [size |-> 0] <=> Live(p, i)
  <2> SUFFICES ASSUME NEW i \in SlotIds(p)
               PROVE  RoomOf(p).slots[i] # [size |-> 0] <=> p.slots[i].size > 0
    BY DEF Live
  <2> DEFINE k == p.slots[i].size
  <2>1. k \in Nat /\ RoomOf(p).slots[i] = [size |-> k]
    BY <1>1, <1>2
  <2> HIDE DEF k
  <2>2. [size |-> k] = [size |-> 0] <=> k = 0
    <3>1. [size |-> k].size = k /\ [size |-> 0].size = 0
      OBVIOUS
    <3> QED
      BY <3>1
  <2> QED
    BY <2>1, <2>2 DEF k
<1>4. /\ Heap!LiveSlots(RoomOf(p)) \subseteq SlotIds(p)
      /\ \A i \in SlotIds(p) : i \in Heap!LiveSlots(RoomOf(p)) <=> Live(p, i)
  BY <1>2, <1>3 DEF Heap!LiveSlots
<1>5. Heap!LiveBytes(RoomOf(p)) = LiveBytes(p, Len(p.slots))
  <2>1. \A b : b \in Heap!LiveBytes(RoomOf(p))
                  <=> \E i \in Heap!LiveSlots(RoomOf(p)) : b \in {i} \X (1 .. RoomOf(p).slots[i].size)
    BY DEF Heap!LiveBytes
  <2>2. \A b : b \in LiveBytes(p, Len(p.slots))
                  <=> \E i \in SlotIds(p) : b \in {i} \X (1 .. p.slots[i].size)
    BY <1>1 DEF LiveBytes
  <2>3. ASSUME NEW i \in SlotIds(p), ~Live(p, i)
        PROVE  {i} \X (1 .. p.slots[i].size) = {}
    <3>1. p.slots[i].size = 0
      BY <1>1, <2>3 DEF Live
    <3>2. 1 .. 0 = {}
      OBVIOUS
    <3> QED
      BY <3>1, <3>2
  <2>4. ASSUME NEW i \in SlotIds(p)
        PROVE  RoomOf(p).slots[i].size = p.slots[i].size
    <3> DEFINE k == p.slots[i].size
    <3>1. RoomOf(p).slots[i] = [size |-> k]
      BY <1>2
    <3> HIDE DEF k
    <3>2. RoomOf(p).slots[i].size = k
      BY <3>1
    <3> QED
      BY <3>2 DEF k
  <2>5. ASSUME NEW b
        PROVE  b \in Heap!LiveBytes(RoomOf(p)) <=> b \in LiveBytes(p, Len(p.slots))
    BY <2>1, <2>2, <2>3, <2>4, <1>4
  <2> QED
    BY <2>5
<1>6. /\ Cardinality(LiveBytes(p, Len(p.slots))) \in Nat
      /\ Len(p.slots) \in 0 .. Len(p.slots)
  BY <1>1, BytesFit
<1>7. Heap!LiveSize(RoomOf(p)) = Cardinality(LiveBytes(p, Len(p.slots)))
  BY <1>5, SameCount DEF Heap!LiveSize
<1>8. Top(p, Len(p.slots)) = PageSize - Cardinality(LiveBytes(p, Len(p.slots)))
  BY DEF Top
<1>9. \A a \in Nat : a = PageSize - (PageSize - a)
  BY SizeAssumption
<1> QED
  BY <1>4, <1>6, <1>7, <1>8, <1>9

\* A row is let in when its bytes and its slot are free.
LEMMA SameFits ==
    ASSUME NEW p, Sound(p), NEW r \in Records, Len(r) + SlotSize < Word
    PROVE  Accepts(p, Len(r)) <=> Heap!Fits(RoomOf(p), Sized(r))
<1>1. Len(r) \in Nat /\ Len(r) # 0 /\ Needed(Len(r)) = Len(r) + SlotSize
  <2>1. Len(r) \in Nat /\ Len(r) # 0
    BY RecordAssumption, EmptySeq, LenProperties
  <2> QED
    BY <2>1, NeededSum
<1>2. RoomOf(p).free = FreeSpace(p) /\ Sized(r).size = Len(r)
  BY DEF RoomOf, Sized
<1> QED
  BY <1>1, <1>2 DEF Accepts, Heap!Fits

\* Two rooms are the same when they have the same slots and free bytes.
LEMMA InsertedRoom ==
    ASSUME NEW p, Sound(p), NEW r \in Records, Len(r) + SlotSize < Word,
           Accepts(p, Len(r)), NEW q, q = Inserted(p, r)
    PROVE  RoomOf(q) = Heap!Inserted(RoomOf(p), Sized(r))
<1> DEFINE n == Len(p.slots)
<1>1. Sound(q) /\ Len(q.slots) = n + 1
  BY InsertedSound
<1>2. /\ n \in Nat /\ SlotIds(p) = 1 .. n /\ SlotIds(q) = 1 .. n + 1
      /\ p.lower \in Nat /\ p.upper \in Nat /\ p.slots \in Seq(Slots)
  BY <1>1, Fields, SizeAssumption DEF Sound, Shape
<1>3. Len(r) \in Nat /\ SlotSize \in Nat
  BY RecordAssumption, LenProperties, SizeAssumption
<1>4. /\ q.slots = Append(p.slots, [at |-> p.upper - Len(r), size |-> Len(r)])
      /\ q.lower = p.lower + SlotSize /\ q.upper = p.upper - Len(r)
  BY DEF Inserted
<1>5. /\ \A i \in 1 .. n : q.slots[i] = p.slots[i]
      /\ q.slots[n + 1].size = Len(r)
  BY <1>2, <1>4
<1>6. RoomOf(q).free = RoomOf(p).free - Len(r) - SlotSize
  <2>1. RoomOf(q).free = q.upper - q.lower /\ RoomOf(p).free = p.upper - p.lower
    BY <1>1, RoomFields
  <2>2. \A lo, up, a, b \in Nat : (up - a) - (lo + b) = (up - lo) - a - b
    OBVIOUS
  <2>3. q.upper - q.lower = (p.upper - Len(r)) - (p.lower + SlotSize)
    BY <1>4
  <2> QED
    BY <1>2, <1>3, <2>1, <2>2, <2>3
<1> HIDE DEF n
<1>7. RoomOf(q).slots = Append(RoomOf(p).slots, Sized(r))
  <2>1. /\ RoomOf(p).slots \in [1 .. n -> [size : Nat]]
        /\ RoomOf(q).slots \in [1 .. n + 1 -> [size : Nat]]
    <3>1. ASSUME NEW s, s \in Seq([size : Nat])
          PROVE  s \in [1 .. Len(s) -> [size : Nat]]
      BY <3>1, LenProperties
    <3>2. /\ RoomOf(p).slots \in Seq([size : Nat]) /\ Len(RoomOf(p).slots) = n
          /\ RoomOf(q).slots \in Seq([size : Nat]) /\ Len(RoomOf(q).slots) = n + 1
      BY <1>1, RoomFields DEF n
    <3> HIDE DEF n
    <3> QED
      BY <3>1, <3>2
  <2>2. ASSUME NEW i \in 1 .. n
        PROVE  RoomOf(q).slots[i] = RoomOf(p).slots[i]
    <3>1. i \in SlotIds(p) /\ i \in SlotIds(q)
      BY <1>2
    <3>2. RoomOf(p).slots[i] = [size |-> p.slots[i].size]
      BY <3>1, RoomFields
    <3>3. RoomOf(q).slots[i] = [size |-> q.slots[i].size]
      BY <1>1, <3>1, RoomFields
    <3>4. q.slots[i] = p.slots[i]
      BY <1>5
    <3> QED
      BY <3>2, <3>3, <3>4
  <2>3. RoomOf(q).slots[n + 1] = Sized(r)
    BY <1>1, <1>2, <1>5, RoomFields DEF Sized
  <2> DEFINE S == [size : Nat]
             a == RoomOf(p).slots
             b == RoomOf(q).slots
  <2> HIDE DEF S, a, b
  <2>4. n \in Nat /\ a \in [1 .. n -> S] /\ b \in [1 .. n + 1 -> S] /\ \A i \in 1 .. n : b[i] = a[i]
    BY <1>2, <2>1, <2>2 DEF S, a, b
  <2>5. b = Append(a, b[n + 1])
    BY <2>4, Extended
  <2> QED
    BY <2>3, <2>5 DEF a, b
<1>8. RoomOf(q) = [slots |-> RoomOf(q).slots, free |-> RoomOf(q).free]
  BY DEF RoomOf
<1> QED
  BY <1>6, <1>7, <1>8 DEF Heap!Inserted, Sized

LEMMA ErasedRoom ==
    ASSUME NEW p, Sound(p), NEW i \in SlotIds(p), NEW q, q = Erased(p, i)
    PROVE  RoomOf(q) = Heap!Erased(RoomOf(p), i)
<1>1. /\ Sound(q) /\ SlotIds(q) = SlotIds(p) /\ q.lower = p.lower /\ q.upper = p.upper
      /\ q.slots[i].size = 0 /\ \A j \in SlotIds(p) \ {i} : q.slots[j] = p.slots[j]
  BY ErasedSound
<1>2. RoomOf(q).free = RoomOf(p).free
  BY <1>1, RoomFields
<1>3. RoomOf(q).slots = [RoomOf(p).slots EXCEPT ![i] = [size |-> 0]]
  BY <1>1 DEF RoomOf
<1>4. /\ RoomOf(q) = [slots |-> RoomOf(q).slots, free |-> RoomOf(q).free]
      /\ RoomOf(p) = [slots |-> RoomOf(p).slots, free |-> RoomOf(p).free]
  BY DEF RoomOf
<1> QED
  BY <1>2, <1>3, <1>4 DEF Heap!Erased

LEMMA CompactedRoom ==
    ASSUME NEW p, Sound(p), p.slots # <<>>, NEW q, q = Compacted(p)
    PROVE  RoomOf(q) = Heap!Compacted(RoomOf(p))
<1> DEFINE n == Len(p.slots)
<1>1. /\ Sound(q) /\ q.lower = p.lower /\ q.upper = Top(p, n)
      /\ SlotIds(q) = SlotIds(p) /\ \A i \in SlotIds(p) : q.slots[i].size = p.slots[i].size
  BY CompactSound, CompactedSlots
<1>2. p.lower = HeaderSize + SlotSize * n /\ n \in Nat
  BY Fields DEF Sound, CursorsOf
<1>3. Heap!LiveSize(RoomOf(p)) = PageSize - Top(p, n) /\ Len(RoomOf(p).slots) = n
  BY SameBytes, RoomFields
<1>4. Top(p, n) \in Nat
  BY <1>2, Tops, SizeAssumption, Fields DEF Sound
<1>5. SlotSize * n \in Nat /\ PageSize \in Nat /\ HeaderSize \in Nat
  BY <1>2, SizeAssumption
<1>6. RoomOf(q).free = (PageSize - HeaderSize) - SlotSize * n - Heap!LiveSize(RoomOf(p))
  BY <1>1, <1>2, <1>3, <1>4, <1>5, RoomFields
<1>7. RoomOf(q).slots = RoomOf(p).slots
  BY <1>1 DEF RoomOf
<1>8. /\ RoomOf(q) = [slots |-> RoomOf(q).slots, free |-> RoomOf(q).free]
      /\ RoomOf(p) = [slots |-> RoomOf(p).slots, free |-> RoomOf(p).free]
  BY DEF RoomOf
<1> HIDE DEF n
<1> QED
  BY <1>3, <1>6, <1>7, <1>8 DEF Heap!Compacted

\* Every step of the page is one of its room, or leaves it.
LEMMA RoomSteps ==
    ASSUME NoneWraps, Sound(page), Next
    PROVE  Heap!Next \/ RoomOf(page') = RoomOf(page)
<1>1. ASSUME NEW r \in Records
      PROVE  Len(r) + SlotSize < Word /\ Sized(r) \in {[size |-> Len(s)] : s \in Records}
  BY <1>1 DEF NoneWraps, Sized
<1>2. ASSUME NEW r \in Records, InsertRecord(r)
      PROVE  Heap!Next
  <2>1. Accepts(page, Len(r)) /\ page' = Inserted(page, r)
    BY <1>2 DEF InsertRecord
  <2>2. Heap!Insert(Sized(r))
    BY <1>1, <2>1, SameFits, InsertedRoom DEF Heap!Insert
  <2> QED
    BY <1>1, <2>2 DEF Heap!Next
<1>3. ASSUME NEW i \in SlotIds(page), DeleteRecord(i)
      PROVE  Heap!Next
  <2>1. Live(page, i) /\ page' = Erased(page, i)
    BY <1>3 DEF DeleteRecord
  <2>2. Heap!Delete(i) /\ i \in Heap!LiveSlots(RoomOf(page))
    BY <2>1, ErasedRoom, SameBytes DEF Heap!Delete
  <2> QED
    BY <2>2 DEF Heap!Next
<1>4. ASSUME Compact
      PROVE  Heap!Next
  <2>1. page.slots # <<>> /\ page' = Compacted(page)
    BY <1>4 DEF Compact
  <2>2. RoomOf(page).slots # <<>>
    <3>1. /\ page.slots \in Seq(Slots) /\ RoomOf(page).slots \in Seq([size : Nat])
          /\ Len(RoomOf(page).slots) = Len(page.slots)
      BY RoomFields DEF Sound, Shape
    <3> QED
      BY <2>1, <3>1, EmptySeq
  <2>3. Heap!Compact
    BY <2>1, <2>2, CompactedRoom DEF Heap!Compact
  <2> QED
    BY <2>3 DEF Heap!Next
<1>5. ASSUME NEW i \in SlotIds(page), NEW r \in Records, UpdateInPlace(i, r)
      PROVE  Heap!Next
  <2> DEFINE e == Erased(page, i)
             c == Compacted(e)
  <2>1. /\ Live(page, i) /\ FreeSpace(page) + page.slots[i].size >= Len(r) + SlotSize
        /\ page' = IF Accepts(c, Len(r)) THEN Inserted(c, r) ELSE c
    BY <1>5 DEF UpdateInPlace
  <2>2. Sound(c) /\ Accepts(c, Len(r))
    BY <1>1, <2>1, UpdateFits
  <2>3. Sound(e) /\ Len(e.slots) = Len(page.slots)
    BY ErasedSound
  <2>4. e.slots # <<>>
    <3>1. Len(page.slots) > 0 /\ e.slots \in Seq(Slots)
      BY <2>3, Fields DEF Sound, Shape
    <3> QED
      BY <2>3, <3>1, EmptySeq
  <2>5. RoomOf(c) = Heap!Compacted(Heap!Erased(RoomOf(page), i))
    BY <2>3, <2>4, ErasedRoom, CompactedRoom
  <2>6. RoomOf(page') = Heap!Inserted(RoomOf(c), Sized(r)) /\ Heap!Fits(RoomOf(c), Sized(r))
    BY <1>1, <2>1, <2>2, InsertedRoom, SameFits
  <2>7. Heap!FitsInPlace(RoomOf(page), i, Sized(r))
    BY <2>1, RoomFields DEF Heap!FitsInPlace, RoomOf, Sized
  <2>8. Heap!Update(i, Sized(r)) /\ i \in Heap!LiveSlots(RoomOf(page))
    BY <2>1, <2>5, <2>6, <2>7, SameBytes DEF Heap!Update
  <2> QED
    BY <1>1, <2>8 DEF Heap!Next
<1> QED
  BY <1>2, <1>3, <1>4, <1>5 DEF Next, InsertRefused

\* The page is what HeapTable takes it for: its free bytes are those that slots and
\* live rows leave once it is compacted, and an update that fits in place succeeds.
THEOREM RoomRefinement == ASSUME NoneWraps PROVE Spec => IsHeapPage
<1>1. Init => Heap!Init
  <2> SUFFICES ASSUME Init
               PROVE  RoomOf(page) \in {Heap!FormattedPage, Heap!ZeroPage}
    BY DEF Heap!Init
  <2>1. page.slots = <<>> /\ SlotIds(page) = {}
    BY InitSound DEF SlotIds
  <2>2. FreeSpace(page) = PageSize - HeaderSize \/ FreeSpace(page) = 0
    BY SizeAssumption DEF Init, FreshPage, ZeroPage, FreeSpace
  <2>3. [i \in SlotIds(page) |-> [size |-> page.slots[i].size]] = <<>>
    BY <2>1
  <2> QED
    BY <2>2, <2>3 DEF RoomOf, Heap!FormattedPage, Heap!ZeroPage
<1>2. Sound(page) /\ [Next]_page => [Heap!Next]_(RoomOf(page))
  <2> SUFFICES ASSUME Sound(page), [Next]_page
               PROVE  Heap!Next \/ RoomOf(page') = RoomOf(page)
    BY DEF RoomOf, FreeSpace, SlotIds
  <2>1. CASE Next
    BY <2>1, RoomSteps
  <2>2. CASE UNCHANGED page
    BY <2>2
  <2> QED
    BY <2>1, <2>2
<1> QED
  BY <1>1, <1>2, Invariance, PTL DEF Spec, IsHeapPage, Heap!Spec

\* insertRecord lets a row in exactly when HeapTable expects it to.
THEOREM RoomCounted == ASSUME NoneWraps PROVE Spec => []RoomAgrees
<1>1. Sound(page) => RoomAgrees
  BY SameFits DEF RoomAgrees, NoneWraps, Sized
<1> QED
  BY <1>1, Invariance, PTL
=============================================================================
