--------------------------- MODULE LruListProofs ---------------------------
(***************************************************************************)
(* What the calls of the replacer do to its list, for every pool size and  *)
(* every percentage: the lemmas that the proofs about LruReplacer and      *)
(* BufferPool share.                                                       *)
(***************************************************************************)
EXTENDS LruList, SequenceTheorems, TLAPS

-----------------------------------------------------------------------------
\* Sequences without repetition.

\* The elements of a concatenation are those of its two parts.
LEMMA ToSetConcat ==
    ASSUME NEW S, NEW s \in Seq(S), NEW t \in Seq(S)
    PROVE  ToSet(s \o t) = ToSet(s) \cup ToSet(t)
<1>1. /\ DOMAIN s = 1 .. Len(s) /\ DOMAIN t = 1 .. Len(t)
      /\ Len(s) \in Nat /\ Len(t) \in Nat
      /\ DOMAIN (s \o t) = 1 .. Len(s) + Len(t)
      /\ \A i \in 1 .. Len(s) + Len(t) :
            (s \o t)[i] = IF i <= Len(s) THEN s[i] ELSE t[i - Len(s)]
  BY ConcatProperties, LenProperties
<1>2. ASSUME NEW i \in 1 .. Len(t)
      PROVE  i + Len(s) \in 1 .. Len(s) + Len(t) /\ (s \o t)[i + Len(s)] = t[i]
  BY <1>1
<1>3. ToSet(s) \cup ToSet(t) \subseteq ToSet(s \o t)
  <2>1. ASSUME NEW i \in 1 .. Len(s)
        PROVE  s[i] \in ToSet(s \o t)
    <3>1. i \in 1 .. Len(s) + Len(t) /\ (s \o t)[i] = s[i]
      BY <1>1
    <3> QED
      BY <3>1, <1>1 DEF ToSet
  <2>2. ASSUME NEW i \in 1 .. Len(t)
        PROVE  t[i] \in ToSet(s \o t)
    BY <1>1, <1>2 DEF ToSet
  <2> QED
    BY <2>1, <2>2, <1>1 DEF ToSet
<1>4. ToSet(s \o t) \subseteq ToSet(s) \cup ToSet(t)
  <2> SUFFICES ASSUME NEW i \in 1 .. Len(s) + Len(t)
               PROVE  (s \o t)[i] \in ToSet(s) \cup ToSet(t)
    BY <1>1 DEF ToSet
  <2>1. CASE i <= Len(s)
    BY <2>1, <1>1 DEF ToSet
  <2>2. CASE ~(i <= Len(s))
    <3>1. i - Len(s) \in 1 .. Len(t)
      BY <2>2, <1>1
    <3> QED
      BY <3>1, <2>2, <1>1 DEF ToSet
  <2> QED
    BY <2>1, <2>2
<1> QED
  BY <1>3, <1>4

\* A concatenation repeats nothing when its parts do not and share nothing.
LEMMA DistinctConcat ==
    ASSUME NEW S, NEW s \in Seq(S), NEW t \in Seq(S)
    PROVE  Distinct(s \o t) <=> /\ Distinct(s) /\ Distinct(t)
                                /\ ToSet(s) \cap ToSet(t) = {}
<1>1. /\ DOMAIN s = 1 .. Len(s) /\ DOMAIN t = 1 .. Len(t)
      /\ Len(s) \in Nat /\ Len(t) \in Nat
      /\ DOMAIN (s \o t) = 1 .. Len(s) + Len(t)
      /\ \A i \in 1 .. Len(s) + Len(t) :
            (s \o t)[i] = IF i <= Len(s) THEN s[i] ELSE t[i - Len(s)]
  BY ConcatProperties, LenProperties
<1>2. ASSUME NEW i \in 1 .. Len(t)
      PROVE  i + Len(s) \in 1 .. Len(s) + Len(t) /\ (s \o t)[i + Len(s)] = t[i]
  BY <1>1
<1>3. ASSUME Distinct(s \o t)
      PROVE  Distinct(s) /\ Distinct(t) /\ ToSet(s) \cap ToSet(t) = {}
  <2>1. Distinct(s)
    BY <1>1, <1>3 DEF Distinct
  <2>2. Distinct(t)
    <3> SUFFICES ASSUME NEW i \in 1 .. Len(t), NEW j \in 1 .. Len(t), t[i] = t[j]
                 PROVE  i = j
      BY <1>1 DEF Distinct
    <3>1. i + Len(s) = j + Len(s)
      BY <1>1, <1>2, <1>3 DEF Distinct
    <3> QED
      BY <3>1, <1>1
  <2>3. ASSUME NEW i \in 1 .. Len(s), NEW j \in 1 .. Len(t), s[i] = t[j]
        PROVE  FALSE
    <3>1. i \in 1 .. Len(s) + Len(t) /\ (s \o t)[i] = s[i]
      BY <1>1
    <3>2. (s \o t)[i] = (s \o t)[j + Len(s)]
      BY <3>1, <2>3, <1>2
    <3>3. i = j + Len(s)
      BY <3>1, <3>2, <1>1, <1>2, <1>3 DEF Distinct
    <3> QED
      BY <3>3, <1>1
  <2> QED
    BY <2>1, <2>2, <2>3, <1>1 DEF ToSet
<1>4. ASSUME Distinct(s), Distinct(t), ToSet(s) \cap ToSet(t) = {}
      PROVE  Distinct(s \o t)
  <2> SUFFICES ASSUME NEW i \in 1 .. Len(s) + Len(t), NEW j \in 1 .. Len(s) + Len(t),
                      (s \o t)[i] = (s \o t)[j]
               PROVE  i = j
    BY <1>1 DEF Distinct
  <2>1. CASE i <= Len(s) /\ j <= Len(s)
    BY <2>1, <1>1, <1>4 DEF Distinct
  <2>2. CASE ~(i <= Len(s)) /\ ~(j <= Len(s))
    <3>1. i - Len(s) \in 1 .. Len(t) /\ j - Len(s) \in 1 .. Len(t)
      BY <2>2, <1>1
    <3>2. i - Len(s) = j - Len(s)
      BY <3>1, <2>2, <1>1, <1>4 DEF Distinct
    <3> QED
      BY <3>2, <1>1
  <2>3. CASE i <= Len(s) /\ ~(j <= Len(s))
    <3>1. i \in 1 .. Len(s) /\ j - Len(s) \in 1 .. Len(t)
      BY <2>3, <1>1
    <3>2. s[i] = t[j - Len(s)]
      BY <2>3, <1>1
    <3> QED
      BY <3>1, <3>2, <1>1, <1>4 DEF ToSet
  <2>4. CASE ~(i <= Len(s)) /\ j <= Len(s)
    <3>1. j \in 1 .. Len(s) /\ i - Len(s) \in 1 .. Len(t)
      BY <2>4, <1>1
    <3>2. s[j] = t[i - Len(s)]
      BY <2>4, <1>1
    <3> QED
      BY <3>1, <3>2, <1>1, <1>4 DEF ToSet
  <2> QED
    BY <2>1, <2>2, <2>3, <2>4
<1> QED
  BY <1>3, <1>4

\* A sequence of one element.
LEMMA Singleton ==
    ASSUME NEW S, NEW f \in S
    PROVE  /\ <<f>> \in Seq(S) /\ Len(<<f>>) = 1
           /\ ToSet(<<f>>) = {f} /\ Distinct(<<f>>)
  BY DEF ToSet, Distinct

\* The empty sequence.
LEMMA Nothing ==
    ASSUME NEW S
    PROVE  /\ <<>> \in Seq(S) /\ Len(<<>>) = 0
           /\ ToSet(<<>>) = {} /\ Distinct(<<>>)
  BY DEF ToSet, Distinct

\* A sequence one of whose elements is taken out, position by position.
LEMMA RemoveAtProperties ==
    ASSUME NEW S, NEW s \in Seq(S), NEW p \in 1 .. Len(s)
    PROVE  /\ RemoveAt(s, p) \in Seq(S)
           /\ Len(RemoveAt(s, p)) = Len(s) - 1
           /\ \A j \in 1 .. Len(s) - 1 :
                 RemoveAt(s, p)[j] = IF j < p THEN s[j] ELSE s[j + 1]
<1> DEFINE a == SubSeq(s, 1, p - 1)
           b == SubSeq(s, p + 1, Len(s))
<1>0. Len(s) \in Nat /\ \A i \in 1 .. Len(s) : s[i] \in S
  BY LenProperties, ElementOfSeq
<1>1. /\ a \in Seq(S) /\ Len(a) = p - 1
      /\ \A i \in 1 .. p - 1 : a[i] = s[i]
  <2>1. \A i \in 1 .. p - 1 : s[i] \in S
    BY <1>0
  <2> HIDE DEF a
  <2>2. /\ a \in Seq(S)
        /\ Len(a) = IF 1 <= p - 1 THEN (p - 1) - 1 + 1 ELSE 0
        /\ \A i \in 1 .. (p - 1) - 1 + 1 : a[i] = s[1 + i - 1]
    BY <2>1, <1>0, SubSeqProperties, p - 1 \in Int, 1 \in Int DEF a
  <2> QED
    BY <2>2, <1>0
<1>2. /\ b \in Seq(S) /\ Len(b) = Len(s) - p
      /\ \A i \in 1 .. Len(s) - p : b[i] = s[p + i]
  <2>1. \A i \in p + 1 .. Len(s) : s[i] \in S
    BY <1>0
  <2> HIDE DEF b
  <2>2. /\ b \in Seq(S)
        /\ Len(b) = IF p + 1 <= Len(s) THEN Len(s) - (p + 1) + 1 ELSE 0
        /\ \A i \in 1 .. Len(s) - (p + 1) + 1 : b[i] = s[(p + 1) + i - 1]
    BY <2>1, <1>0, SubSeqProperties, p + 1 \in Int, Len(s) \in Int DEF b
  <2> QED
    BY <2>2, <1>0
<1>3. RemoveAt(s, p) = a \o b
  BY DEF RemoveAt
<1> HIDE DEF a, b
<1>4. /\ a \o b \in Seq(S) /\ Len(a \o b) = Len(a) + Len(b)
      /\ \A i \in 1 .. Len(a) + Len(b) :
            (a \o b)[i] = IF i <= Len(a) THEN a[i] ELSE b[i - Len(a)]
  BY <1>1, <1>2, ConcatProperties
<1>5. ASSUME NEW j \in 1 .. Len(s) - 1
      PROVE  (a \o b)[j] = IF j < p THEN s[j] ELSE s[j + 1]
  <2>1. CASE j < p
    BY <2>1, <1>0, <1>1, <1>2, <1>4
  <2>2. CASE ~(j < p)
    <3>1. /\ j \in 1 .. Len(a) + Len(b) /\ ~(j <= Len(a))
          /\ j - Len(a) \in 1 .. Len(s) - p /\ p + (j - Len(a)) = j + 1
      BY <2>2, <1>0, <1>1, <1>2
    <3>2. (a \o b)[j] = b[j - Len(a)]
      BY <3>1, <1>4
    <3>3. b[j - Len(a)] = s[p + (j - Len(a))]
      BY <3>1, <1>2
    <3> QED
      BY <3>1, <3>2, <3>3, <2>2
  <2> QED
    BY <2>1, <2>2
<1> QED
  BY <1>0, <1>1, <1>2, <1>3, <1>4, <1>5

\* Taking a frame out of a list that has it once.
LEMMA WithoutProperties ==
    ASSUME NEW S, NEW s \in Seq(S), NEW f \in ToSet(s), Distinct(s)
    PROVE  /\ Position(s, f) \in 1 .. Len(s) /\ s[Position(s, f)] = f
           /\ Without(s, f) = RemoveAt(s, Position(s, f))
           /\ Without(s, f) \in Seq(S)
           /\ Len(Without(s, f)) = Len(s) - 1
           /\ Distinct(Without(s, f))
           /\ ToSet(Without(s, f)) = ToSet(s) \ {f}
<1> DEFINE p == Position(s, f)
           w == Without(s, f)
<1>0. DOMAIN s = 1 .. Len(s) /\ Len(s) \in Nat
  BY LenProperties
<1>1. p \in 1 .. Len(s) /\ s[p] = f
  BY <1>0 DEF ToSet, Position
<1>2. w = RemoveAt(s, p)
  BY DEF Without
<1> HIDE DEF p, w
<1>3. /\ w \in Seq(S) /\ Len(w) = Len(s) - 1
      /\ \A j \in 1 .. Len(s) - 1 : w[j] = IF j < p THEN s[j] ELSE s[j + 1]
  BY <1>1, <1>2, RemoveAtProperties
<1>4. DOMAIN w = 1 .. Len(s) - 1
  BY <1>3, LenProperties
<1>5. Distinct(w)
  <2> SUFFICES ASSUME NEW i \in 1 .. Len(s) - 1, NEW j \in 1 .. Len(s) - 1, w[i] = w[j]
               PROVE  i = j
    BY <1>4 DEF Distinct
  <2> DEFINE back(k) == IF k < p THEN k ELSE k + 1
  <2>1. back(i) \in 1 .. Len(s) /\ back(j) \in 1 .. Len(s)
    BY <1>0, <1>1
  <2>2. s[back(i)] = s[back(j)]
    BY <1>3
  <2>3. back(i) = back(j)
    BY <2>1, <2>2, <1>0 DEF Distinct
  <2> QED
    BY <2>3, <1>0, <1>1
<1>6. ToSet(w) \subseteq ToSet(s) \ {f}
  <2> SUFFICES ASSUME NEW j \in 1 .. Len(s) - 1
               PROVE  w[j] \in ToSet(s) /\ w[j] # f
    BY <1>4 DEF ToSet
  <2>1. CASE j < p
    BY <2>1, <1>0, <1>1, <1>3 DEF ToSet, Distinct
  <2>2. CASE ~(j < p)
    <3>1. j + 1 \in 1 .. Len(s) /\ j + 1 # p
      BY <2>2, <1>0, <1>1
    <3> QED
      BY <3>1, <2>2, <1>0, <1>1, <1>3 DEF ToSet, Distinct
  <2> QED
    BY <2>1, <2>2
<1>7. ToSet(s) \ {f} \subseteq ToSet(w)
  <2> SUFFICES ASSUME NEW i \in 1 .. Len(s), s[i] # f
               PROVE  s[i] \in ToSet(w)
    BY <1>0 DEF ToSet
  <2>1. CASE i < p
    BY <2>1, <1>0, <1>1, <1>3, <1>4 DEF ToSet
  <2>2. CASE i > p
    <3>1. i - 1 \in 1 .. Len(s) - 1 /\ ~(i - 1 < p) /\ (i - 1) + 1 = i
      BY <2>2, <1>0, <1>1
    <3>2. w[i - 1] = s[i]
      BY <3>1, <1>3
    <3> QED
      BY <3>1, <3>2, <1>4 DEF ToSet
  <2> QED
    BY <2>1, <2>2, <1>0, <1>1
<1> QED
  BY <1>1, <1>2, <1>3, <1>5, <1>6, <1>7 DEF p, w

-----------------------------------------------------------------------------
\* The calls as functions of the list.

\* What every call finds and leaves: the inductive invariant, on a record.
LruOK(l) ==
    /\ l \in LruRecords
    /\ Distinct(l.young) /\ Distinct(l.old)
    /\ ToSet(l.young) \cap ToSet(l.old) = {}
    /\ Linked(l) \subseteq l.nodes
    /\ l.youngSize = Len(l.young)
    /\ l.oldSize = Len(l.old)

Balanced(l) == l.oldSize > TargetOldSize => l.young = <<>>

\* The target share of the old sublist is a positive number.
LEMMA TargetOldSizeType == TargetOldSize \in Nat \ {0}
<1> DEFINE c == Clamp(OldPct, 5, 95)
<1>1. c \in 5 .. 95
  BY OldPctAssumption DEF Clamp
<1> HIDE DEF c
<1>2. PoolSize * c \in Int
  BY <1>1, PoolSizeAssumption
<1>3. (PoolSize * c) \div 100 \in Int
  BY <1>2
<1> QED
  BY <1>3 DEF TargetOldSize, c

\* Unlinking a linked frame removes it from the list and nothing else.
LEMMA UnlinkOK ==
    ASSUME NEW l, LruOK(l), NEW f \in Linked(l)
    PROVE  /\ LruOK(Unlink(l, f))
           /\ Linked(Unlink(l, f)) = Linked(l) \ {f}
           /\ Unlink(l, f).nodes = l.nodes
           /\ Unlink(l, f).crashed = l.crashed
           /\ f \in ToSet(l.old) => /\ Unlink(l, f).young = l.young
                                    /\ Unlink(l, f).old = Without(l.old, f)
           /\ f \notin ToSet(l.old) => /\ f \in ToSet(l.young)
                                       /\ Unlink(l, f).young = Without(l.young, f)
                                       /\ Unlink(l, f).old = l.old
<1>0. /\ l.young \in Seq(Frames) /\ l.old \in Seq(Frames)
      /\ Len(l.young) \in Nat /\ Len(l.old) \in Nat
  BY LenProperties DEF LruOK, LruRecords
<1>1. CASE f \in ToSet(l.old)
  <2> DEFINE w == Without(l.old, f)
  <2>1. /\ w \in Seq(Frames) /\ Len(w) = Len(l.old) - 1 /\ Len(w) \in Nat
        /\ Distinct(w) /\ ToSet(w) = ToSet(l.old) \ {f}
    BY <1>0, <1>1, WithoutProperties, LenProperties DEF LruOK
  <2> HIDE DEF w
  <2>2. Unlink(l, f) = [l EXCEPT !.old = w, !.oldSize = Len(l.old) - 1]
    BY <1>1 DEF Unlink, w, LruOK
  <2> QED
    BY <1>0, <1>1, <2>1, <2>2 DEF LruOK, LruRecords, Linked, w
<1>2. CASE f \notin ToSet(l.old)
  <2> DEFINE w == Without(l.young, f)
  <2>0. f \in ToSet(l.young)
    BY <1>2 DEF Linked
  <2>1. /\ w \in Seq(Frames) /\ Len(w) = Len(l.young) - 1 /\ Len(w) \in Nat
        /\ Distinct(w) /\ ToSet(w) = ToSet(l.young) \ {f}
    BY <1>0, <2>0, WithoutProperties, LenProperties DEF LruOK
  <2> HIDE DEF w
  <2>2. Unlink(l, f) = [l EXCEPT !.young = w, !.youngSize = Len(l.young) - 1]
    BY <1>2 DEF Unlink, w, LruOK
  <2> QED
    BY <1>0, <1>2, <2>0, <2>1, <2>2 DEF LruOK, LruRecords, Linked, w
<1> QED
  BY <1>1, <1>2

\* Putting a frame at the head of a list that does not have it.
LEMMA PutHead ==
    ASSUME NEW s \in Seq(Frames), Distinct(s), NEW f \in Frames, f \notin ToSet(s)
    PROVE  /\ <<f>> \o s \in Seq(Frames)
           /\ Len(<<f>> \o s) = Len(s) + 1
           /\ Distinct(<<f>> \o s)
           /\ ToSet(<<f>> \o s) = {f} \cup ToSet(s)
<1> DEFINE u == <<f>>
<1>1. u \in Seq(Frames) /\ Len(u) = 1 /\ ToSet(u) = {f} /\ Distinct(u)
  BY Singleton
<1> HIDE DEF u
<1>2. /\ u \o s \in Seq(Frames) /\ Len(u \o s) = Len(u) + Len(s)
  BY <1>1, ConcatProperties
<1>3. ToSet(u \o s) = ToSet(u) \cup ToSet(s)
  BY <1>1, ToSetConcat
<1>4. Distinct(u \o s)
  BY <1>1, <1>3, DistinctConcat
<1>5. Len(s) \in Nat
  BY LenProperties
<1>6. /\ u \o s \in Seq(Frames) /\ Len(u \o s) = Len(s) + 1
      /\ Distinct(u \o s) /\ ToSet(u \o s) = {f} \cup ToSet(s)
  BY <1>1, <1>2, <1>3, <1>4, <1>5
<1> QED
  BY <1>6 DEF u

\* Linking an unlinked frame at the head keeps a sound list sound.
LEMMA PutYoungOK ==
    ASSUME NEW l, LruOK(l), NEW f \in l.nodes, f \notin Linked(l)
    PROVE  /\ LruOK(PutYoung(l, f))
           /\ Linked(PutYoung(l, f)) = Linked(l) \cup {f}
           /\ PutYoung(l, f).young = <<f>> \o l.young
           /\ PutYoung(l, f).old = l.old
           /\ PutYoung(l, f).oldSize = l.oldSize
           /\ PutYoung(l, f).crashed = l.crashed
<1> DEFINE y == <<f>> \o l.young
<1>1. /\ y \in Seq(Frames) /\ Len(y) = Len(l.young) + 1
      /\ Distinct(y) /\ ToSet(y) = {f} \cup ToSet(l.young)
  BY PutHead DEF LruOK, LruRecords, Linked
<1>0. Len(y) \in Nat /\ Len(l.young) \in Nat
  BY <1>1, LenProperties DEF LruOK, LruRecords
<1>2. PutYoung(l, f) = [l EXCEPT !.young = y, !.youngSize = l.youngSize + 1]
  BY DEF PutYoung
<1>3. y = <<f>> \o l.young
  OBVIOUS
<1> HIDE DEF y
<1>4. PutYoung(l, f) \in LruRecords /\ PutYoung(l, f).young = y
  BY <1>0, <1>1, <1>2 DEF LruOK, LruRecords
<1>5. /\ LruOK(PutYoung(l, f)) /\ Linked(PutYoung(l, f)) = Linked(l) \cup {f}
      /\ PutYoung(l, f).old = l.old /\ PutYoung(l, f).oldSize = l.oldSize
      /\ PutYoung(l, f).crashed = l.crashed
  BY <1>1, <1>2, <1>4 DEF LruOK, LruRecords, Linked
<1> QED
  BY <1>3, <1>4, <1>5

\* The list as Unpin leaves it before it rebalances.
PutOld(l, f) == [l EXCEPT !.old = <<f>> \o @, !.oldSize = @ + 1,
                          !.nodes = @ \cup {f}]

\* Linking an unlinked frame at the midpoint keeps a sound list sound.
LEMMA PutOldOK ==
    ASSUME NEW l, LruOK(l), NEW f \in Frames, f \notin l.nodes
    PROVE  /\ LruOK(PutOld(l, f))
           /\ PutOld(l, f).young = l.young
           /\ PutOld(l, f).old = <<f>> \o l.old
<1> DEFINE o == <<f>> \o l.old
<1>1. /\ o \in Seq(Frames) /\ Len(o) = Len(l.old) + 1
      /\ Distinct(o) /\ ToSet(o) = {f} \cup ToSet(l.old)
  BY PutHead DEF LruOK, LruRecords, Linked
<1>0. Len(o) \in Nat /\ Len(l.old) \in Nat
  BY <1>1, LenProperties DEF LruOK, LruRecords
<1>2. PutOld(l, f) = [l EXCEPT !.old = o, !.oldSize = l.oldSize + 1,
                               !.nodes = l.nodes \cup {f}]
  BY DEF PutOld
<1>3. o = <<f>> \o l.old
  OBVIOUS
<1> HIDE DEF o
<1>4. /\ PutOld(l, f).young = l.young /\ PutOld(l, f).old = o
      /\ PutOld(l, f).youngSize = l.youngSize
      /\ PutOld(l, f).oldSize = Len(o)
      /\ PutOld(l, f).nodes = l.nodes \cup {f}
  BY <1>1, <1>2 DEF LruOK, LruRecords
<1>6. o \in Seq(Frames) /\ Len(o) \in Nat /\ l.nodes \cup {f} \in SUBSET Frames
  BY <1>0, <1>1 DEF LruOK, LruRecords
<1>7. l.oldSize + 1 = Len(o)
  BY <1>1 DEF LruOK
<1>8. PutOld(l, f) \in LruRecords
  BY <1>2, <1>6, <1>7 DEF LruOK, LruRecords
<1>5. LruOK(PutOld(l, f))
  BY <1>1, <1>4, <1>8 DEF LruOK, Linked
<1> QED
  BY <1>3, <1>4, <1>5

\* Rebalancing keeps the invariant and the order, and balances.
LEMMA RebalanceOK ==
    ASSUME NEW l, LruOK(l)
    PROVE  /\ LruOK(Rebalance(l))
           /\ Balanced(Rebalance(l))
           /\ EvictionOrder(Rebalance(l)) = EvictionOrder(l)
<1>0. /\ l.young \in Seq(Frames) /\ l.old \in Seq(Frames)
      /\ Len(l.young) \in Nat /\ Len(l.old) \in Nat
  BY LenProperties DEF LruOK, LruRecords
<1>1. CASE l.oldSize > TargetOldSize /\ l.youngSize > 0
  <2> DEFINE y == l.young
             w == l.old
             o == y \o w
             r == Rebalance(l)
  <2>1. /\ y \in Seq(Frames) /\ w \in Seq(Frames)
        /\ Distinct(y) /\ Distinct(w) /\ ToSet(y) \cap ToSet(w) = {}
        /\ l.youngSize = Len(y) /\ l.oldSize = Len(w)
    BY DEF LruOK, LruRecords
  <2>2. r = [l EXCEPT !.young = <<>>, !.old = o, !.youngSize = 0,
                      !.oldSize = Len(w) + Len(y)]
    BY <1>1, <2>1 DEF Rebalance
  <2>3. EvictionOrder(l) = o
    BY DEF EvictionOrder
  <2>4. Linked(l) = ToSet(y) \cup ToSet(w)
    BY DEF Linked
  <2> HIDE DEF y, w, r
  <2>5. /\ o \in Seq(Frames) /\ Len(o) = Len(w) + Len(y)
        /\ ToSet(o) = ToSet(y) \cup ToSet(w)
        /\ Distinct(o)
    BY <2>1, ConcatProperties, ToSetConcat, DistinctConcat, LenProperties
  <2> HIDE DEF o
  <2>6. Len(o) \in Nat
    BY <2>5, LenProperties
  <2>7. /\ <<>> \in Seq(Frames) /\ Len(<<>>) = 0
        /\ ToSet(<<>>) = {} /\ Distinct(<<>>)
    BY Nothing
  <2>8. r = [l EXCEPT !.young = <<>>, !.old = o, !.youngSize = 0, !.oldSize = Len(o)]
    BY <2>2, <2>5
  <2>9. /\ r.young = <<>> /\ r.old = o /\ r.youngSize = 0 /\ r.oldSize = Len(o)
        /\ r.nodes = l.nodes /\ r \in LruRecords
    BY <2>5, <2>6, <2>7, <2>8 DEF LruOK, LruRecords
  <2>10. LruOK(r)
    BY <2>4, <2>5, <2>7, <2>9 DEF LruOK, Linked
  <2>11. EvictionOrder(r) = o
    BY <2>5, <2>9, ConcatEmptySeq DEF EvictionOrder
  <2> QED
    BY <2>3, <2>9, <2>10, <2>11 DEF Balanced, r
<1>2. CASE ~(l.oldSize > TargetOldSize /\ l.youngSize > 0)
  <2>1. Rebalance(l) = l
    BY <1>2 DEF Rebalance
  <2>2. l.youngSize = 0 => l.young = <<>>
    BY <1>0, EmptySeq DEF LruOK
  <2> QED
    BY <1>0, <1>2, <2>1, <2>2 DEF LruOK, Balanced
<1> QED
  BY <1>1, <1>2

\* The list and its two sublists, on which the order of eviction is computed.
LEMMA OrderType ==
    ASSUME NEW l, LruOK(l)
    PROVE  /\ l.young \in Seq(Frames) /\ l.old \in Seq(Frames)
           /\ EvictionOrder(l) \in Seq(Frames)
           /\ Distinct(EvictionOrder(l))
           /\ ToSet(EvictionOrder(l)) = Linked(l)
<1> DEFINE y == l.young
           o == l.old
<1>1. /\ y \in Seq(Frames) /\ o \in Seq(Frames)
      /\ Distinct(y) /\ Distinct(o) /\ ToSet(y) \cap ToSet(o) = {}
  BY DEF LruOK, LruRecords
<1>2. Linked(l) = ToSet(y) \cup ToSet(o) /\ EvictionOrder(l) = y \o o
  BY DEF Linked, EvictionOrder
<1> HIDE DEF y, o
<1>3. y \o o \in Seq(Frames) /\ Distinct(y \o o) /\ ToSet(y \o o) = ToSet(y) \cup ToSet(o)
  BY <1>1, ConcatProperties, DistinctConcat, ToSetConcat
<1> QED
  BY <1>1, <1>2, <1>3 DEF y, o

\* Taking an element out of one part of a concatenation.
LEMMA RemoveAtConcat ==
    ASSUME NEW S, NEW s \in Seq(S), NEW t \in Seq(S)
    PROVE  /\ \A i \in 1 .. Len(s) :
                 /\ i \in 1 .. Len(s \o t) /\ (s \o t)[i] = s[i]
                 /\ RemoveAt(s, i) \o t = RemoveAt(s \o t, i)
           /\ \A i \in 1 .. Len(t) :
                 /\ Len(s) + i \in 1 .. Len(s \o t) /\ (s \o t)[Len(s) + i] = t[i]
                 /\ s \o RemoveAt(t, i) = RemoveAt(s \o t, Len(s) + i)
<1> DEFINE q == s \o t
<1>1. /\ q \in Seq(S) /\ Len(q) = Len(s) + Len(t)
      /\ Len(s) \in Nat /\ Len(t) \in Nat
      /\ \A j \in 1 .. Len(s) + Len(t) :
            q[j] = IF j <= Len(s) THEN s[j] ELSE t[j - Len(s)]
  BY ConcatProperties, LenProperties
<1> HIDE DEF q
<1>2. ASSUME NEW i \in 1 .. Len(s)
      PROVE  i \in 1 .. Len(q) /\ q[i] = s[i] /\ RemoveAt(s, i) \o t = RemoveAt(q, i)
  <2> DEFINE a == RemoveAt(s, i)
             b == RemoveAt(q, i)
  <2>1. i \in 1 .. Len(q) /\ q[i] = s[i]
    BY <1>1
  <2>2. /\ a \in Seq(S) /\ Len(a) = Len(s) - 1
        /\ \A j \in 1 .. Len(s) - 1 : a[j] = IF j < i THEN s[j] ELSE s[j + 1]
    BY RemoveAtProperties
  <2>3. /\ b \in Seq(S) /\ Len(b) = Len(q) - 1
        /\ \A j \in 1 .. Len(q) - 1 : b[j] = IF j < i THEN q[j] ELSE q[j + 1]
    BY <1>1, <2>1, RemoveAtProperties
  <2> HIDE DEF a, b
  <2>4. /\ a \o t \in Seq(S) /\ Len(a \o t) = Len(a) + Len(t)
        /\ \A j \in 1 .. Len(a) + Len(t) :
              (a \o t)[j] = IF j <= Len(a) THEN a[j] ELSE t[j - Len(a)]
    BY <2>2, ConcatProperties
  <2>5. Len(a \o t) = Len(b)
    BY <1>1, <2>2, <2>3, <2>4
  <2>6. ASSUME NEW j \in 1 .. Len(a \o t)
        PROVE  (a \o t)[j] = b[j]
    <3>1. j \in 1 .. Len(s) + Len(t) - 1 /\ j \in 1 .. Len(a) + Len(t) /\ j \in 1 .. Len(q) - 1
      BY <1>1, <2>2, <2>3, <2>4
    <3>2. CASE j < i
      BY <1>1, <2>2, <2>3, <2>4, <3>1, <3>2
    <3>3. CASE ~(j < i) /\ j <= Len(s) - 1
      BY <1>1, <2>2, <2>3, <2>4, <3>1, <3>3
    <3>4. CASE ~(j <= Len(s) - 1)
      <4>1. /\ j + 1 \in 1 .. Len(s) + Len(t) /\ ~(j + 1 <= Len(s)) /\ ~(j < i)
            /\ (j + 1) - Len(s) = j - Len(a) /\ ~(j <= Len(a))
        BY <1>1, <2>2, <3>1, <3>4
      <4>2. b[j] = q[j + 1] /\ q[j + 1] = t[(j + 1) - Len(s)]
        BY <1>1, <2>3, <3>1, <4>1
      <4>3. (a \o t)[j] = t[j - Len(a)]
        BY <2>4, <3>1, <4>1
      <4> QED
        BY <4>1, <4>2, <4>3
    <3> QED
      BY <1>1, <3>1, <3>2, <3>3, <3>4
  <2>7. a \o t = b
    BY <2>3, <2>4, <2>5, <2>6, SeqEqual
  <2> QED
    BY <2>1, <2>7 DEF a, b
<1>3. ASSUME NEW i \in 1 .. Len(t)
      PROVE  /\ Len(s) + i \in 1 .. Len(q) /\ q[Len(s) + i] = t[i]
             /\ s \o RemoveAt(t, i) = RemoveAt(q, Len(s) + i)
  <2> DEFINE a == RemoveAt(t, i)
             b == RemoveAt(q, Len(s) + i)
  <2>1. /\ Len(s) + i \in 1 .. Len(q) /\ ~(Len(s) + i <= Len(s))
        /\ (Len(s) + i) - Len(s) = i
    BY <1>1
  <2>8. q[Len(s) + i] = t[i]
    BY <1>1, <2>1
  <2>2. /\ a \in Seq(S) /\ Len(a) = Len(t) - 1
        /\ \A j \in 1 .. Len(t) - 1 : a[j] = IF j < i THEN t[j] ELSE t[j + 1]
    BY RemoveAtProperties
  <2>3. /\ b \in Seq(S) /\ Len(b) = Len(q) - 1
        /\ \A j \in 1 .. Len(q) - 1 : b[j] = IF j < Len(s) + i THEN q[j] ELSE q[j + 1]
    BY <1>1, <2>1, RemoveAtProperties
  <2> HIDE DEF a, b
  <2>4. /\ s \o a \in Seq(S) /\ Len(s \o a) = Len(s) + Len(a)
        /\ \A j \in 1 .. Len(s) + Len(a) :
              (s \o a)[j] = IF j <= Len(s) THEN s[j] ELSE a[j - Len(s)]
    BY <2>2, ConcatProperties
  <2>5. Len(s \o a) = Len(b)
    BY <1>1, <2>2, <2>3, <2>4
  <2>6. ASSUME NEW j \in 1 .. Len(s \o a)
        PROVE  (s \o a)[j] = b[j]
    <3>1. j \in 1 .. Len(s) + Len(a) /\ j \in 1 .. Len(s) + Len(t) - 1 /\ j \in 1 .. Len(q) - 1
      BY <1>1, <2>2, <2>3, <2>4
    <3>2. CASE j <= Len(s)
      BY <1>1, <2>2, <2>3, <2>4, <3>1, <3>2
    <3>3. CASE ~(j <= Len(s)) /\ j < Len(s) + i
      <4>1. j - Len(s) \in 1 .. Len(t) - 1 /\ j - Len(s) < i
        BY <1>1, <3>1, <3>3
      <4>2. (s \o a)[j] = t[j - Len(s)]
        BY <2>2, <2>4, <3>1, <3>3, <4>1
      <4>3. b[j] = t[j - Len(s)]
        BY <1>1, <2>3, <3>1, <3>3
      <4> QED
        BY <4>2, <4>3
    <3>4. CASE ~(j < Len(s) + i)
      <4>1. /\ j - Len(s) \in 1 .. Len(t) - 1 /\ ~(j - Len(s) < i) /\ ~(j <= Len(s))
            /\ j + 1 \in 1 .. Len(s) + Len(t) /\ ~(j + 1 <= Len(s))
            /\ (j + 1) - Len(s) = (j - Len(s)) + 1
        BY <1>1, <3>1, <3>4
      <4>2. (s \o a)[j] = t[(j - Len(s)) + 1]
        BY <2>2, <2>4, <3>1, <4>1
      <4>3. b[j] = t[(j + 1) - Len(s)]
        BY <1>1, <2>3, <3>1, <3>4, <4>1
      <4> QED
        BY <4>1, <4>2, <4>3
    <3> QED
      BY <1>1, <3>1, <3>2, <3>3, <3>4
  <2>7. s \o a = b
    BY <2>3, <2>4, <2>5, <2>6, SeqEqual
  <2> QED
    BY <2>1, <2>7, <2>8 DEF a, b
<1> QED
  BY <1>2, <1>3 DEF q

\* Unlinking takes one position out of the order of eviction.
LEMMA UnlinkOrder ==
    ASSUME NEW l, LruOK(l), NEW f \in Linked(l)
    PROVE  \E i \in 1 .. Len(EvictionOrder(l)) :
              /\ EvictionOrder(l)[i] = f
              /\ EvictionOrder(Unlink(l, f)) = RemoveAt(EvictionOrder(l), i)
<1> DEFINE y == l.young
           o == l.old
           u == Unlink(l, f)
<1>1. y \in Seq(Frames) /\ o \in Seq(Frames) /\ Distinct(y) /\ Distinct(o)
  BY OrderType DEF LruOK
<1>2. EvictionOrder(l) = y \o o /\ EvictionOrder(u) = u.young \o u.old
  BY DEF EvictionOrder
<1>3. /\ f \in ToSet(o) => u.young = y /\ u.old = Without(o, f)
      /\ f \notin ToSet(o) => f \in ToSet(y) /\ u.young = Without(y, f) /\ u.old = o
  BY UnlinkOK
<1> HIDE DEF y, o, u
<1>4. CASE f \in ToSet(o)
  <2>1. /\ Position(o, f) \in 1 .. Len(o) /\ o[Position(o, f)] = f
        /\ Without(o, f) = RemoveAt(o, Position(o, f))
    BY <1>1, <1>4, WithoutProperties
  <2> DEFINE k == Position(o, f)
  <2> HIDE DEF k
  <2>2. /\ Len(y) + k \in 1 .. Len(y \o o) /\ (y \o o)[Len(y) + k] = o[k]
        /\ y \o RemoveAt(o, k) = RemoveAt(y \o o, Len(y) + k)
    BY <1>1, <2>1, RemoveAtConcat DEF k
  <2>3. EvictionOrder(u) = y \o RemoveAt(o, k)
    BY <1>2, <1>3, <1>4, <2>1 DEF k
  <2>4. o[k] = f
    BY <2>1 DEF k
  <2> QED
    BY <1>2, <2>2, <2>3, <2>4 DEF u
<1>5. CASE f \notin ToSet(o)
  <2>1. /\ Position(y, f) \in 1 .. Len(y) /\ y[Position(y, f)] = f
        /\ Without(y, f) = RemoveAt(y, Position(y, f))
    BY <1>1, <1>3, <1>5, WithoutProperties
  <2> DEFINE k == Position(y, f)
  <2> HIDE DEF k
  <2>2. /\ k \in 1 .. Len(y \o o) /\ (y \o o)[k] = y[k]
        /\ RemoveAt(y, k) \o o = RemoveAt(y \o o, k)
    BY <1>1, <2>1, RemoveAtConcat DEF k
  <2>3. EvictionOrder(u) = RemoveAt(y, k) \o o
    BY <1>2, <1>3, <1>5, <2>1 DEF k
  <2>4. y[k] = f
    BY <2>1 DEF k
  <2> QED
    BY <1>2, <2>2, <2>3, <2>4 DEF u
<1> QED
  BY <1>4, <1>5

\* The last element of the order, the one Evict takes.
LEMMA VictimIsLast ==
    ASSUME NEW l, LruOK(l), HasVictim(l)
    PROVE  /\ Victim(l) \in Linked(l)
           /\ EvictionOrder(l) # <<>>
           /\ Victim(l) = Last(EvictionOrder(l))
           /\ Len(EvictionOrder(l)) \in Nat \ {0}
<1> DEFINE y == l.young
           o == l.old
           q == EvictionOrder(l)
<1>1. /\ y \in Seq(Frames) /\ o \in Seq(Frames) /\ q = y \o o
      /\ q \in Seq(Frames) /\ ToSet(q) = Linked(l) /\ q # <<>>
      /\ Victim(l) = Last(IF o # <<>> THEN o ELSE y)
  BY OrderType DEF EvictionOrder, HasVictim, Victim
<1> HIDE DEF y, o, q
<1>2. /\ Len(q) \in Nat \ {0} /\ Len(y) \in Nat /\ Len(o) \in Nat
      /\ Len(q) = Len(y) + Len(o)
      /\ \A i \in 1 .. Len(y) + Len(o) : q[i] = IF i <= Len(y) THEN y[i] ELSE o[i - Len(y)]
  BY <1>1, EmptySeq, LenProperties, ConcatProperties
<1>3. Last(q) = Victim(l)
  <2>1. CASE o = <<>>
    <3>1. q = y
      BY <1>1, <2>1, ConcatEmptySeq
    <3> QED
      BY <1>1, <2>1, <3>1
  <2>2. CASE o # <<>>
    <3>1. Len(o) \in Nat \ {0}
      BY <1>1, <2>2, EmptySeq
    <3>2. /\ Len(q) \in 1 .. Len(y) + Len(o) /\ ~(Len(q) <= Len(y))
          /\ Len(q) - Len(y) = Len(o)
      BY <1>2, <3>1
    <3>3. q[Len(q)] = o[Len(o)]
      BY <1>2, <3>2
    <3> QED
      BY <1>1, <2>2, <3>3 DEF Last
  <2> QED
    BY <2>1, <2>2
<1>4. Last(q) \in ToSet(q)
  BY <1>1, <1>2, LenProperties DEF Last, ToSet
<1> QED
  BY <1>1, <1>2, <1>3, <1>4 DEF q

\* Unlinking from a balanced list leaves it balanced.
LEMMA UnlinkBalanced ==
    ASSUME NEW l, LruOK(l), Balanced(l), NEW f \in Linked(l)
    PROVE  Balanced(Unlink(l, f))
<1> DEFINE u == Unlink(l, f)
<1>1. /\ LruOK(u)
      /\ f \in ToSet(l.old) => u.young = l.young /\ u.old = Without(l.old, f)
      /\ f \notin ToSet(l.old) => f \in ToSet(l.young) /\ u.old = l.old
  BY UnlinkOK
<1>2. u.oldSize = Len(u.old) /\ l.oldSize = Len(l.old)
  BY <1>1 DEF LruOK
<1>3. CASE f \in ToSet(l.old)
  <2> DEFINE o == l.old
             w == Without(l.old, f)
  <2>1. Len(w) = Len(o) - 1 /\ Len(o) \in Nat
    BY <1>3, WithoutProperties, LenProperties DEF LruOK, LruRecords
  <2>2. u.oldSize = Len(w) /\ l.oldSize = Len(o)
    BY <1>1, <1>2, <1>3
  <2>3. Len(o) > TargetOldSize => l.young = <<>>
    BY <2>2 DEF Balanced
  <2> HIDE DEF o, w, u
  <2>4. Len(w) > TargetOldSize => Len(o) > TargetOldSize
    BY <2>1, TargetOldSizeType
  <2> QED
    BY <1>1, <1>3, <2>2, <2>3, <2>4 DEF Balanced, u
<1>4. CASE f \notin ToSet(l.old)
  <2>1. l.young # <<>>
    BY <1>1, <1>4 DEF ToSet
  <2> QED
    BY <1>1, <1>2, <1>4, <2>1 DEF Balanced
<1> QED
  BY <1>3, <1>4

-----------------------------------------------------------------------------
\* Each call keeps the invariant, and says what it does to the order.

\* Pin keeps a sound list sound, and balanced.
LEMMA PinOK ==
    ASSUME NEW l, LruOK(l), Balanced(l), NEW f \in Frames
    PROVE  LruOK(LruPin(l, f)) /\ Balanced(LruPin(l, f))
<1>1. CASE f \notin l.nodes
  <2>1. LruPin(l, f) = l
    BY <1>1 DEF LruPin, LruOK
  <2> QED
    BY <2>1
<1>2. CASE f \in Linked(l)
  <2>1. LruPin(l, f) = Unlink(l, f)
    BY <1>2 DEF LruPin, LruOK
  <2> QED
    BY <1>2, <2>1, UnlinkOK, UnlinkBalanced
<1>3. CASE f \in l.nodes /\ f \notin Linked(l)
  <2>1. LruPin(l, f) = [l EXCEPT !.crashed = TRUE]
    BY <1>3 DEF LruPin
  <2> QED
    BY <2>1 DEF LruOK, LruRecords, Linked, Balanced, EvictionOrder
<1> QED
  BY <1>1, <1>2, <1>3

\* Unpin keeps a sound list sound, and balanced.
LEMMA UnpinOK ==
    ASSUME NEW l, LruOK(l), Balanced(l), NEW f \in Frames
    PROVE  LruOK(LruUnpin(l, f)) /\ Balanced(LruUnpin(l, f))
<1>1. CASE f \in l.nodes
  BY <1>1 DEF LruUnpin
<1>2. CASE f \notin l.nodes
  <2>1. LruUnpin(l, f) = Rebalance(PutOld(l, f))
    BY <1>2 DEF LruUnpin, PutOld
  <2>2. LruOK(PutOld(l, f))
    BY <1>2, PutOldOK
  <2> QED
    BY <2>1, <2>2, RebalanceOK
<1> QED
  BY <1>1, <1>2

\* Access keeps a sound list sound, and balanced.
LEMMA AccessOK ==
    ASSUME NEW l, LruOK(l), Balanced(l), NEW f \in Frames
    PROVE  /\ LruOK(LruAccess(l, f)) /\ Balanced(LruAccess(l, f))
           /\ f \in Linked(l) =>
                 \E i \in 1 .. Len(EvictionOrder(l)) :
                    /\ EvictionOrder(l)[i] = f
                    /\ EvictionOrder(LruAccess(l, f))
                          = <<f>> \o RemoveAt(EvictionOrder(l), i)
<1> DEFINE u == Unlink(l, f)
           p == PutYoung(u, f)
<1>1. CASE f \notin l.nodes
  <2>1. LruAccess(l, f) = l /\ f \notin Linked(l)
    BY <1>1 DEF LruAccess, LruOK, Linked
  <2> QED
    BY <2>1
<1>2. CASE f \in l.nodes /\ f \notin Linked(l)
  <2>1. LruAccess(l, f) = [l EXCEPT !.crashed = TRUE]
    BY <1>2 DEF LruAccess, Linked
  <2> QED
    BY <1>2, <2>1 DEF LruOK, LruRecords, Linked, Balanced
<1>3. CASE f \in Linked(l)
  <2>1. LruOK(u) /\ f \in u.nodes /\ f \notin Linked(u)
    <3>1. LruOK(u) /\ Linked(u) = Linked(l) \ {f} /\ u.nodes = l.nodes
      BY <1>3, UnlinkOK
    <3>2. f \in l.nodes
      BY <1>3 DEF LruOK
    <3> QED
      BY <3>1, <3>2
  <2>2. /\ LruOK(p) /\ p.young = <<f>> \o u.young /\ p.old = u.old
        /\ p.oldSize = u.oldSize
    BY <2>1, PutYoungOK
  <2>3. EvictionOrder(p) = <<f>> \o EvictionOrder(u)
    <3> DEFINE y == u.young
               o == u.old
    <3>1. /\ y \in Seq(Frames) /\ o \in Seq(Frames) /\ <<f>> \in Seq(Frames)
          /\ EvictionOrder(p) = (<<f>> \o y) \o o /\ EvictionOrder(u) = y \o o
      BY <2>1, <2>2, OrderType, Singleton DEF EvictionOrder
    <3> HIDE DEF y, o, u, p
    <3> QED
      BY <3>1, ConcatAssociative
  <2>4. \E i \in 1 .. Len(EvictionOrder(l)) :
           /\ EvictionOrder(l)[i] = f
           /\ EvictionOrder(p) = <<f>> \o RemoveAt(EvictionOrder(l), i)
    BY <1>3, <2>3, UnlinkOrder
  <2>5. CASE f \in ToSet(l.old)
    <3>1. LruAccess(l, f) = Rebalance(p)
      BY <2>5, <1>3 DEF LruAccess, LruOK
    <3> QED
      BY <3>1, <2>2, <2>4, RebalanceOK
  <2>6. CASE f \notin ToSet(l.old)
    <3>1. f \in ToSet(l.young) /\ u.old = l.old
      BY <1>3, <2>6, UnlinkOK
    <3>2. LruAccess(l, f) = p
      BY <1>3, <2>6, <3>1 DEF LruAccess, LruOK
    <3>3. p.oldSize = l.oldSize
      BY <2>1, <2>2, <3>1 DEF LruOK
    <3>4. ~(l.oldSize > TargetOldSize)
      BY <3>1 DEF Balanced, ToSet
    <3> QED
      BY <2>2, <2>4, <3>2, <3>3, <3>4 DEF Balanced
  <2> QED
    BY <2>5, <2>6
<1> QED
  BY <1>1, <1>2, <1>3 DEF LruOK

\* Evict keeps a sound list sound, and balanced.
LEMMA EvictOK ==
    ASSUME NEW l, LruOK(l), Balanced(l), HasVictim(l)
    PROVE  /\ LruOK(LruEvict(l)) /\ Balanced(LruEvict(l))
           /\ Victim(l) = Last(EvictionOrder(l))
           /\ EvictionOrder(l) # <<>>
           /\ EvictionOrder(LruEvict(l)) = Front(EvictionOrder(l))
<1> DEFINE v == Victim(l)
           u == Unlink(l, v)
           e == LruEvict(l)
           q == EvictionOrder(l)
<1>1. /\ v \in Linked(l) /\ q # <<>> /\ v = Last(q) /\ Len(q) \in Nat \ {0}
      /\ q \in Seq(Frames) /\ Distinct(q)
  BY VictimIsLast, OrderType
<1>2. LruOK(u) /\ Balanced(u) /\ Linked(u) = Linked(l) \ {v} /\ u.nodes = l.nodes
  BY <1>1, UnlinkOK, UnlinkBalanced
<1>3. e = [u EXCEPT !.nodes = u.nodes \ {v}]
  BY DEF LruEvict
<1>4. LruOK(e) /\ Balanced(e) /\ EvictionOrder(e) = EvictionOrder(u)
  <2> HIDE DEF e, u, v
  <2> QED
    BY <1>2, <1>3 DEF LruOK, LruRecords, Linked, Balanced, EvictionOrder
<1>5. PICK i \in 1 .. Len(q) : q[i] = v /\ EvictionOrder(u) = RemoveAt(q, i)
  BY <1>1, UnlinkOrder
<1> HIDE DEF q, v, u, e
<1>6. i = Len(q)
  BY <1>1, <1>5, LenProperties DEF Distinct, Last
<1>7. RemoveAt(q, i) = Front(q)
  <2>1. /\ RemoveAt(q, i) \in Seq(Frames) /\ Len(RemoveAt(q, i)) = Len(q) - 1
        /\ \A j \in 1 .. Len(q) - 1 : RemoveAt(q, i)[j] = IF j < i THEN q[j] ELSE q[j + 1]
    BY <1>1, RemoveAtProperties
  <2>2. \A j \in 1 .. Len(q) - 1 : q[j] \in Frames
    BY <1>1, ElementOfSeq
  <2>3. /\ Front(q) \in Seq(Frames)
        /\ Len(Front(q)) = IF 1 <= Len(q) - 1 THEN (Len(q) - 1) - 1 + 1 ELSE 0
        /\ \A j \in 1 .. (Len(q) - 1) - 1 + 1 : Front(q)[j] = q[1 + j - 1]
    BY <1>1, <2>2, SubSeqProperties, 1 \in Int, Len(q) - 1 \in Int DEF Front
  <2>4. /\ Len(Front(q)) = Len(q) - 1
        /\ \A j \in 1 .. Len(q) - 1 : Front(q)[j] = q[j]
    <3> DEFINE n == Len(q)
               r == Front(q)
    <3>1. /\ n \in Nat \ {0} /\ Len(r) = IF 1 <= n - 1 THEN (n - 1) - 1 + 1 ELSE 0
          /\ \A j \in 1 .. (n - 1) - 1 + 1 : r[j] = q[1 + j - 1]
      BY <1>1, <2>3
    <3> HIDE DEF n, r
    <3>2. /\ (n - 1) - 1 + 1 = n - 1
          /\ \A j \in 1 .. n - 1 : 1 + j - 1 = j
      BY <3>1
    <3>3. Len(r) = n - 1 /\ \A j \in 1 .. n - 1 : r[j] = q[j]
      BY <3>1, <3>2
    <3> QED
      BY <3>3 DEF n, r
  <2>5. \A j \in 1 .. Len(q) - 1 : RemoveAt(q, i)[j] = Front(q)[j]
    BY <1>1, <1>6, <2>1, <2>4
  <2> QED
    BY <1>1, <2>1, <2>3, <2>4, <2>5, SeqEqual
<1> QED
  BY <1>1, <1>4, <1>5, <1>7 DEF q, v, u, e

\* Entering at the midpoint is entering between two positions of the order.
LEMMA MidpointOrder ==
    ASSUME NEW l, LruOK(l), NEW f \in Frames
    PROVE  /\ Len(l.young) \in 0 .. Len(EvictionOrder(l))
           /\ l.young \o (<<f>> \o l.old)
                 = SubSeq(EvictionOrder(l), 1, Len(l.young)) \o <<f>>
                      \o SubSeq(EvictionOrder(l), Len(l.young) + 1, Len(EvictionOrder(l)))
<1> DEFINE s == l.young
           t == l.old
           S == Frames
           q == s \o t
           a == SubSeq(q, 1, Len(s))
           b == SubSeq(q, Len(s) + 1, Len(q))
<1>1. /\ q \in Seq(S) /\ Len(q) = Len(s) + Len(t)
      /\ Len(s) \in Nat /\ Len(t) \in Nat
      /\ \A j \in 1 .. Len(s) + Len(t) :
            q[j] = IF j <= Len(s) THEN s[j] ELSE t[j - Len(s)]
      /\ \A j \in 1 .. Len(s) : s[j] \in S
      /\ \A j \in 1 .. Len(t) : t[j] \in S
  <2>1. s \in Seq(S) /\ t \in Seq(S)
    BY OrderType
  <2> HIDE DEF s, t
  <2> QED
    BY <2>1, ConcatProperties, LenProperties, ElementOfSeq
<1>0. q = EvictionOrder(l) /\ s \in Seq(S) /\ t \in Seq(S)
  BY OrderType DEF EvictionOrder
<1> HIDE DEF q, s, t
<1>2. a = s
  <2>1. \A j \in 1 .. Len(s) : q[j] \in S /\ q[j] = s[j]
    BY <1>1
  <2>2. /\ a \in Seq(S) /\ Len(a) = IF 1 <= Len(s) THEN Len(s) - 1 + 1 ELSE 0
        /\ \A j \in 1 .. Len(s) - 1 + 1 : a[j] = q[1 + j - 1]
    BY <1>1, <2>1, SubSeqProperties, 1 \in Int, Len(s) \in Int
  <2> HIDE DEF a
  <2>3. Len(a) = Len(s) /\ \A j \in 1 .. Len(s) : a[j] = s[j]
    BY <1>1, <2>1, <2>2
  <2> QED
    BY <1>0, <2>2, <2>3, SeqEqual
<1>3. b = t
  <2>1. \A j \in Len(s) + 1 .. Len(q) : q[j] \in S /\ q[j] = t[j - Len(s)]
    BY <1>1
  <2>2. /\ b \in Seq(S)
        /\ Len(b) = IF Len(s) + 1 <= Len(q) THEN Len(q) - (Len(s) + 1) + 1 ELSE 0
        /\ \A j \in 1 .. Len(q) - (Len(s) + 1) + 1 : b[j] = q[(Len(s) + 1) + j - 1]
    BY <1>1, <2>1, SubSeqProperties, Len(s) + 1 \in Int, Len(q) \in Int
  <2> HIDE DEF b
  <2>3. Len(b) = Len(t)
    BY <1>1, <2>2
  <2>4. ASSUME NEW j \in 1 .. Len(t)
        PROVE  b[j] = t[j]
    <3>1. /\ j \in 1 .. Len(q) - (Len(s) + 1) + 1
          /\ (Len(s) + 1) + j - 1 \in Len(s) + 1 .. Len(q)
          /\ ((Len(s) + 1) + j - 1) - Len(s) = j
      BY <1>1
    <3> QED
      BY <2>1, <2>2, <3>1
  <2> QED
    BY <1>0, <2>2, <2>3, <2>4, SeqEqual
<1>4. s \o (<<f>> \o t) = (s \o <<f>>) \o t
  BY <1>0, ConcatAssociative, Singleton
<1>5. Len(s) \in 0 .. Len(q)
  BY <1>1
<1> HIDE DEF a, b
<1>6. s \o (<<f>> \o t) = a \o <<f>> \o b
  BY <1>2, <1>3, <1>4
<1> QED
  BY <1>0, <1>5, <1>6 DEF a, b, s, t

-----------------------------------------------------------------------------
\* The frames a call strands, and what a call does to them.

\* Frames that have a node and no place in the list.
Stranded(l) == l.nodes \ Linked(l)

\* Rebalancing moves frames within the list only.
LEMMA RebalanceKeeps ==
    ASSUME NEW l, LruOK(l)
    PROVE  /\ Rebalance(l).nodes = l.nodes /\ Rebalance(l).crashed = l.crashed
           /\ Linked(Rebalance(l)) = Linked(l)
<1> DEFINE r == Rebalance(l)
<1>1. LruOK(r) /\ EvictionOrder(r) = EvictionOrder(l)
  BY RebalanceOK
<1>2. r.nodes = l.nodes /\ r.crashed = l.crashed
  <2>1. CASE l.oldSize > TargetOldSize /\ l.youngSize > 0
    BY <2>1 DEF Rebalance, LruOK, LruRecords
  <2>2. CASE ~(l.oldSize > TargetOldSize /\ l.youngSize > 0)
    BY <2>2 DEF Rebalance
  <2> QED
    BY <2>1, <2>2
<1> HIDE DEF r
<1>3. Linked(r) = Linked(l)
  BY <1>1, OrderType
<1> QED
  BY <1>2, <1>3 DEF r

\* A call that follows a null link changes nothing else.
LEMMA CrashKeeps ==
    ASSUME NEW l, LruOK(l), NEW k, k = [l EXCEPT !.crashed = TRUE]
    PROVE  EvictionOrder(k) = EvictionOrder(l) /\ Stranded(k) = Stranded(l) /\ k.crashed
  BY DEF EvictionOrder, Stranded, Linked, LruOK, LruRecords

\* Pin strands the frame it takes out of the list.
LEMMA PinStrands ==
    ASSUME NEW l, LruOK(l), NEW f \in Frames
    PROVE  /\ f \in Linked(l) =>
                 /\ \E i \in 1 .. Len(EvictionOrder(l)) :
                       /\ EvictionOrder(l)[i] = f
                       /\ EvictionOrder(LruPin(l, f)) = RemoveAt(EvictionOrder(l), i)
                 /\ Stranded(LruPin(l, f)) = Stranded(l) \cup {f}
                 /\ LruPin(l, f).crashed = l.crashed
           /\ f \notin Linked(l) /\ f \notin Stranded(l) => LruPin(l, f) = l
           /\ f \in Stranded(l) => LruPin(l, f) = [l EXCEPT !.crashed = TRUE]
<1>1. CASE f \in Linked(l)
  <2>1. LruPin(l, f) = Unlink(l, f)
    BY <1>1 DEF LruPin, LruOK
  <2>2. f \in l.nodes
    BY <1>1 DEF LruOK
  <2> QED
    BY <1>1, <2>1, <2>2, UnlinkOK, UnlinkOrder DEF Stranded
<1>2. CASE f \notin Linked(l)
  BY <1>2 DEF LruPin, Stranded
<1> QED
  BY <1>1, <1>2

\* Unpin neither strands a frame nor takes a stranded one back.
LEMMA UnpinStrands ==
    ASSUME NEW l, LruOK(l), Balanced(l), NEW f \in Frames
    PROVE  /\ f \in Linked(l) \/ f \in Stranded(l) => LruUnpin(l, f) = l
           /\ f \notin Linked(l) /\ f \notin Stranded(l) =>
                 /\ EvictionOrder(LruUnpin(l, f)) = l.young \o (<<f>> \o l.old)
                 /\ Stranded(LruUnpin(l, f)) = Stranded(l)
                 /\ LruUnpin(l, f).crashed = l.crashed
<1>1. CASE f \in l.nodes
  BY <1>1 DEF LruUnpin, Stranded, LruOK
<1>2. CASE f \notin l.nodes
  <2> DEFINE p == PutOld(l, f)
  <2>1. LruUnpin(l, f) = Rebalance(p)
    BY <1>2 DEF LruUnpin, PutOld
  <2>2. LruOK(p) /\ p.young = l.young /\ p.old = <<f>> \o l.old
    BY <1>2, PutOldOK
  <2>3. p.nodes = l.nodes \cup {f} /\ p.crashed = l.crashed
    BY DEF PutOld, LruOK, LruRecords
  <2>4. f \notin Linked(l)
    BY <1>2 DEF LruOK
  <2>5. Linked(p) = Linked(l) \cup {f}
    BY <2>2, <2>4, PutHead DEF LruOK, LruRecords, Linked
  <2>6. EvictionOrder(p) = l.young \o (<<f>> \o l.old)
    BY <2>2 DEF EvictionOrder
  <2> HIDE DEF p
  <2>7. /\ EvictionOrder(Rebalance(p)) = EvictionOrder(p)
        /\ Stranded(Rebalance(p)) = Stranded(p)
        /\ Rebalance(p).crashed = p.crashed
    BY <2>2, RebalanceOK, RebalanceKeeps DEF Stranded
  <2> QED
    BY <1>2, <2>1, <2>3, <2>4, <2>5, <2>6, <2>7 DEF Stranded
<1> QED
  BY <1>1, <1>2

\* Access strands no frame.
LEMMA AccessStrands ==
    ASSUME NEW l, LruOK(l), Balanced(l), NEW f \in Frames
    PROVE  /\ f \in Linked(l) =>
                 /\ \E i \in 1 .. Len(EvictionOrder(l)) :
                       /\ EvictionOrder(l)[i] = f
                       /\ EvictionOrder(LruAccess(l, f))
                             = <<f>> \o RemoveAt(EvictionOrder(l), i)
                 /\ Stranded(LruAccess(l, f)) = Stranded(l)
                 /\ LruAccess(l, f).crashed = l.crashed
           /\ f \notin Linked(l) /\ f \notin Stranded(l) => LruAccess(l, f) = l
           /\ f \in Stranded(l) => LruAccess(l, f) = [l EXCEPT !.crashed = TRUE]
<1>1. CASE f \notin Linked(l)
  BY <1>1 DEF LruAccess, Stranded, Linked
<1>2. CASE f \in Linked(l)
  <2> DEFINE u == Unlink(l, f)
             p == PutYoung(u, f)
  <2>1. /\ LruOK(u) /\ Linked(u) = Linked(l) \ {f} /\ u.nodes = l.nodes
        /\ u.crashed = l.crashed /\ f \in l.nodes
    BY <1>2, UnlinkOK DEF LruOK
  <2> HIDE DEF u
  <2>2. LruOK(p) /\ Linked(p) = Linked(u) \cup {f} /\ p.crashed = u.crashed
    BY <2>1, PutYoungOK
  <2>3. p.nodes = u.nodes
    BY <2>1 DEF PutYoung, LruOK, LruRecords
  <2>4. Linked(p) = Linked(l) /\ p.nodes = l.nodes /\ p.crashed = l.crashed
    BY <1>2, <2>1, <2>2, <2>3
  <2>5. LruAccess(l, f) = Rebalance(p) \/ LruAccess(l, f) = p
    BY <1>2, <2>1 DEF LruAccess, Linked, u
  <2> HIDE DEF p
  <2>6. /\ Stranded(LruAccess(l, f)) = Stranded(l)
        /\ LruAccess(l, f).crashed = l.crashed
    BY <2>2, <2>4, <2>5, RebalanceKeeps DEF Stranded
  <2> QED
    BY <1>2, <2>6, AccessOK DEF Stranded
<1> QED
  BY <1>1, <1>2

\* Evict strands no frame.
LEMMA EvictStrands ==
    ASSUME NEW l, LruOK(l), HasVictim(l)
    PROVE  Stranded(LruEvict(l)) = Stranded(l) /\ LruEvict(l).crashed = l.crashed
<1> DEFINE v == Victim(l)
           u == Unlink(l, v)
           e == LruEvict(l)
<1>1. v \in Linked(l)
  BY VictimIsLast
<1>2. /\ LruOK(u) /\ Linked(u) = Linked(l) \ {v} /\ u.nodes = l.nodes
      /\ u.crashed = l.crashed
  BY <1>1, UnlinkOK
<1>3. e = [u EXCEPT !.nodes = u.nodes \ {v}]
  BY DEF LruEvict
<1> HIDE DEF e, u, v
<1>4. e.nodes = l.nodes \ {v} /\ e.crashed = l.crashed /\ Linked(e) = Linked(u)
  BY <1>2, <1>3 DEF LruOK, LruRecords, Linked
<1> QED
  BY <1>1, <1>2, <1>4 DEF Stranded, e

-----------------------------------------------------------------------------
\* The list as the buffer pool keeps it.

\* Every frame with a node is linked, and no null link was ever followed.
Tidy(l) == LruOK(l) /\ Balanced(l) /\ l.nodes = Linked(l) /\ ~l.crashed

\* The empty list is tidy.
LEMMA TidyEmpty == Tidy(EmptyLru) /\ Linked(EmptyLru) = {}
<1>1. /\ <<>> \in Seq(Frames) /\ Len(<<>>) = 0
      /\ ToSet(<<>>) = {} /\ Distinct(<<>>)
  BY Nothing
<1>2. EmptyLru \in LruRecords
  BY <1>1 DEF EmptyLru, LruRecords
<1> QED
  BY <1>1, <1>2 DEF Tidy, LruOK, Balanced, Linked, EmptyLru

\* Rebalancing moves frames within the list only.
LEMMA TidyRebalance ==
    ASSUME NEW l, LruOK(l), l.nodes = Linked(l), ~l.crashed
    PROVE  Tidy(Rebalance(l)) /\ Linked(Rebalance(l)) = Linked(l)
  BY RebalanceOK, RebalanceKeeps DEF Tidy

\* Pin of a frame that is not linked does nothing.
LEMMA TidyPin ==
    ASSUME NEW l, Tidy(l), NEW f, f \notin Linked(l)
    PROVE  LruPin(l, f) = l
BY DEF Tidy, LruPin

\* Unpin links the frame.
LEMMA TidyUnpin ==
    ASSUME NEW l, Tidy(l), NEW f \in Frames
    PROVE  Tidy(LruUnpin(l, f)) /\ Linked(LruUnpin(l, f)) = Linked(l) \cup {f}
<1>1. CASE f \in l.nodes
  BY <1>1 DEF LruUnpin, Tidy
<1>2. CASE f \notin l.nodes
  <2> DEFINE p == PutOld(l, f)
  <2>1. LruUnpin(l, f) = Rebalance(p)
    BY <1>2 DEF LruUnpin, PutOld
  <2>2. LruOK(p) /\ p.young = l.young /\ p.old = <<f>> \o l.old
    BY <1>2, PutOldOK DEF Tidy
  <2>3. p.nodes = l.nodes \cup {f} /\ p.crashed = l.crashed
    BY DEF PutOld, Tidy, LruOK, LruRecords
  <2>4. Linked(p) = Linked(l) \cup {f}
    BY <1>2, <2>2, PutHead DEF Tidy, LruOK, LruRecords, Linked
  <2> HIDE DEF p
  <2> QED
    BY <2>1, <2>2, <2>3, <2>4, TidyRebalance DEF Tidy
<1> QED
  BY <1>1, <1>2

\* Access of a frame, linked or not, leaves the linked frames linked.
LEMMA TidyAccess ==
    ASSUME NEW l, Tidy(l), NEW f \in Frames
    PROVE  Tidy(LruAccess(l, f)) /\ Linked(LruAccess(l, f)) = Linked(l)
<1>1. CASE f \notin l.nodes
  BY <1>1 DEF LruAccess, Tidy, Linked
<1>2. CASE f \in l.nodes
  <2> DEFINE u == Unlink(l, f)
             p == PutYoung(u, f)
  <2>1. /\ LruOK(u) /\ Linked(u) = Linked(l) \ {f} /\ u.nodes = l.nodes
        /\ u.crashed = l.crashed
    BY <1>2, UnlinkOK DEF Tidy
  <2>2. f \in u.nodes /\ f \notin Linked(u)
    BY <1>2, <2>1
  <2> HIDE DEF u
  <2>3. LruOK(p) /\ Linked(p) = Linked(u) \cup {f} /\ p.crashed = u.crashed
    BY <2>1, <2>2, PutYoungOK
  <2>4. p.nodes = u.nodes
    BY <2>1 DEF PutYoung, LruOK, LruRecords
  <2>5. Linked(p) = Linked(l)
    BY <1>2, <2>1, <2>3 DEF Tidy
  <2>6. Tidy(Rebalance(p)) /\ Linked(Rebalance(p)) = Linked(l)
    <3> HIDE DEF p
    <3> QED
      BY <2>1, <2>3, <2>4, <2>5, TidyRebalance DEF Tidy
  <2>7. LruOK(LruAccess(l, f)) /\ Balanced(LruAccess(l, f))
    BY AccessOK DEF Tidy
  <2>8. LruAccess(l, f) = Rebalance(p) \/ LruAccess(l, f) = p
    BY <1>2 DEF LruAccess, Tidy, Linked, u
  <2> HIDE DEF p
  <2> QED
    BY <2>1, <2>3, <2>4, <2>5, <2>6, <2>7, <2>8 DEF Tidy
<1> QED
  BY <1>1, <1>2

\* Evict takes the victim from the list.
LEMMA TidyEvict ==
    ASSUME NEW l, Tidy(l), HasVictim(l)
    PROVE  /\ Victim(l) \in Linked(l)
           /\ Tidy(LruEvict(l)) /\ Linked(LruEvict(l)) = Linked(l) \ {Victim(l)}
<1> DEFINE v == Victim(l)
           u == Unlink(l, v)
           e == LruEvict(l)
<1>1. v \in Linked(l)
  BY VictimIsLast DEF Tidy
<1>2. /\ LruOK(u) /\ Linked(u) = Linked(l) \ {v} /\ u.nodes = l.nodes
      /\ u.crashed = l.crashed
  BY <1>1, UnlinkOK DEF Tidy
<1>3. e = [u EXCEPT !.nodes = u.nodes \ {v}]
  BY DEF LruEvict
<1>4. LruOK(e) /\ Balanced(e)
  BY EvictOK DEF Tidy
<1> HIDE DEF e, u, v
<1>5. e.nodes = l.nodes \ {v} /\ e.crashed = l.crashed /\ Linked(e) = Linked(u)
  BY <1>2, <1>3 DEF LruOK, LruRecords, Linked
<1> QED
  BY <1>1, <1>2, <1>4, <1>5 DEF Tidy, e, v
=============================================================================
