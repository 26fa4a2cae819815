--------------------------- MODULE SqlOrderProofs ---------------------------
(***************************************************************************)
(* What sorting, grouping and DISTINCT rely on, for all values: the        *)
(* comparator of ORDER BY is a strict weak order, equality an equivalence, *)
(* and the two agree on what is the same.  A NaN is none of these values:  *)
(* it is equal to nothing and below nothing.                               *)
(*                                                                         *)
(* Both orders of the module, of strings and of rows, are decided at the   *)
(* first place where the two sides differ; the lemmas FirstDifference and  *)
(* Decided bring them to that form.                                        *)
(***************************************************************************)
EXTENDS SqlOrder, WellFoundedInduction, SequenceTheorems, TLAPS

-----------------------------------------------------------------------------
\* Values.

Characters == {Alphabet[i] : i \in DOMAIN Alphabet}
Fractions  == [n : Int, d : Nat \ {0}]

\* The values the code builds, NaN apart.
Values ==
  {Null} \cup (IntegerTypes \X Int) \cup ({"FLOAT", "DOUBLE"} \X Fractions)
         \cup ({"VARCHAR"} \X Seq(Characters)) \cup ({"BOOLEAN"} \X BOOLEAN)

\* A value has one of the types, and its payload is of it.
LEMMA ValueCases ==
    ASSUME NEW v \in Values
    PROVE  \/ typeId(v) = "SQL_NULL" /\ payload(v) = 0
           \/ typeId(v) \in IntegerTypes /\ payload(v) \in Int
           \/ typeId(v) \in {"FLOAT", "DOUBLE"} /\ payload(v) \in Fractions
           \/ typeId(v) = "VARCHAR" /\ payload(v) \in Seq(Characters)
           \/ typeId(v) = "BOOLEAN" /\ payload(v) \in BOOLEAN
<1>1. CASE v = Null
  BY <1>1 DEF Null, typeId, payload
<1>2. CASE v \in IntegerTypes \X Int
  BY <1>2 DEF typeId, payload
<1>3. CASE v \in {"FLOAT", "DOUBLE"} \X Fractions
  BY <1>3 DEF typeId, payload
<1>4. CASE v \in {"VARCHAR"} \X Seq(Characters)
  BY <1>4 DEF typeId, payload
<1>5. CASE v \in {"BOOLEAN"} \X BOOLEAN
  BY <1>5 DEF typeId, payload
<1> QED
  BY <1>1, <1>2, <1>3, <1>4, <1>5 DEF Values

-----------------------------------------------------------------------------
\* Strings.

\* A set of numbers has a least one.
LEMMA LeastIs ==
    ASSUME NEW S, S \subseteq Nat, S # {}
    PROVE  \E x \in S : \A y \in S : x <= y
<1> DEFINE R == {pair \in Nat \X Nat : pair[1] < pair[2]}
<1>1. IsWellFoundedOn(R, Nat)
  BY NatLessThanWellFounded DEF OpToRel
<1> HIDE DEF R
<1>2. PICK x \in S : \A y \in S : ~(<<y, x>> \in R)
  BY <1>1, WFMin
<1>3. ASSUME NEW y \in S
      PROVE  x <= y
  <2>1. x \in Nat /\ y \in Nat /\ ~(<<y, x>> \in R)
    BY <1>2
  <2>2. y < x => <<y, x>> \in R
    BY <2>1 DEF R
  <2> QED
    BY <2>1, <2>2
<1> QED
  BY <1>3

\* Different characters have different codes.
LEMMA Codes ==
    /\ \A c \in Characters : Code[c] \in Nat
    /\ \A c, e \in Characters : Code[c] = Code[e] => c = e
<1>1. DOMAIN Alphabet \subseteq Nat
  BY DEF Alphabet
<1> HIDE DEF Alphabet
<1>2. ASSUME NEW c \in Characters
      PROVE  Code[c] \in DOMAIN Alphabet /\ Alphabet[Code[c]] = c
  <2>1. \E i \in DOMAIN Alphabet : Alphabet[i] = c
    BY DEF Characters
  <2>2. Code[c] = CHOOSE i \in DOMAIN Alphabet : Alphabet[i] = c
    BY DEF Code, Characters
  <2> QED
    BY <2>1, <2>2
<1> QED
  BY <1>1, <1>2

\* s is a proper prefix of r, or has the lower character where they first differ.
BelowAt(s, r, k) ==
  /\ k \in 1 .. Len(r) /\ k <= Len(s) + 1
  /\ \A i \in 1 .. k - 1 : s[i] = r[i]
  /\ k = Len(s) + 1 \/ Code[s[k]] < Code[r[k]]

LEMMA StringLessAt ==
    ASSUME NEW s, NEW r PROVE StringLess(s, r) <=> \E k \in Nat : BelowAt(s, r, k)
BY DEF StringLess, BelowAt

\* Strings are the same or differ in a first place.
LEMMA FirstDifference ==
    ASSUME NEW s \in Seq(Characters), NEW r \in Seq(Characters), s # r
    PROVE  \E k \in Nat : BelowAt(s, r, k) \/ BelowAt(r, s, k)
<1>1. /\ Len(s) \in Nat /\ Len(r) \in Nat
      /\ \A i \in 1 .. Len(s) : s[i] \in Characters
      /\ \A i \in 1 .. Len(r) : r[i] \in Characters
  BY LenProperties, ElementOfSeq
<1> DEFINE D == {k \in Nat : /\ k >= 1
                             /\ \/ k = Len(s) + 1 /\ k <= Len(r)
                                \/ k = Len(r) + 1 /\ k <= Len(s)
                                \/ k <= Len(s) /\ k <= Len(r) /\ s[k] # r[k]}
<1>2. D # {}
  <2>1. CASE Len(s) = Len(r)
    <3>1. PICK i \in 1 .. Len(s) : s[i] # r[i]
      BY <2>1, SeqEqual
    <3> QED
      BY <1>1, <2>1, <3>1
  <2>2. CASE Len(s) < Len(r)
    <3>1. Len(s) + 1 \in D
      BY <1>1, <2>2
    <3> QED
      BY <3>1
  <2>3. CASE Len(r) < Len(s)
    <3>1. Len(r) + 1 \in D
      BY <1>1, <2>3
    <3> QED
      BY <3>1
  <2> QED
    BY <1>1, <2>1, <2>2, <2>3
<1>3. PICK k \in D : \A j \in D : k <= j
  BY <1>2, LeastIs
<1>4. ASSUME NEW i \in 1 .. k - 1
      PROVE  s[i] = r[i]
  <2>1. i \in Nat /\ i >= 1 /\ i < k /\ i \notin D
    BY <1>3
  <2>2. i <= Len(s) /\ i <= Len(r)
    BY <1>1, <1>3, <2>1
  <2> QED
    BY <2>1, <2>2
<1>5. CASE k = Len(s) + 1 /\ k <= Len(r)
  BY <1>1, <1>4, <1>5 DEF BelowAt
<1>6. CASE k = Len(r) + 1 /\ k <= Len(s)
  BY <1>1, <1>4, <1>6 DEF BelowAt
<1>7. CASE k <= Len(s) /\ k <= Len(r) /\ s[k] # r[k]
  <2>1. s[k] \in Characters /\ r[k] \in Characters
    BY <1>1, <1>7
  <2>2. Code[s[k]] < Code[r[k]] \/ Code[r[k]] < Code[s[k]]
    BY <1>7, <2>1, Codes
  <2>3. k \in Nat /\ k >= 1 /\ k \in 1 .. Len(s) /\ k \in 1 .. Len(r)
    BY <1>1, <1>7
  <2>4. k <= Len(s) + 1 /\ k <= Len(r) + 1
    BY <1>1, <2>3
  <2> QED
    BY <1>4, <2>2, <2>3, <2>4 DEF BelowAt
<1> QED
  BY <1>3, <1>5, <1>6, <1>7

\* std::string's order is total.
LEMMA StringOrder ==
    /\ \A s \in Seq(Characters) : ~StringLess(s, s)
    /\ \A s, r \in Seq(Characters) : s = r \/ StringLess(s, r) \/ StringLess(r, s)
    /\ \A s, r, q \in Seq(Characters) : StringLess(s, r) /\ StringLess(r, q) => StringLess(s, q)
<1>1. ASSUME NEW s \in Seq(Characters)
      PROVE  /\ Len(s) \in Nat
             /\ \A i \in 1 .. Len(s) : s[i] \in Characters /\ Code[s[i]] \in Nat
  BY Codes, LenProperties, ElementOfSeq
<1>2. ASSUME NEW s \in Seq(Characters)
      PROVE  ~StringLess(s, s)
  BY <1>1, StringLessAt DEF BelowAt
<1>3. ASSUME NEW s \in Seq(Characters), NEW r \in Seq(Characters)
      PROVE  s = r \/ StringLess(s, r) \/ StringLess(r, s)
  BY FirstDifference, StringLessAt
<1>4. ASSUME NEW s \in Seq(Characters), NEW r \in Seq(Characters), NEW q \in Seq(Characters),
             StringLess(s, r), StringLess(r, q)
      PROVE  StringLess(s, q)
  <2>1. PICK j \in Nat : BelowAt(s, r, j)
    BY <1>4, StringLessAt
  <2>2. PICK k \in Nat : BelowAt(r, q, k)
    BY <1>4, StringLessAt
  <2>3. Len(s) \in Nat /\ Len(r) \in Nat /\ Len(q) \in Nat
    BY <1>1
  <2>4. CASE j < k
    <3>1. j \in 1 .. Len(q) /\ j <= Len(s) + 1 /\ r[j] = q[j]
      BY <2>1, <2>2, <2>3, <2>4 DEF BelowAt
    <3>2. \A i \in 1 .. j - 1 : s[i] = q[i]
      BY <2>1, <2>2, <2>3, <2>4 DEF BelowAt
    <3>3. j = Len(s) + 1 \/ Code[s[j]] < Code[q[j]]
      BY <2>1, <3>1 DEF BelowAt
    <3> QED
      BY <3>1, <3>2, <3>3, StringLessAt DEF BelowAt
  <2>5. CASE j = k
    <3>1. j \in 1 .. Len(q) /\ j <= Len(s) + 1 /\ j \in 1 .. Len(r)
      BY <2>1, <2>2, <2>5 DEF BelowAt
    <3>2. \A i \in 1 .. j - 1 : s[i] = q[i]
      BY <2>1, <2>2, <2>5 DEF BelowAt
    <3>3. j = Len(s) + 1 \/ Code[s[j]] < Code[q[j]]
      <4> SUFFICES ASSUME j # Len(s) + 1
                   PROVE  Code[s[j]] < Code[q[j]]
        OBVIOUS
      <4>1. Code[s[j]] < Code[r[j]] /\ Code[r[j]] < Code[q[j]]
        BY <2>1, <2>2, <2>3, <2>5, <3>1 DEF BelowAt
      <4>2. Code[s[j]] \in Nat /\ Code[r[j]] \in Nat /\ Code[q[j]] \in Nat
        BY <1>1, <2>3, <3>1
      <4> QED
        BY <4>1, <4>2
    <3> QED
      BY <3>1, <3>2, <3>3, StringLessAt DEF BelowAt
  <2>6. CASE k < j
    <3>1. k \in 1 .. Len(q) /\ k <= Len(s) + 1 /\ s[k] = r[k] /\ k # Len(r) + 1 /\ k # Len(s) + 1
      BY <2>1, <2>2, <2>3, <2>6 DEF BelowAt
    <3>2. \A i \in 1 .. k - 1 : s[i] = q[i]
      BY <2>1, <2>2, <2>3, <2>6 DEF BelowAt
    <3>3. Code[s[k]] < Code[q[k]]
      BY <2>2, <3>1 DEF BelowAt
    <3> QED
      BY <3>1, <3>2, <3>3, StringLessAt DEF BelowAt
  <2> QED
    BY <2>1, <2>2, <2>4, <2>5, <2>6
<1> QED
  BY <1>2, <1>3, <1>4

-----------------------------------------------------------------------------
\* Fractions.

LEMMA Cancelled ==
    ASSUME NEW a \in Int, NEW b \in Int, NEW c \in Nat \ {0}
    PROVE  (a < b <=> a * c < b * c) /\ (a = b <=> a * c = b * c)
<1>1. a < b => a * c < b * c
  OBVIOUS
<1>2. b < a => b * c < a * c
  OBVIOUS
<1>3. a * c \in Int /\ b * c \in Int
  OBVIOUS
<1> QED
  BY <1>1, <1>2, <1>3

\* a/b, c/d and e/f.
LEMMA Crosswise ==
    ASSUME NEW a \in Int, NEW b \in Nat \ {0}, NEW c \in Int, NEW d \in Nat \ {0},
           NEW e \in Int, NEW f \in Nat \ {0}
    PROVE  /\ a * d < c * b /\ c * f < e * d => a * f < e * b
           /\ a * d = c * b /\ c * f = e * d => a * f = e * b
<1>1. /\ (a * d) * f = (a * f) * d
      /\ (c * b) * f = (c * f) * b
      /\ (e * d) * b = (e * b) * d
  OBVIOUS
<1>2. a * d \in Int /\ c * b \in Int /\ c * f \in Int /\ e * d \in Int /\ a * f \in Int /\ e * b \in Int
  OBVIOUS
<1>3. /\ a * d < c * b <=> (a * d) * f < (c * b) * f
      /\ a * d = c * b <=> (a * d) * f = (c * b) * f
  BY <1>2, Cancelled
<1>4. /\ c * f < e * d <=> (c * f) * b < (e * d) * b
      /\ c * f = e * d <=> (c * f) * b = (e * d) * b
  BY <1>2, Cancelled
<1>5. /\ a * f < e * b <=> (a * f) * d < (e * b) * d
      /\ a * f = e * b <=> (a * f) * d = (e * b) * d
  BY <1>2, Cancelled
<1>6. (a * f) * d \in Int /\ (c * f) * b \in Int /\ (e * b) * d \in Int
  BY <1>2
<1> DEFINE u == (a * f) * d
           v == (c * f) * b
           w == (e * b) * d
<1>7. u \in Int /\ v \in Int /\ w \in Int
  BY <1>6
<1>8. /\ (a * d < c * b <=> u < v) /\ (a * d = c * b <=> u = v)
      /\ (c * f < e * d <=> v < w) /\ (c * f = e * d <=> v = w)
      /\ (a * f < e * b <=> u < w) /\ (a * f = e * b <=> u = w)
  BY <1>1, <1>3, <1>4, <1>5
<1> HIDE DEF u, v, w
<1> QED
  BY <1>7, <1>8

LEMMA FractionOrder ==
    /\ \A p \in Fractions : FractionEqual(p, p)
    /\ \A p, q \in Fractions : FractionEqual(p, q) <=> ~FractionLess(p, q) /\ ~FractionLess(q, p)
    /\ \A p, q \in Fractions : ~(FractionLess(p, q) /\ FractionLess(q, p))
    /\ \A p, q, x \in Fractions : FractionLess(p, q) /\ FractionLess(q, x) => FractionLess(p, x)
    /\ \A p, q, x \in Fractions : FractionEqual(p, q) /\ FractionEqual(q, x) => FractionEqual(p, x)
<1>1. ASSUME NEW p \in Fractions
      PROVE  p.n \in Int /\ p.d \in Nat \ {0} /\ ~IsNaN(p)
  BY DEF Fractions, IsNaN
<1>2. ASSUME NEW p \in Fractions, NEW q \in Fractions
      PROVE  p.n * q.d \in Int
  BY <1>1
<1>3. \A p \in Fractions : FractionEqual(p, p)
  BY <1>1 DEF FractionEqual
<1>4. ASSUME NEW p \in Fractions, NEW q \in Fractions
      PROVE  /\ FractionEqual(p, q) <=> ~FractionLess(p, q) /\ ~FractionLess(q, p)
             /\ ~(FractionLess(p, q) /\ FractionLess(q, p))
  <2> DEFINE a == p.n * q.d
             b == q.n * p.d
  <2>1. a \in Int /\ b \in Int
    BY <1>2
  <2>2. FractionEqual(p, q) <=> a = b
    BY <1>1 DEF FractionEqual
  <2>3. (FractionLess(p, q) <=> a < b) /\ (FractionLess(q, p) <=> b < a)
    BY DEF FractionLess
  <2> HIDE DEF a, b
  <2> QED
    BY <2>1, <2>2, <2>3
<1>5. ASSUME NEW p \in Fractions, NEW q \in Fractions, NEW x \in Fractions
      PROVE  /\ FractionLess(p, q) /\ FractionLess(q, x) => FractionLess(p, x)
             /\ FractionEqual(p, q) /\ FractionEqual(q, x) => FractionEqual(p, x)
  <2> DEFINE a == p.n
             b == p.d
             c == q.n
             d == q.d
             e == x.n
             f == x.d
  <2>1. /\ a \in Int /\ b \in Nat \ {0} /\ c \in Int /\ d \in Nat \ {0} /\ e \in Int /\ f \in Nat \ {0}
    BY <1>1
  <2>2. /\ FractionLess(p, q) <=> a * d < c * b
        /\ FractionLess(q, x) <=> c * f < e * d
        /\ FractionLess(p, x) <=> a * f < e * b
    BY DEF FractionLess
  <2>3. /\ FractionEqual(p, q) <=> a * d = c * b
        /\ FractionEqual(q, x) <=> c * f = e * d
        /\ FractionEqual(p, x) <=> a * f = e * b
    BY <1>1 DEF FractionEqual
  <2> HIDE DEF a, b, c, d, e, f
  <2> QED
    BY <2>1, <2>2, <2>3, Crosswise
<1> QED
  BY <1>3, <1>4, <1>5

-----------------------------------------------------------------------------
\* Values.

LEMMA TypeIds ==
    ASSUME NEW v \in Values, NEW w \in Values
    PROVE  /\ TypeId[typeId(v)] \in Nat
           /\ TypeId[typeId(v)] = TypeId[typeId(w)] => typeId(v) = typeId(w)
<1> DEFINE Types == {"SQL_NULL", "INTEGER", "BIGINT", "FLOAT", "DOUBLE", "VARCHAR", "BOOLEAN"}
<1>1. typeId(v) \in Types /\ typeId(w) \in Types
  BY ValueCases DEF IntegerTypes
<1>2. \A t \in Types : TypeId[t] \in Nat
  BY DEF TypeId
<1>3. \A t, u \in Types : TypeId[t] = TypeId[u] => t = u
  BY DEF TypeId
<1> HIDE DEF Types
<1> QED
  BY <1>1, <1>2, <1>3

\* Within a type, payloads are totally ordered, and what is below in neither
\* direction is equal.
LEMMA PayloadOrder ==
    ASSUME NEW v \in Values, NEW w \in Values, NEW x \in Values,
           typeId(v) = typeId(w), typeId(w) = typeId(x)
    PROVE  /\ equals(v, v)
           /\ equals(v, w) <=> ~PayloadLess(v, w) /\ ~PayloadLess(w, v)
           /\ ~(PayloadLess(v, w) /\ PayloadLess(w, v))
           /\ PayloadLess(v, w) /\ PayloadLess(w, x) => PayloadLess(v, x)
           /\ equals(v, w) /\ equals(w, x) => equals(v, x)
<1> DEFINE p == payload(v)
           q == payload(w)
           y == payload(x)
<1>1. CASE typeId(v) = "SQL_NULL"
  BY <1>1 DEF equals, isNull, PayloadLess, IntegerTypes
<1>2. CASE typeId(v) \in IntegerTypes
  <2>1. p \in Int /\ q \in Int /\ y \in Int
    BY <1>2, ValueCases DEF IntegerTypes
  <2>2. /\ equals(v, v) /\ (equals(v, w) <=> p = q)
        /\ (equals(w, x) <=> q = y) /\ (equals(v, x) <=> p = y)
    BY <1>2 DEF equals, isNull, IntegerTypes
  <2>3. /\ PayloadLess(v, w) <=> p < q
        /\ PayloadLess(w, v) <=> q < p
        /\ PayloadLess(w, x) <=> q < y
        /\ PayloadLess(v, x) <=> p < y
    BY <1>2 DEF PayloadLess, IntegerTypes
  <2> HIDE DEF p, q, y
  <2> QED
    BY <2>1, <2>2, <2>3
<1>3. CASE typeId(v) \in {"FLOAT", "DOUBLE"}
  <2>1. p \in Fractions /\ q \in Fractions /\ y \in Fractions
    BY <1>3, ValueCases DEF IntegerTypes
  <2>2. /\ equals(v, v) <=> FractionEqual(p, p)
        /\ equals(v, w) <=> FractionEqual(p, q)
        /\ equals(w, x) <=> FractionEqual(q, y)
        /\ equals(v, x) <=> FractionEqual(p, y)
    BY <1>3 DEF equals, isNull
  <2>3. /\ PayloadLess(v, w) <=> FractionLess(p, q)
        /\ PayloadLess(w, v) <=> FractionLess(q, p)
        /\ PayloadLess(w, x) <=> FractionLess(q, y)
        /\ PayloadLess(v, x) <=> FractionLess(p, y)
    BY <1>3 DEF PayloadLess, IntegerTypes
  <2> HIDE DEF p, q, y
  <2> QED
    BY <2>1, <2>2, <2>3, FractionOrder
<1>4. CASE typeId(v) = "VARCHAR"
  <2>1. p \in Seq(Characters) /\ q \in Seq(Characters) /\ y \in Seq(Characters)
    BY <1>4, ValueCases DEF IntegerTypes
  <2>2. /\ equals(v, v) /\ (equals(v, w) <=> p = q)
        /\ (equals(w, x) <=> q = y) /\ (equals(v, x) <=> p = y)
    BY <1>4 DEF equals, isNull
  <2>3. /\ PayloadLess(v, w) <=> StringLess(p, q)
        /\ PayloadLess(w, v) <=> StringLess(q, p)
        /\ PayloadLess(w, x) <=> StringLess(q, y)
        /\ PayloadLess(v, x) <=> StringLess(p, y)
    BY <1>4 DEF PayloadLess, IntegerTypes
  <2> HIDE DEF p, q, y
  <2> QED
    BY <2>1, <2>2, <2>3, StringOrder
<1>5. CASE typeId(v) = "BOOLEAN"
  <2>1. p \in BOOLEAN /\ q \in BOOLEAN /\ y \in BOOLEAN
    BY <1>5, ValueCases DEF IntegerTypes
  <2>2. /\ equals(v, v) /\ (equals(v, w) <=> p = q)
        /\ (equals(w, x) <=> q = y) /\ (equals(v, x) <=> p = y)
    BY <1>5 DEF equals, isNull
  <2>3. /\ PayloadLess(v, w) <=> ~p /\ q
        /\ PayloadLess(w, v) <=> ~q /\ p
        /\ PayloadLess(w, x) <=> ~q /\ y
        /\ PayloadLess(v, x) <=> ~p /\ y
    BY <1>5 DEF PayloadLess, IntegerTypes
  <2> HIDE DEF p, q, y
  <2> QED
    BY <2>1, <2>2, <2>3
<1> QED
  BY <1>1, <1>2, <1>3, <1>4, <1>5, ValueCases

LEMMA EqualTypes ==
    ASSUME NEW v, NEW w, equals(v, w) PROVE typeId(v) = typeId(w)
BY DEF equals, isNull

\* lessThan is a total order of the values that equals tells apart.
LEMMA ValueOrder ==
    /\ \A v \in Values : equals(v, v)
    /\ \A v, w \in Values : equals(v, w) <=> ~lessThan(v, w) /\ ~lessThan(w, v)
    /\ \A v, w \in Values : ~(lessThan(v, w) /\ lessThan(w, v))
    /\ \A v, w, x \in Values : lessThan(v, w) /\ lessThan(w, x) => lessThan(v, x)
    /\ \A v, w, x \in Values : equals(v, w) /\ equals(w, x) => equals(v, x)
<1>1. \A v \in Values : equals(v, v)
  BY PayloadOrder
<1>2. ASSUME NEW v \in Values, NEW w \in Values
      PROVE  /\ equals(v, w) <=> ~lessThan(v, w) /\ ~lessThan(w, v)
             /\ ~(lessThan(v, w) /\ lessThan(w, v))
  <2>1. CASE typeId(v) = typeId(w)
    BY <2>1, PayloadOrder DEF lessThan
  <2>2. CASE typeId(v) # typeId(w)
    <3>1. ~equals(v, w)
      BY <2>2, EqualTypes
    <3>2. TypeId[typeId(v)] \in Nat /\ TypeId[typeId(w)] \in Nat /\ TypeId[typeId(v)] # TypeId[typeId(w)]
      BY <2>2, TypeIds
    <3> QED
      BY <2>2, <3>1, <3>2 DEF lessThan
  <2> QED
    BY <2>1, <2>2
<1>3. ASSUME NEW v \in Values, NEW w \in Values, NEW x \in Values, lessThan(v, w), lessThan(w, x)
      PROVE  lessThan(v, x)
  <2> DEFINE i == TypeId[typeId(v)]
             j == TypeId[typeId(w)]
             k == TypeId[typeId(x)]
  <2>1. i \in Nat /\ j \in Nat /\ k \in Nat
    BY TypeIds
  <2>2. CASE typeId(v) = typeId(w) /\ typeId(w) = typeId(x)
    BY <1>3, <2>2, PayloadOrder DEF lessThan
  <2>3. CASE ~(typeId(v) = typeId(w) /\ typeId(w) = typeId(x))
    <3>1. i <= j /\ j <= k /\ (i < j \/ j < k)
      <4>1. typeId(v) # typeId(w) => i < j
        BY <1>3 DEF lessThan
      <4>2. typeId(w) # typeId(x) => j < k
        BY <1>3 DEF lessThan
      <4> QED
        BY <2>1, <2>3, <4>1, <4>2
    <3>2. i < k
      BY <2>1, <3>1
    <3>3. typeId(v) # typeId(x)
      BY <2>1, <3>2
    <3> QED
      BY <3>2, <3>3 DEF lessThan
  <2> QED
    BY <2>2, <2>3
<1>4. ASSUME NEW v \in Values, NEW w \in Values, NEW x \in Values, equals(v, w), equals(w, x)
      PROVE  equals(v, x)
  BY <1>4, EqualTypes, PayloadOrder
<1> QED
  BY <1>1, <1>2, <1>3, <1>4

\* compareValues puts NULL last and keeps to lessThan otherwise.
LEMMA Compared ==
    ASSUME NEW v \in Values, NEW w \in Values
    PROVE  /\ compareValues(v, w) \in {-1, 0, 1}
           /\ compareValues(v, w) = 0 <=> equals(v, w)
           /\ compareValues(v, w) < 0
                <=> ~isNull(v) /\ (isNull(w) \/ lessThan(v, w))
           /\ compareValues(v, w) > 0 <=> compareValues(w, v) < 0
<1>1. equals(v, w) <=> ~lessThan(v, w) /\ ~lessThan(w, v)
  BY ValueOrder
<1>2. ~(lessThan(v, w) /\ lessThan(w, v))
  BY ValueOrder
<1>3. CASE isNull(v) /\ isNull(w)
  BY <1>3 DEF compareValues, equals
<1>4. CASE isNull(v) /\ ~isNull(w)
  <2>1. compareValues(v, w) = 1 /\ compareValues(w, v) = -1
    BY <1>4 DEF compareValues
  <2>2. ~equals(v, w)
    BY <1>4 DEF equals
  <2> QED
    BY <1>4, <2>1, <2>2
<1>5. CASE ~isNull(v) /\ isNull(w)
  <2>1. compareValues(v, w) = -1 /\ compareValues(w, v) = 1
    BY <1>5 DEF compareValues
  <2>2. ~equals(v, w)
    BY <1>5 DEF equals, isNull
  <2> QED
    BY <1>5, <2>1, <2>2
<1>6. CASE ~isNull(v) /\ ~isNull(w)
  <2>1. /\ compareValues(v, w) = IF lessThan(v, w) THEN -1 ELSE IF lessThan(w, v) THEN 1 ELSE 0
        /\ compareValues(w, v) = IF lessThan(w, v) THEN -1 ELSE IF lessThan(v, w) THEN 1 ELSE 0
    BY <1>6 DEF compareValues
  <2> QED
    BY <1>1, <1>2, <1>6, <2>1
<1> QED
  BY <1>3, <1>4, <1>5, <1>6

\* What is of one value for the comparator of ORDER BY is of one group for GROUP BY
\* and a duplicate for DISTINCT: compareValues answers 0 exactly for equal values
\* (executor.cpp:973-1006, value.h).
THEOREM TiesAreEqual ==
    ASSUME NEW v \in Values, NEW w \in Values
    PROVE  compareValues(v, w) = 0 <=> equals(v, w)
BY Compared

LEMMA ComparedInTurn ==
    ASSUME NEW v \in Values, NEW w \in Values, NEW x \in Values,
           compareValues(v, w) < 0, compareValues(w, x) < 0
    PROVE  compareValues(v, x) < 0
<1>1. lessThan(v, w) /\ lessThan(w, x) => lessThan(v, x)
  BY ValueOrder
<1> QED
  BY <1>1, Compared

-----------------------------------------------------------------------------
\* Rows.

\* Rows that have a value in the column of every sort key.
Usable(keys, rows) ==
  /\ keys \in Seq([column : Nat, desc : BOOLEAN])
  /\ \A r \in rows, i \in DOMAIN keys : r[keys[i].column] \in Values

LEMMA UsableKeys ==
    ASSUME NEW rows, NEW keys, Usable(keys, rows)
    PROVE  /\ DOMAIN keys \subseteq Nat
           /\ \A i \in DOMAIN keys : keys[i].desc \in BOOLEAN
           /\ \A r \in rows, i \in DOMAIN keys : r[keys[i].column] \in Values
<1> DEFINE Keys == [column : Nat, desc : BOOLEAN]
<1>1. keys \in Seq(Keys)
  BY DEF Usable
<1>2. \A k \in Keys : k.desc \in BOOLEAN
  OBVIOUS
<1> HIDE DEF Keys
<1>3. DOMAIN keys = 1 .. Len(keys) /\ Len(keys) \in Nat /\ \A i \in 1 .. Len(keys) : keys[i] \in Keys
  BY <1>1, LenProperties, ElementOfSeq
<1> QED
  BY <1>2, <1>3 DEF Usable

\* One key alone.
Tied(k, r, s) == compareValues(r[k.column], s[k.column]) = 0
Ahead(k, r, s) ==
  IF k.desc THEN compareValues(r[k.column], s[k.column]) > 0
            ELSE compareValues(r[k.column], s[k.column]) < 0

LEMMA KeyOrder ==
    ASSUME NEW k, k.desc \in BOOLEAN, NEW r, NEW s, NEW q,
           r[k.column] \in Values, s[k.column] \in Values, q[k.column] \in Values
    PROVE  /\ Tied(k, r, s) <=> ~Ahead(k, r, s) /\ ~Ahead(k, s, r)
           /\ ~(Ahead(k, r, s) /\ Ahead(k, s, r))
           /\ Tied(k, r, s) <=> Tied(k, s, r)
           /\ Tied(k, r, s) /\ Tied(k, s, q) => Tied(k, r, q)
           /\ Ahead(k, r, s) /\ Ahead(k, s, q) => Ahead(k, r, q)
           /\ Ahead(k, r, s) /\ Tied(k, s, q) => Ahead(k, r, q)
           /\ Tied(k, r, s) /\ Ahead(k, s, q) => Ahead(k, r, q)
<1> DEFINE rs == compareValues(r[k.column], s[k.column])
           sr == compareValues(s[k.column], r[k.column])
           sq == compareValues(s[k.column], q[k.column])
           qs == compareValues(q[k.column], s[k.column])
           rq == compareValues(r[k.column], q[k.column])
           qr == compareValues(q[k.column], r[k.column])
<1>1. rs \in {-1, 0, 1} /\ sq \in {-1, 0, 1} /\ rq \in {-1, 0, 1}
      /\ sr \in {-1, 0, 1} /\ qs \in {-1, 0, 1} /\ qr \in {-1, 0, 1}
  BY Compared
<1>2. /\ (rs > 0 <=> sr < 0) /\ (sr > 0 <=> rs < 0)
      /\ (sq > 0 <=> qs < 0) /\ (qs > 0 <=> sq < 0)
      /\ (rq > 0 <=> qr < 0) /\ (qr > 0 <=> rq < 0)
  BY Compared
<1>3. /\ rs < 0 /\ sq < 0 => rq < 0
      /\ qs < 0 /\ sr < 0 => qr < 0
      /\ qr < 0 /\ rs < 0 => qs < 0
      /\ sr < 0 /\ rq < 0 => sq < 0
      /\ sq < 0 /\ qr < 0 => sr < 0
      /\ rq < 0 /\ qs < 0 => rs < 0
  BY ComparedInTurn
<1>4. (rs = 0 /\ sq = 0 => rq = 0) /\ (rq = 0 /\ sq = 0 => rs = 0) /\ (rs = 0 /\ rq = 0 => sq = 0)
  <2>1. /\ rs = 0 <=> equals(r[k.column], s[k.column])
        /\ sq = 0 <=> equals(s[k.column], q[k.column])
        /\ rq = 0 <=> equals(r[k.column], q[k.column])
    BY Compared
  <2>2. \A v, w \in Values : equals(v, w) <=> equals(w, v)
    BY ValueOrder
  <2> HIDE DEF rs, sq, rq
  <2> QED
    BY <2>1, <2>2, ValueOrder
<1>5. /\ (Tied(k, r, s) <=> rs = 0) /\ (Tied(k, s, r) <=> sr = 0)
      /\ (Tied(k, s, q) <=> sq = 0) /\ (Tied(k, r, q) <=> rq = 0)
  BY DEF Tied
<1>6. /\ (Ahead(k, r, s) <=> IF k.desc THEN rs > 0 ELSE rs < 0)
      /\ (Ahead(k, s, r) <=> IF k.desc THEN sr > 0 ELSE sr < 0)
      /\ (Ahead(k, s, q) <=> IF k.desc THEN sq > 0 ELSE sq < 0)
      /\ (Ahead(k, r, q) <=> IF k.desc THEN rq > 0 ELSE rq < 0)
  BY DEF Ahead
<1> HIDE DEF rs, sr, sq, qs, rq, qr
<1>7. (rs = 0 <=> sr = 0) /\ (rs = 0 <=> ~(rs < 0) /\ ~(sr < 0)) /\ ~(rs < 0 /\ sr < 0)
  BY <1>1, <1>2
<1>8. /\ rs < 0 /\ sq = 0 => rq < 0
      /\ rs > 0 /\ sq = 0 => rq > 0
      /\ rs = 0 /\ sq < 0 => rq < 0
      /\ rs = 0 /\ sq > 0 => rq > 0
      /\ rs > 0 /\ sq > 0 => rq > 0
  BY <1>1, <1>2, <1>3, <1>4
<1>9. CASE k.desc
  BY <1>2, <1>4, <1>5, <1>6, <1>7, <1>8, <1>9
<1>10. CASE ~k.desc
  BY <1>2, <1>3, <1>4, <1>5, <1>6, <1>7, <1>8, <1>10
<1> QED
  BY <1>9, <1>10

\* The first key that does not tie decides.
DecidesAt(keys, r, s, i) ==
  /\ i \in DOMAIN keys /\ Ahead(keys[i], r, s)
  /\ \A j \in DOMAIN keys : j < i => Tied(keys[j], r, s)

LEMMA Decided ==
    ASSUME NEW rows, NEW keys, Usable(keys, rows), NEW r \in rows, NEW s \in rows
    PROVE  /\ Precedes(keys, r, s) <=> \E i \in DOMAIN keys : DecidesAt(keys, r, s, i)
           /\ Incomparable(keys, r, s) <=> \A i \in DOMAIN keys : Tied(keys[i], r, s)
<1>1. /\ DOMAIN keys \subseteq Nat
      /\ \A i \in DOMAIN keys : /\ keys[i].desc \in BOOLEAN
                                 /\ r[keys[i].column] \in Values
                                 /\ s[keys[i].column] \in Values
  BY UsableKeys
<1>2. ASSUME NEW a \in rows, NEW b \in rows
      PROVE  Precedes(keys, a, b) <=> \E i \in DOMAIN keys : DecidesAt(keys, a, b, i)
  <2>1. \A i \in DOMAIN keys : /\ keys[i].desc \in BOOLEAN
                               /\ a[keys[i].column] \in Values
                               /\ b[keys[i].column] \in Values
    BY <1>1 DEF Usable
  <2> DEFINE D == {i \in DOMAIN keys : ~Tied(keys[i], a, b)}
  <2>2. Precedes(keys, a, b) <=> D # {} /\ Ahead(keys[Min(D)], a, b)
    BY DEF Precedes, Tied, Ahead
  <2>3. ASSUME D # {}
        PROVE  Min(D) \in D /\ \A j \in D : Min(D) <= j
    <3>1. \E x \in D : \A y \in D : x <= y
      BY <1>1, <2>3, LeastIs
    <3> HIDE DEF D
    <3> QED
      BY <3>1 DEF Min
  <2>4. ASSUME Precedes(keys, a, b)
        PROVE  DecidesAt(keys, a, b, Min(D))
    <3>1. Min(D) \in DOMAIN keys /\ Ahead(keys[Min(D)], a, b)
      BY <2>2, <2>3, <2>4
    <3>2. ASSUME NEW j \in DOMAIN keys, j < Min(D)
          PROVE  Tied(keys[j], a, b)
      <4>1. D # {}
        BY <2>2, <2>4
      <4>2. j \in D => Min(D) <= j
        BY <2>3, <4>1
      <4>3. j \in Nat /\ Min(D) \in Nat
        BY <1>1, <3>1
      <4>4. j \notin D
        BY <3>2, <4>2, <4>3
      <4> QED
        BY <4>4
    <3> QED
      BY <3>1, <3>2 DEF DecidesAt
  <2>5. ASSUME NEW i \in DOMAIN keys, DecidesAt(keys, a, b, i)
        PROVE  Precedes(keys, a, b)
    <3>1. ~Tied(keys[i], a, b)
      BY <2>1, <2>5, KeyOrder DEF DecidesAt
    <3>2. i \in D
      BY <3>1
    <3>3. Min(D) \in D /\ Min(D) <= i
      BY <2>3, <3>2
    <3>4. ~(Min(D) < i)
      BY <2>5, <3>3 DEF DecidesAt
    <3>5. Min(D) = i
      BY <1>1, <3>3, <3>4
    <3> QED
      BY <2>2, <2>5, <3>2, <3>5 DEF DecidesAt
  <2> QED
    BY <2>4, <2>5 DEF DecidesAt
<1>3. Incomparable(keys, r, s) => \A i \in DOMAIN keys : Tied(keys[i], r, s)
  <2> SUFFICES ASSUME NEW i \in DOMAIN keys, ~Tied(keys[i], r, s), Incomparable(keys, r, s)
               PROVE  FALSE
    OBVIOUS
  <2> DEFINE D == {j \in DOMAIN keys : ~Tied(keys[j], r, s)}
  <2>1. PICK d \in D : \A j \in D : d <= j
    BY <1>1, LeastIs
  <2>2. ASSUME NEW j \in DOMAIN keys, j < d
        PROVE  Tied(keys[j], r, s) /\ Tied(keys[j], s, r)
    <3>1. j \notin D
      BY <1>1, <2>1, <2>2
    <3>2. Tied(keys[j], r, s)
      BY <3>1
    <3> QED
      BY <1>1, <3>2, KeyOrder
  <2>3. Ahead(keys[d], r, s) \/ Ahead(keys[d], s, r)
    BY <1>1, <2>1, KeyOrder
  <2>4. DecidesAt(keys, r, s, d) \/ DecidesAt(keys, s, r, d)
    BY <2>1, <2>2, <2>3 DEF DecidesAt
  <2> QED
    BY <1>2, <2>1, <2>4 DEF Incomparable
<1>4. ASSUME \A i \in DOMAIN keys : Tied(keys[i], r, s)
      PROVE  Incomparable(keys, r, s)
  <2>1. \A i \in DOMAIN keys : ~Ahead(keys[i], r, s) /\ ~Ahead(keys[i], s, r)
    BY <1>1, <1>4, KeyOrder
  <2> QED
    BY <1>2, <2>1 DEF Incomparable, DecidesAt
<1> QED
  BY <1>2, <1>3, <1>4

\* std::sort (executor.cpp:1014-1057) is given a strict weak order, whatever the sort
\* keys, their directions and the rows, NULLs and values of several types among them,
\* as long as no NaN is among them.
THEOREM ComparatorIsStrictWeakOrder ==
    ASSUME NEW rows, NEW keys, Usable(keys, rows)
    PROVE  StrictWeakOrder(keys, rows)
<1>1. /\ DOMAIN keys \subseteq Nat
      /\ \A i \in DOMAIN keys : keys[i].desc \in BOOLEAN
      /\ \A r \in rows, i \in DOMAIN keys : r[keys[i].column] \in Values
  BY UsableKeys
<1>2. ASSUME NEW r \in rows, NEW s \in rows, Precedes(keys, r, s), Precedes(keys, s, r)
      PROVE  FALSE
  <2>1. PICK i \in DOMAIN keys : DecidesAt(keys, r, s, i)
    BY <1>2, Decided
  <2>2. PICK j \in DOMAIN keys : DecidesAt(keys, s, r, j)
    BY <1>2, Decided
  <2>3. ~Tied(keys[i], s, r) /\ ~Tied(keys[j], r, s) /\ ~Ahead(keys[i], s, r)
    BY <1>1, <2>1, <2>2, KeyOrder DEF DecidesAt
  <2>4. ~(i < j) /\ ~(j < i)
    BY <2>1, <2>2, <2>3 DEF DecidesAt
  <2>5. i = j
    BY <1>1, <2>4
  <2> QED
    BY <2>2, <2>3, <2>5 DEF DecidesAt
<1>3. ASSUME NEW r \in rows, NEW s \in rows, NEW q \in rows, Precedes(keys, r, s), Precedes(keys, s, q)
      PROVE  Precedes(keys, r, q)
  <2>1. PICK i \in DOMAIN keys : DecidesAt(keys, r, s, i)
    BY <1>3, Decided
  <2>2. PICK j \in DOMAIN keys : DecidesAt(keys, s, q, j)
    BY <1>3, Decided
  <2>3. i \in Nat /\ j \in Nat
    BY <1>1
  <2>4. PICK k \in {i, j} : k <= i /\ k <= j
    BY <2>3
  <2>5. ASSUME NEW l \in DOMAIN keys, l < k
        PROVE  Tied(keys[l], r, q)
    <3>1. l < i /\ l < j
      BY <1>1, <2>3, <2>4, <2>5
    <3>2. Tied(keys[l], r, s) /\ Tied(keys[l], s, q)
      BY <2>1, <2>2, <3>1 DEF DecidesAt
    <3> QED
      BY <1>1, <3>2, KeyOrder
  <2>6. k \in DOMAIN keys
    BY <2>4
  <2>7. \/ Ahead(keys[k], r, s) /\ Ahead(keys[k], s, q)
        \/ Ahead(keys[k], r, s) /\ Tied(keys[k], s, q)
        \/ Tied(keys[k], r, s) /\ Ahead(keys[k], s, q)
    <3>1. (k = i \/ k < i) /\ (k = j \/ k < j) /\ (k = i \/ k = j)
      BY <2>3, <2>4
    <3> QED
      BY <2>1, <2>2, <2>6, <3>1 DEF DecidesAt
  <2>8. Ahead(keys[k], r, q)
    BY <1>1, <2>6, <2>7, KeyOrder
  <2> QED
    BY <2>5, <2>6, <2>8, Decided DEF DecidesAt
<1>4. ASSUME NEW r \in rows, NEW s \in rows, NEW q \in rows, Incomparable(keys, r, s), Incomparable(keys, s, q)
      PROVE  Incomparable(keys, r, q)
  <2>1. \A i \in DOMAIN keys : Tied(keys[i], r, s) /\ Tied(keys[i], s, q)
    BY <1>4, Decided
  <2>2. \A i \in DOMAIN keys : Tied(keys[i], r, q)
    BY <1>1, <2>1, KeyOrder
  <2> QED
    BY <2>2, Decided
<1> QED
  BY <1>2, <1>3, <1>4 DEF StrictWeakOrder

\* DISTINCT and GROUP BY (executor.cpp:2075-2092) partition the rows: rowsEqual is an
\* equivalence, so the row that is kept does not matter.
THEOREM RowsEqualIsEquivalence ==
    ASSUME NEW r \in Seq(Values), NEW s \in Seq(Values), NEW q \in Seq(Values)
    PROVE  /\ rowsEqual(r, r)
           /\ rowsEqual(r, s) => rowsEqual(s, r)
           /\ rowsEqual(r, s) /\ rowsEqual(s, q) => rowsEqual(r, q)
<1>1. /\ \A i \in 1 .. Len(r) : r[i] \in Values
      /\ \A i \in 1 .. Len(s) : s[i] \in Values
      /\ \A i \in 1 .. Len(q) : q[i] \in Values
  BY ElementOfSeq
<1>2. \A v, w \in Values : equals(v, w) => equals(w, v)
  BY ValueOrder
<1>3. rowsEqual(r, r)
  BY <1>1, ValueOrder DEF rowsEqual
<1>4. rowsEqual(r, s) => rowsEqual(s, r)
  BY <1>1, <1>2 DEF rowsEqual
<1>5. rowsEqual(r, s) /\ rowsEqual(s, q) => rowsEqual(r, q)
  BY <1>1, ValueOrder DEF rowsEqual
<1> QED
  BY <1>3, <1>4, <1>5

\* A NaN has to be kept out: beside two numbers it ties with both.
THEOREM NaNBreaksOrder ==
    ~StrictWeakOrder(<<[column |-> 1, desc |-> FALSE]>>,
                     {<<Double(Whole(1))>>, <<Double(Whole(2))>>, <<Double(NaN)>>})
<1> DEFINE keys == <<[column |-> 1, desc |-> FALSE]>>
           one == <<Double(Whole(1))>>
           two == <<Double(Whole(2))>>
           nan == <<Double(NaN)>>
<1>1. ASSUME NEW p, NEW q
      PROVE  compareValues(Double(p), Double(q))
               = IF FractionLess(p, q) THEN -1 ELSE IF FractionLess(q, p) THEN 1 ELSE 0
  BY DEF compareValues, isNull, lessThan, PayloadLess, typeId, payload, Double, IntegerTypes
<1>2. ASSUME NEW r, NEW s
      PROVE  Precedes(keys, r, s) <=> compareValues(r[1], s[1]) < 0
  <2> DEFINE D == {i \in DOMAIN keys : compareValues(r[keys[i].column], s[keys[i].column]) # 0}
  <2>1. DOMAIN keys = {1} /\ keys[1].column = 1 /\ keys[1].desc = FALSE
    OBVIOUS
  <2>2. Precedes(keys, r, s)
          <=> D # {} /\ IF keys[Min(D)].desc
                       THEN compareValues(r[keys[Min(D)].column], s[keys[Min(D)].column]) > 0
                       ELSE compareValues(r[keys[Min(D)].column], s[keys[Min(D)].column]) < 0
    BY DEF Precedes
  <2>3. Min({1}) = 1
    BY DEF Min
  <2>4. D = IF compareValues(r[1], s[1]) # 0 THEN {1} ELSE {}
    BY <2>1
  <2> HIDE DEF keys, D
  <2> QED
    BY <2>1, <2>2, <2>3, <2>4
<1>3. /\ FractionLess(Whole(1), Whole(2)) /\ ~FractionLess(Whole(2), Whole(1))
      /\ ~FractionLess(Whole(1), NaN) /\ ~FractionLess(NaN, Whole(1))
      /\ ~FractionLess(Whole(2), NaN) /\ ~FractionLess(NaN, Whole(2))
  BY DEF FractionLess, Whole, NaN
<1>4. one[1] = Double(Whole(1)) /\ two[1] = Double(Whole(2)) /\ nan[1] = Double(NaN)
  OBVIOUS
<1>5. Precedes(keys, one, two) /\ Incomparable(keys, one, nan) /\ Incomparable(keys, nan, two)
  BY <1>1, <1>2, <1>3, <1>4 DEF Incomparable
<1> HIDE DEF keys, one, two, nan
<1>6. ~StrictWeakOrder(keys, {one, two, nan})
  BY <1>5 DEF StrictWeakOrder, Incomparable
<1> QED
  BY <1>6 DEF keys, one, two, nan
=============================================================================
