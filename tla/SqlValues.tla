----------------------------- MODULE SqlValues -----------------------------
(***************************************************************************)
(* The values of the SQL layer: Value and LogicalType of src/common and    *)
(* the comparisons the executor sorts, groups and filters with.            *)
(*                                                                         *)
(* A value is a pair of its type and its payload.  FLOAT and DOUBLE carry  *)
(* an exact fraction (rounding and infinities are not modelled) or NaN; a  *)
(* VARCHAR carries a sequence of characters.  INTEGER and BIGINT stay far  *)
(* from their limits: signed overflow is not modelled.                     *)
(***************************************************************************)
EXTENDS Integers, Sequences

(***************************************************************************)
(* Fractions.                                                              *)
(***************************************************************************)
Magnitude(n) == IF n < 0 THEN -n ELSE n
Divisor[n \in Nat, k \in Nat] == IF k = 0 THEN n ELSE Divisor[k, n % k]
\* n/d in lowest terms, for d > 0
Ratio(n, d) ==
  LET g == Divisor[Magnitude(n), d]
  IN  [n |-> IF n < 0 THEN -((-n) \div g) ELSE n \div g, d |-> d \div g]
Whole(n) == [n |-> n, d |-> 1]
NaN == [n |-> 0, d |-> 0]

IsNaN(p) == p.d = 0
FractionLess(p, q) == p.n * q.d < q.n * p.d          \* false with a NaN
FractionEqual(p, q) == /\ ~IsNaN(p) /\ ~IsNaN(q)
                       /\ p.n * q.d = q.n * p.d
Plus(p, q)   == IF IsNaN(p) \/ IsNaN(q) THEN NaN ELSE Ratio(p.n * q.d + q.n * p.d, p.d * q.d)
Negative(p)  == [p EXCEPT !.n = -@]
Times(p, q)  == IF IsNaN(p) \/ IsNaN(q) THEN NaN ELSE Ratio(p.n * q.n, p.d * q.d)
\* for q other than zero
Over(p, q) ==
  IF IsNaN(p) \/ IsNaN(q) THEN NaN
  ELSE IF q.n > 0 THEN Ratio(p.n * q.d, p.d * q.n) ELSE Ratio(-(p.n * q.d), p.d * (-q.n))
FloorOf(p) == p.n \div p.d
Truncated(p) == IF p.n < 0 THEN -((-p.n) \div p.d) ELSE FloorOf(p)

(***************************************************************************)
(* Types and values.                                                       *)
(***************************************************************************)
TypeId == [SQL_NULL |-> 0, INTEGER |-> 1, BIGINT |-> 2, FLOAT |-> 3,
           DOUBLE |-> 4, VARCHAR |-> 5, BOOLEAN |-> 6]
NumericTypes == {"INTEGER", "BIGINT", "FLOAT", "DOUBLE"}
IntegerTypes == {"INTEGER", "BIGINT"}

Null       == <<"SQL_NULL", 0>>
Integer(n) == <<"INTEGER", n>>
Bigint(n)  == <<"BIGINT", n>>
Float(p)   == <<"FLOAT", p>>
Double(p)  == <<"DOUBLE", p>>
Varchar(s) == <<"VARCHAR", s>>
Boolean(b) == <<"BOOLEAN", b>>

typeId(v)  == v[1]
payload(v) == v[2]
isNull(v)    == typeId(v) = "SQL_NULL"
isNumeric(v) == typeId(v) \in NumericTypes
isInteger(v) == typeId(v) \in IntegerTypes

(***************************************************************************)
(* The accessors read one union and a separate string without looking at   *)
(* the type.  A value of another type gives what its bytes hold there on a *)
(* little-endian machine: a fraction with few digits has no low bits, and  *)
(* a negative INTEGER read as 64 bits is large.  A byte that is neither 0  *)
(* nor 1 is no bool: reading it is undefined behaviour (one build takes it *)
(* for true in one place and for false in another), so the function has no *)
(* value there, and a run in which a statement read one would stop.  Far   *)
(* stands for a number beyond every length and position.                   *)
(***************************************************************************)
Far == 1000000
Sign(n) == IF n > 0 THEN 1 ELSE IF n < 0 THEN -1 ELSE 0

asBool(v) ==
  CASE typeId(v) = "BOOLEAN"       -> payload(v)
    [] typeId(v) \in IntegerTypes  -> [byte \in {0, 1} |-> byte = 1][payload(v) % 256]
    [] OTHER                       -> FALSE
asInt32(v) ==
  CASE typeId(v) \in IntegerTypes  -> payload(v)
    [] typeId(v) = "BOOLEAN"       -> IF payload(v) THEN 1 ELSE 0
    [] typeId(v) = "FLOAT"         -> Sign(payload(v).n) * Far
    [] OTHER                       -> 0
asInt64(v) ==
  CASE typeId(v) = "BIGINT"        -> payload(v)
    [] typeId(v) = "INTEGER"       -> IF payload(v) < 0 THEN Far ELSE payload(v)
    [] typeId(v) = "BOOLEAN"       -> IF payload(v) THEN 1 ELSE 0
    [] typeId(v) = "DOUBLE"        -> Sign(payload(v).n) * Far
    [] typeId(v) = "FLOAT"         -> IF payload(v).n = 0 THEN 0 ELSE Far
    [] OTHER                       -> 0
asString(v) == IF typeId(v) = "VARCHAR" THEN payload(v) ELSE <<>>

to_double(v) ==
  CASE typeId(v) \in IntegerTypes        -> Whole(payload(v))
    [] typeId(v) \in {"FLOAT", "DOUBLE"} -> payload(v)
    [] OTHER                             -> Whole(0)

(***************************************************************************)
(* Comparisons.  Characters are one-letter strings in the order of their   *)
(* codes.                                                                  *)
(***************************************************************************)
Alphabet == <<" ", "%", "'", "-", ".", "0", "1", "2", "3", "4", "5", "6", "7", "8",
              "9", ";", "A", "B", "_", "a", "b", "e", "f", "l", "r", "s", "t", "u">>
Code == [c \in {Alphabet[i] : i \in DOMAIN Alphabet} |->
          CHOOSE i \in DOMAIN Alphabet : Alphabet[i] = c]

StringLess(s, r) ==
  \E k \in 1..Len(r) :
    /\ k <= Len(s) + 1
    /\ \A i \in 1..(k-1) : s[i] = r[i]
    /\ k = Len(s) + 1 \/ Code[s[k]] < Code[r[k]]

equals(v, w) ==
  \/ isNull(v) /\ isNull(w)
  \/ /\ ~isNull(v) /\ typeId(v) = typeId(w)
     /\ IF typeId(v) \in {"FLOAT", "DOUBLE"} THEN FractionEqual(payload(v), payload(w))
                                             ELSE payload(v) = payload(w)

PayloadLess(v, w) ==
  CASE typeId(v) \in IntegerTypes        -> payload(v) < payload(w)
    [] typeId(v) \in {"FLOAT", "DOUBLE"} -> FractionLess(payload(v), payload(w))
    [] typeId(v) = "VARCHAR"             -> StringLess(payload(v), payload(w))
    [] typeId(v) = "BOOLEAN"             -> ~payload(v) /\ payload(w)
    [] OTHER                             -> FALSE

\* NULL has the smallest type id, so it is below every other value
lessThan(v, w) ==
  IF typeId(v) # typeId(w) THEN TypeId[typeId(v)] < TypeId[typeId(w)]
                           ELSE PayloadLess(v, w)

\* Mutated form: a NULL is above another NULL.
NullAbove(v, w) ==
  CASE isNull(v) -> 1
    [] ~isNull(v) /\ isNull(w) -> -1
    [] OTHER -> IF lessThan(v, w) THEN -1 ELSE IF lessThan(w, v) THEN 1 ELSE 0

\* Executor::compareValues: NULL is last
compareValues(v, w) ==
  CASE isNull(v) /\ isNull(w) -> 0
    [] isNull(v) /\ ~isNull(w) -> 1
    [] ~isNull(v) /\ isNull(w) -> -1
    [] OTHER -> IF lessThan(v, w) THEN -1 ELSE IF lessThan(w, v) THEN 1 ELSE 0

\* Executor::rowsEqual and GroupKeyEqual
rowsEqual(r, s) == Len(r) = Len(s) /\ \A i \in 1..Len(r) : equals(r[i], s[i])

(***************************************************************************)
(* Value::toString: integers in decimal, fractions with six digits.        *)
(***************************************************************************)
Digit == <<"0", "1", "2", "3", "4", "5", "6", "7", "8", "9">>
Digits(n, width) == [i \in 1..width |-> Digit[((n \div 10^(width - i)) % 10) + 1]]
Decimal(n) ==
  Digits(n, CHOOSE k \in 1..8 : n < 10^k /\ (k = 1 \/ n >= 10^(k-1)))
Signed(n, text) == IF n < 0 THEN <<"-">> \o text ELSE text

toString(v) ==
  LET x == payload(v)
  IN  CASE isInteger(v)          -> Signed(x, Decimal(Magnitude(x)))
        [] typeId(v) = "VARCHAR" -> x
        [] typeId(v) = "BOOLEAN" -> IF x THEN <<"t", "r", "u", "e">> ELSE <<"f", "a", "l", "s", "e">>
        [] typeId(v) \in {"FLOAT", "DOUBLE"} ->
             LET part == ((Magnitude(x.n) % x.d) * 1000000 + x.d \div 2) \div x.d
             IN  IF IsNaN(x) THEN <<"n", "a", "n">>                  \* its sign is left out
                 ELSE Signed(x.n, Decimal(Magnitude(x.n) \div x.d) \o <<".">> \o Digits(part, 6))
        [] OTHER                 -> <<"N", "U", "L", "L">>
=============================================================================
