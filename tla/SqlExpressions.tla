--------------------------- MODULE SqlExpressions ---------------------------
(***************************************************************************)
(* Expression trees (src/parser/ast.h), the scalar functions               *)
(* (src/executor/function.cpp) and Executor::evaluateExpr.                 *)
(*                                                                         *)
(* A tree is a record whose field "node" names its class; NoExpr stands    *)
(* for the null pointer.  Names are compared as the lexer delivers them:   *)
(* upper and lower case are not told apart.                                *)
(***************************************************************************)
EXTENDS SqlValues, SequencesExt, FiniteSetsExt

NoExpr == [node |-> "NONE"]
Literal(kind, value)    == [node |-> "LITERAL", value |-> <<kind, value>>]
ColumnRef(table, name)  == [node |-> "COLUMN_REF", table |-> table, column |-> name]
Binary(op, left, right) == [node |-> "BINARY", op |-> op, left |-> left, right |-> right]
Unary(op, operand)      == [node |-> "UNARY", op |-> op, operand |-> operand]
IsNull(expr, negated)   == [node |-> "IS_NULL", expr |-> expr, negated |-> negated]
\* whens is a sequence of pairs <<condition, result>>
Case(whens, else)       == [node |-> "CASE", whens |-> whens, else |-> else]
In(expr, values, negated)         == [node |-> "IN", expr |-> expr, values |-> values, negated |-> negated]
Between(expr, low, high, negated) == [node |-> "BETWEEN", expr |-> expr, low |-> low, high |-> high,
                                      negated |-> negated]
Like(str, pattern, negated) == [node |-> "LIKE", str |-> str, pattern |-> pattern, negated |-> negated]
Coalesce(args)          == [node |-> "COALESCE", args |-> args]
Nullif(expr1, expr2)    == [node |-> "NULLIF", expr1 |-> expr1, expr2 |-> expr2]
FunctionCall(name, args) == [node |-> "FUNCTION_CALL", name |-> name, args |-> args]
Aggregate(agg, arg, distinct, star) ==
  [node |-> "AGGREGATE", agg |-> agg, arg |-> arg, distinct |-> distinct, star |-> star]

\* a literal as the executor reads it: an integer is a BIGINT
LiteralValue(lit) ==
  LET kind == lit.value[1] x == lit.value[2]
  IN  CASE kind = "null"   -> Null
        [] kind = "int"    -> Bigint(x)
        [] kind = "float"  -> Double(x)
        [] kind = "string" -> Varchar(x)
        [] kind = "bool"   -> Boolean(x)

(***************************************************************************)
(* Schemas and rows.  A schema is a sequence of columns; where two have    *)
(* one name the map from names keeps the later.                            *)
(***************************************************************************)
Column(name, type, nullable) == [name |-> name, type |-> type, nullable |-> nullable]
Positions(schema, name) == {i \in DOMAIN schema : schema[i].name = name}
hasColumn(schema, name) == Positions(schema, name) # {}
columnIndex(schema, name) == CHOOSE i \in Positions(schema, name) :
                               \A j \in Positions(schema, name) : j <= i

(***************************************************************************)
(* Scalar functions.                                                       *)
(***************************************************************************)
Functions == [LENGTH |-> 1..1, UPPER |-> 1..1, LOWER |-> 1..1, TRIM |-> 1..1,
              SUBSTRING |-> 2..3, CONCAT |-> 2..100, ABS |-> 1..1, ROUND |-> 1..2,
              CEIL |-> 1..1, FLOOR |-> 1..1, MOD |-> 2..2]

UpperCase(c) == IF c = "a" THEN "A" ELSE IF c = "b" THEN "B" ELSE c
LowerCase(c) == IF c = "A" THEN "a" ELSE IF c = "B" THEN "b" ELSE c
MapText(Op(_), s) == [i \in DOMAIN s |-> Op(s[i])]

Trim(s) ==
  LET visible == {i \in DOMAIN s : s[i] # " "}
  IN  IF visible = {} THEN <<>> ELSE SubSeq(s, Min(visible), Max(visible))

Substring(args) ==
  LET s     == asString(args[1])
      start == asInt64(args[2])
      len   == IF Len(args) = 3 THEN asInt64(args[3]) ELSE Len(s)
  IN  CASE start < 1       -> Null
        [] start > Len(s)  -> Varchar(<<>>)
        [] len < 0         -> Null
        [] OTHER           -> Varchar(SubSeq(s, start, Min({start + len - 1, Len(s)})))

Concat(args) ==
  LET present == SelectSeq(args, LAMBDA v : ~isNull(v))
  IN  IF present = <<>> THEN Null
      ELSE Varchar(FlattenSeq([i \in DOMAIN present |-> toString(present[i])]))

\* the conversion of a double to 64 bits; of NaN this build makes the least number
ToInteger(p) == IF IsNaN(p) THEN -Far ELSE Truncated(p)
Ceiling(p) == IF IsNaN(p) THEN p ELSE Whole(-FloorOf(Negative(p)))
Floored(p) == IF IsNaN(p) THEN p ELSE Whole(FloorOf(p))
RoundedAway(p) ==
  IF IsNaN(p) THEN p
  ELSE Whole(Sign(p.n) * FloorOf(Plus([p EXCEPT !.n = Magnitude(@)], Ratio(1, 2))))
Absolute(v) ==
  LET p == to_double(v)
      q == [p EXCEPT !.n = Magnitude(@)]
  IN  IF isInteger(v) THEN <<typeId(v), q.n>> ELSE Double(q)
\* The number of decimals is read as 64 bits and cut to 32: of a DOUBLE nothing is left,
\* the bits of a FLOAT are so many that the factor is infinite, or zero for a negative one.
Round(args) ==
  LET decimals == IF Len(args) = 2 THEN args[2] ELSE Null
      places == IF typeId(decimals) \in IntegerTypes \cup {"BOOLEAN"} THEN asInt32(decimals) ELSE 0
      factor == IF typeId(decimals) = "FLOAT" /\ payload(decimals) # Whole(0) THEN NaN
                ELSE IF places >= 0 THEN Whole(10^places) ELSE Ratio(1, 10^(-places))
  IN  Double(Over(RoundedAway(Times(to_double(args[1]), factor)), factor))
Remainder(p, q) ==
  IF IsNaN(p) \/ IsNaN(q) \/ q.n = 0 THEN NaN
  ELSE Plus(p, Negative(Times(q, Whole(Truncated(Over(p, q))))))
\* the test for a divisor of zero compares it with one
Mod(args) ==
  LET divisor == to_double(args[2])
      result  == Remainder(to_double(args[1]), divisor)
  IN  IF divisor = Whole(1) THEN Null
      ELSE IF isInteger(args[1]) /\ isInteger(args[2]) THEN Bigint(ToInteger(result))
      ELSE Double(result)

CallFunction(name, args) ==
  IF name = "CONCAT" THEN Concat(args)
  ELSE IF isNull(args[1]) \/ (name # "ROUND" /\ \E i \in DOMAIN args : isNull(args[i])) THEN Null
  ELSE CASE name = "LENGTH"    -> Bigint(Len(asString(args[1])))
         [] name = "UPPER"     -> Varchar(MapText(UpperCase, asString(args[1])))
         [] name = "LOWER"     -> Varchar(MapText(LowerCase, asString(args[1])))
         [] name = "TRIM"      -> Varchar(Trim(asString(args[1])))
         [] name = "SUBSTRING" -> Substring(args)
         [] name = "ABS"       -> Absolute(args[1])
         [] name = "ROUND"     -> Round(args)
         [] name = "CEIL"      -> Bigint(ToInteger(Ceiling(to_double(args[1]))))
         [] name = "FLOOR"     -> Bigint(ToInteger(Floored(to_double(args[1]))))
         [] name = "MOD"       -> Mod(args)

(***************************************************************************)
(* matchLikePattern: match[i, j] says that the first i characters match    *)
(* the first j of the pattern.                                             *)
(***************************************************************************)
matchLikePattern(str, pattern) ==
  LET match[i \in 0..Len(str), j \in 0..Len(pattern)] ==
        IF j = 0 THEN i = 0
        ELSE CASE pattern[j] = "%" -> match[i, j-1] \/ (i > 0 /\ match[i-1, j])
               [] pattern[j] = "_" -> i > 0 /\ match[i-1, j-1]
               [] OTHER            -> i > 0 /\ match[i-1, j-1] /\ str[i] = pattern[j]
  IN  match[Len(str), Len(pattern)]

(***************************************************************************)
(* Operators.                                                              *)
(***************************************************************************)
LogicalOps    == {"AND", "OR"}
ComparisonOps == {"=", "<>", "<", ">", "<=", ">="}

\* a NULL operand of AND gives NULL, of OR the other operand
Logical(op, left, right) ==
  IF op = "AND"
  THEN IF isNull(left) \/ isNull(right) THEN Null ELSE Boolean(asBool(left) /\ asBool(right))
  ELSE IF isNull(left) /\ isNull(right) THEN Null
       ELSE Boolean(\/ ~isNull(left) /\ asBool(left)
                    \/ ~isNull(right) /\ asBool(right))

Outcome(op, less, same, greater) ==
  Boolean(CASE op = "="  -> same
            [] op = "<>" -> ~same
            [] op = "<"  -> less
            [] op = ">"  -> greater
            [] op = "<=" -> less \/ same
            [] op = ">=" -> greater \/ same)
\* by type and payload, as Value compares
TypedComparison(op, v, w) == Outcome(op, lessThan(v, w), equals(v, w), lessThan(w, v))
\* two numbers are compared as doubles, whatever their types
Comparison(op, v, w) ==
  IF isNumeric(v) /\ isNumeric(w)
  THEN LET p == to_double(v) q == to_double(w)
       IN  Outcome(op, FractionLess(p, q), FractionEqual(p, q), FractionLess(q, p))
  ELSE TypedComparison(op, v, w)

DoubleArithmetic(op, v, w) ==
  LET p == to_double(v) q == to_double(w)
  IN  CASE op = "+" -> Double(Plus(p, q))
        [] op = "-" -> Double(Plus(p, Negative(q)))
        [] op = "*" -> Double(Times(p, q))
        [] op = "/" -> IF q.n = 0 /\ ~IsNaN(q) THEN Null ELSE Double(Over(p, q))
        [] OTHER    -> Null                                        \* % and ||
IntegerArithmetic(op, v, w) ==
  LET m == payload(v) n == payload(w)
  IN  CASE op = "+" -> Integer(m + n)
        [] op = "-" -> Integer(m - n)
        [] op = "*" -> Integer(m * n)
        [] op = "/" -> IF n = 0 THEN Null ELSE Integer(Truncated(Over(Whole(m), Whole(n))))
        [] OTHER    -> Null
\* only two INTEGERs stay integers
Arithmetic(op, v, w) ==
  IF typeId(v) = "INTEGER" /\ typeId(w) = "INTEGER" THEN IntegerArithmetic(op, v, w)
                                                    ELSE DoubleArithmetic(op, v, w)

BinaryValue(op, v, w) ==
  IF op \in LogicalOps THEN Logical(op, v, w)
  ELSE IF isNull(v) \/ isNull(w) THEN Null
  ELSE IF op \in ComparisonOps THEN Comparison(op, v, w) ELSE Arithmetic(op, v, w)

Negated(v) ==
  CASE isInteger(v)                     -> <<typeId(v), -payload(v)>>
    [] typeId(v) \in {"FLOAT", "DOUBLE"} -> <<typeId(v), Negative(payload(v))>>
    [] OTHER                            -> Null
UnaryValue(op, v) ==
  CASE op = "+"   -> v
    [] isNull(v)  -> Null
    [] op = "NOT" -> Boolean(~asBool(v))
    [] op = "-"   -> Negated(v)

\* values are compared by type and payload; a NULL in the list is passed over
InValue(v, list, negated) ==
  IF isNull(v) THEN Null
  ELSE LET found == \E i \in DOMAIN list : ~isNull(list[i]) /\ equals(v, list[i])
       IN  Boolean(found # negated)
BetweenValue(v, low, high, negated) ==
  IF isNull(v) \/ isNull(low) \/ isNull(high) THEN Null
  ELSE Boolean((~lessThan(v, low) /\ ~lessThan(high, v)) # negated)
LikeValue(str, pattern, negated) ==
  IF isNull(str) \/ isNull(pattern) THEN Null
  ELSE Boolean(matchLikePattern(asString(str), asString(pattern)) # negated)
NullifValue(v, w) == IF ~isNull(v) /\ ~isNull(w) /\ equals(v, w) THEN Null ELSE v
FirstPresent(list) ==
  LET present == {i \in DOMAIN list : ~isNull(list[i])}
  IN  IF present = {} THEN Null ELSE list[Min(present)]

(***************************************************************************)
(* Executor::evaluateExpr.  Evaluation has no effects, so every argument   *)
(* may be evaluated although the code stops at the first that decides.     *)
(***************************************************************************)
RECURSIVE evaluateExpr(_, _, _)
evaluateExpr(e, row, schema) ==
  LET E(x) == evaluateExpr(x, row, schema)
      All(list) == [i \in DOMAIN list |-> E(list[i])]
  IN  CASE e.node = "LITERAL"    -> LiteralValue(e)
        [] e.node = "COLUMN_REF" -> IF hasColumn(schema, e.column)
                                    THEN row[columnIndex(schema, e.column)] ELSE Null
        [] e.node = "BINARY"     -> BinaryValue(e.op, E(e.left), E(e.right))
        [] e.node = "UNARY"      -> UnaryValue(e.op, E(e.operand))
        [] e.node = "IS_NULL"    -> Boolean(isNull(E(e.expr)) # e.negated)
        [] e.node = "CASE"       ->
             LET taken == {i \in DOMAIN e.whens : LET c == E(e.whens[i][1])
                                                  IN  ~isNull(c) /\ asBool(c)}
             IN  IF taken = {} THEN E(e.else) ELSE E(e.whens[Min(taken)][2])
        [] e.node = "IN"         -> InValue(E(e.expr), All(e.values), e.negated)
        [] e.node = "BETWEEN"    -> BetweenValue(E(e.expr), E(e.low), E(e.high), e.negated)
        [] e.node = "LIKE"       -> LikeValue(E(e.str), E(e.pattern), e.negated)
        [] e.node = "COALESCE"   -> FirstPresent(All(e.args))
        [] e.node = "NULLIF"     -> NullifValue(E(e.expr1), E(e.expr2))
        [] e.node = "FUNCTION_CALL" ->
             IF e.name \in DOMAIN Functions /\ Len(e.args) \in Functions[e.name]
             THEN CallFunction(e.name, All(e.args)) ELSE Null
        [] OTHER                 -> Null                \* no expression, an aggregate

\* Executor::evaluateWhereClause: NULL rejects, a value that is no BOOLEAN accepts
evaluateWhereClause(e, row, schema) ==
  \/ e = NoExpr
  \/ LET v == evaluateExpr(e, row, schema)
     IN  ~isNull(v) /\ (typeId(v) = "BOOLEAN" => payload(v))
=============================================================================
