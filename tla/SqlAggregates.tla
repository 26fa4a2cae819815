--------------------------- MODULE SqlAggregates ---------------------------
(***************************************************************************)
(* Grouping and aggregates: src/executor/aggregate.h and the aggregate     *)
(* half of the executor.  A group is a record of its key and one           *)
(* accumulator for each aggregate of the statement; the hash map that      *)
(* holds the groups is a sequence without a meaning of its order.          *)
(***************************************************************************)
EXTENDS SqlExpressions

(***************************************************************************)
(* Accumulators.  One record serves every class: each class reads only the *)
(* fields it keeps in the code.                                            *)
(***************************************************************************)
createAccumulator(agg) ==
  [of |-> agg, count |-> 0, sum |-> Whole(0), fractional |-> FALSE, best |-> Null, unique |-> <<>>]

Extreme(agg, best, v) ==
  CASE isNull(best)     -> v
    [] agg.agg = "MIN"  -> IF lessThan(v, best) THEN v ELSE best
    [] OTHER            -> IF lessThan(best, v) THEN v ELSE best

\* COUNT(*) is given a value that is not NULL; every class passes over NULL
Accumulate(acc, v) ==
  IF isNull(v) THEN acc
  ELSE [acc EXCEPT !.count = @ + 1,
                   !.sum = Plus(@, to_double(v)),
                   !.fractional = @ \/ typeId(v) \in {"FLOAT", "DOUBLE"},
                   !.best = IF acc.of.agg \in {"MIN", "MAX"} THEN Extreme(acc.of, @, v) ELSE @,
                   !.unique = IF \E i \in DOMAIN @ : equals(@[i], v) THEN @ ELSE Append(@, v)]

\* DISTINCT is kept for COUNT alone
Finalize(acc) ==
  LET agg == acc.of
  IN  CASE agg.agg = "COUNT" -> Integer(IF agg.distinct THEN Len(acc.unique) ELSE acc.count)
        [] acc.count = 0     -> Null
        [] agg.agg = "SUM"   -> IF acc.fractional THEN Double(acc.sum) ELSE Bigint(ToInteger(acc.sum))
        [] agg.agg = "AVG"   -> Double(Over(acc.sum, Whole(acc.count)))
        [] OTHER             -> acc.best

(***************************************************************************)
(* The aggregates of a statement.                                          *)
(***************************************************************************)
RECURSIVE exprHasAggregates(_)
exprHasAggregates(e) ==
  CASE e.node = "AGGREGATE" -> TRUE
    [] e.node = "BINARY"    -> exprHasAggregates(e.left) \/ exprHasAggregates(e.right)
    [] e.node = "UNARY"     -> exprHasAggregates(e.operand)
    [] e.node = "IS_NULL"   -> exprHasAggregates(e.expr)
    [] OTHER                -> FALSE
hasAggregates(stmt) ==
  \/ \E i \in DOMAIN stmt.items : exprHasAggregates(stmt.items[i].expr)
  \/ exprHasAggregates(stmt.having)

RECURSIVE collectAggregatesFromExpr(_)
collectAggregatesFromExpr(e) ==
  CASE e.node = "AGGREGATE" -> <<e>> \o collectAggregatesFromExpr(e.arg)
    [] e.node = "BINARY"    -> collectAggregatesFromExpr(e.left) \o collectAggregatesFromExpr(e.right)
    [] e.node = "UNARY"     -> collectAggregatesFromExpr(e.operand)
    [] e.node = "IS_NULL"   -> collectAggregatesFromExpr(e.expr)
    [] OTHER                -> <<>>
collectAggregates(stmt) ==
  FlattenSeq([i \in DOMAIN stmt.items |-> collectAggregatesFromExpr(stmt.items[i].expr)])
    \o collectAggregatesFromExpr(stmt.having)

(***************************************************************************)
(* Validation.                                                             *)
(***************************************************************************)
isColumnInGroupBy(name, stmt) ==
  \E i \in DOMAIN stmt.groupBy : /\ stmt.groupBy[i].node = "COLUMN_REF"
                                 /\ stmt.groupBy[i].column = name
RECURSIVE validateExprGroupByConstraint(_, _)
validateExprGroupByConstraint(e, stmt) ==
  CASE e.node = "COLUMN_REF" -> isColumnInGroupBy(e.column, stmt)
    [] e.node = "BINARY"     -> /\ validateExprGroupByConstraint(e.left, stmt)
                                /\ validateExprGroupByConstraint(e.right, stmt)
    [] e.node = "UNARY"      -> validateExprGroupByConstraint(e.operand, stmt)
    [] OTHER                 -> TRUE

\* a column of another type is refused, other arguments are not looked at
validateAggregateTypeConstraint(agg, schema) ==
  agg.agg \in {"SUM", "AVG"} =>
    /\ agg.arg # NoExpr
    /\ agg.arg.node = "COLUMN_REF" /\ hasColumn(schema, agg.arg.column)
         => schema[columnIndex(schema, agg.arg.column)].type \in {"INTEGER", "DOUBLE"}

validateAggregateQuery(stmt, schema) ==
  LET aggregates == collectAggregates(stmt)
  IN  \/ aggregates = <<>> /\ stmt.groupBy = <<>>
      \/ /\ \A i \in DOMAIN aggregates : validateAggregateTypeConstraint(aggregates[i], schema)
         /\ \A i \in DOMAIN stmt.items : validateExprGroupByConstraint(stmt.items[i].expr, stmt)
         /\ validateExprGroupByConstraint(stmt.having, stmt)
         /\ \A i \in DOMAIN stmt.orderBy : validateExprGroupByConstraint(stmt.orderBy[i].expr, stmt)

(***************************************************************************)
(* Groups.                                                                 *)
(***************************************************************************)
extractGroupKey(row, schema, stmt) ==
  [i \in DOMAIN stmt.groupBy |-> evaluateExpr(stmt.groupBy[i], row, schema)]
NewGroup(key, aggregates) ==
  [key |-> key, state |-> [i \in DOMAIN aggregates |-> createAccumulator(aggregates[i])]]
AggregateArgument(agg, row, schema) ==
  IF agg.star THEN Integer(1) ELSE evaluateExpr(agg.arg, row, schema)

AddToGroup(groups, row, schema, stmt) ==
  LET aggregates == collectAggregates(stmt)
      key   == extractGroupKey(row, schema, stmt)
      found == {i \in DOMAIN groups : rowsEqual(groups[i].key, key)}
      all   == IF found = {} THEN Append(groups, NewGroup(key, aggregates)) ELSE groups
      here  == IF found = {} THEN Len(all) ELSE Min(found)
  IN  [all EXCEPT ![here].state =
         [i \in DOMAIN @ |-> Accumulate(@[i], AggregateArgument(aggregates[i], row, schema))]]

\* Mutated form: no group where no row matches.
GroupsOfRows(stmt, rows, schema) ==
  FoldLeft(LAMBDA gs, r : AddToGroup(gs, r, schema, stmt), <<>>,
           SelectSeq(rows, LAMBDA r : evaluateWhereClause(stmt.where, r, schema)))

\* without GROUP BY there is a group even if no row matches
GroupRows(stmt, rows, schema) ==
  LET chosen == SelectSeq(rows, LAMBDA r : evaluateWhereClause(stmt.where, r, schema))
      groups == FoldLeft(LAMBDA gs, r : AddToGroup(gs, r, schema, stmt), <<>>, chosen)
  IN  IF groups = <<>> /\ stmt.groupBy = <<>> THEN <<NewGroup(<<>>, collectAggregates(stmt))>>
      ELSE groups

(***************************************************************************)
(* Expressions over a group.  Comparisons go by type and payload even      *)
(* between numbers, arithmetic is always done in doubles, and what the     *)
(* code does not list gives NULL.                                          *)
(***************************************************************************)
GroupColumn(name, group, stmt) ==
  LET at == {i \in DOMAIN stmt.groupBy : /\ stmt.groupBy[i].node = "COLUMN_REF"
                                         /\ stmt.groupBy[i].column = name}
  IN  IF at = {} THEN Null ELSE group.key[Min(at)]
GroupBinaryValue(op, v, w) ==
  IF op \in LogicalOps THEN Logical(op, v, w)
  ELSE IF isNull(v) \/ isNull(w) THEN Null
  ELSE IF op \in ComparisonOps THEN TypedComparison(op, v, w) ELSE DoubleArithmetic(op, v, w)
GroupUnaryValue(op, v) ==
  CASE op = "NOT" -> IF isNull(v) THEN Null ELSE Boolean(~asBool(v))
    [] op = "-" /\ typeId(v) \in {"DOUBLE", "BIGINT", "INTEGER"} -> Negated(v)
    [] OTHER      -> v

RECURSIVE evaluateExprWithAggregates(_, _, _)
evaluateExprWithAggregates(e, group, stmt) ==
  LET E(x) == evaluateExprWithAggregates(x, group, stmt)
  IN  CASE e.node = "AGGREGATE"  ->
             Finalize(group.state[CHOOSE i \in DOMAIN group.state : group.state[i].of = e])
        [] e.node = "COLUMN_REF" -> GroupColumn(e.column, group, stmt)
        [] e.node = "LITERAL"    -> LiteralValue(e)
        [] e.node = "BINARY"     -> GroupBinaryValue(e.op, E(e.left), E(e.right))
        [] e.node = "UNARY"      -> GroupUnaryValue(e.op, E(e.operand))
        [] OTHER                 -> Null

PassesHaving(group, stmt) ==
  \/ stmt.having = NoExpr
  \/ LET v == evaluateExprWithAggregates(stmt.having, group, stmt)
     IN  ~isNull(v) /\ asBool(v)
GroupRow(group, stmt) ==
  [i \in DOMAIN stmt.items |-> evaluateExprWithAggregates(stmt.items[i].expr, group, stmt)]

\* the rows of an aggregate query, in some order
processAggregateQuery(stmt, rows, schema) ==
  LET groups == SelectSeq(GroupRows(stmt, rows, schema), LAMBDA g : PassesHaving(g, stmt))
  IN  [i \in DOMAIN groups |-> GroupRow(groups[i], stmt)]

(***************************************************************************)
(* Names of the result columns.  aliases maps a name to the name looked up *)
(* in its place; of two entries for one name the later stays.              *)
(***************************************************************************)
generateAggregateName(agg) ==
  agg.agg \o "(" \o (IF agg.distinct THEN "DISTINCT " ELSE "")
    \o (IF agg.star THEN "*" ELSE IF agg.arg.node = "COLUMN_REF" THEN agg.arg.column
        ELSE IF agg.arg = NoExpr THEN "" ELSE "expr") \o ")"
AggregateColumnName(item) ==
  CASE item.alias # ""                -> item.alias
    [] item.expr.node = "AGGREGATE"   -> generateAggregateName(item.expr)
    [] item.expr.node = "COLUMN_REF"  -> item.expr.column
    [] OTHER                          -> "expr"
computeAggregateResultSchema(stmt) == [i \in DOMAIN stmt.items |-> AggregateColumnName(stmt.items[i])]
AggregateAliases(stmt) ==
  LET named == {i \in DOMAIN stmt.items : stmt.items[i].expr.node \in {"AGGREGATE", "COLUMN_REF"}}
      name(i) == AggregateColumnName(stmt.items[i])
  IN  {<<name(i), IF stmt.items[i].expr.node = "AGGREGATE" THEN name(i) ELSE stmt.items[i].expr.column>>
         : i \in {k \in named : \A j \in named : j > k => name(j) # name(k)}}
=============================================================================
