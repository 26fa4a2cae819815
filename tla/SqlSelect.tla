----------------------------- MODULE SqlSelect -----------------------------
(***************************************************************************)
(* SELECT: Executor::prepareSelect and what it calls.  db maps a table to  *)
(* [schema, rows], the rows in the order of the iterator.  The result is a *)
(* set of answers [ok, rows]: std::sort may leave rows of one key in any   *)
(* order, the hash map its groups.                                         *)
(***************************************************************************)
EXTENDS SqlAggregates, SqlOrder

Refused == [ok |-> FALSE, rows |-> <<>>]
Answer(rows) == [ok |-> TRUE, rows |-> rows]

projectRow(row, schema, stmt) ==
  IF stmt.all THEN row
  ELSE [i \in DOMAIN stmt.items |-> evaluateExpr(stmt.items[i].expr, row, schema)]

applyDistinct(stmt, rows) ==
  IF ~stmt.distinct THEN rows
  ELSE FoldLeft(LAMBDA kept, r : IF \E i \in DOMAIN kept : rowsEqual(r, kept[i]) THEN kept
                                 ELSE Append(kept, r), <<>>, rows)

\* Mutated form: the limit counts from the first row.
LimitFromStart(stmt, rows) ==
  LET limit == IF stmt.limit = <<>> THEN Len(rows) ELSE stmt.limit[1]
  IN  SubSeq(rows, IF stmt.offset = <<>> THEN 1 ELSE stmt.offset[1] + 1, Min({limit, Len(rows)}))

\* limit and offset are sequences of at most one number
applyLimitOffset(stmt, rows) ==
  LET offset == IF stmt.offset = <<>> THEN 0 ELSE stmt.offset[1]
      limit  == IF stmt.limit = <<>> THEN Len(rows) ELSE stmt.limit[1]
  IN  IF stmt.limit = <<>> /\ stmt.offset = <<>> THEN rows
      ELSE SubSeq(rows, offset + 1, Min({offset + limit, Len(rows)}))

(***************************************************************************)
(* Sorting.  A sort key is a pair of a column of the result schema and its *)
(* direction.  An ORDER BY item that is no column, or one the result       *)
(* schema does not have, is passed over.                                   *)
(***************************************************************************)
SortColumns(item, aliases, names) ==
  LET name   == IF item.expr.node = "COLUMN_REF" THEN item.expr.column ELSE ""
      behind == {a[1] : a \in {x \in aliases : x[2] = name}}
      actual == IF behind = {} THEN {name} ELSE behind
      at(n)  == {i \in DOMAIN names : names[i] = n}
  IN  {IF at(n) = {} THEN 0 ELSE Min(at(n)) : n \in actual}

Arrangements(rows) ==
  {[i \in DOMAIN rows |-> rows[p[i]]] : p \in Permutations(DOMAIN rows)}
\* a column beyond the row reads what lies there: any order may come out
Sorted(rows, keys) ==
  LET known == \A i \in DOMAIN rows, k \in DOMAIN keys : keys[k].column \in DOMAIN rows[i]
  IN  {seq \in Arrangements(rows) :
         known => \A i, j \in DOMAIN seq : i < j => ~Precedes(keys, seq[j], seq[i])}

SortKeys(stmt, aliases, names) ==
  LET n == Len(stmt.orderBy)
      columns(i) == SortColumns(stmt.orderBy[i], aliases, names)
      chosen == {c \in [1..n -> 0..Len(names)] : \A i \in 1..n : c[i] \in columns(i)}
  IN  {SelectSeq([i \in 1..n |-> [column |-> c[i], desc |-> stmt.orderBy[i].desc]],
                 LAMBDA k : k.column # 0) : c \in chosen}
sortResultRows(stmt, aliases, names, rows) ==
  IF stmt.orderBy = <<>> THEN {rows}
  ELSE UNION {Sorted(rows, keys) : keys \in SortKeys(stmt, aliases, names)}

Limited(stmt, arrangements) == {Answer(applyLimitOffset(stmt, rows)) : rows \in arrangements}

(***************************************************************************)
(* One table.                                                              *)
(***************************************************************************)
Names(schema) == [i \in DOMAIN schema |-> schema[i].name]
\* only columns are entered, so the schema is shorter than the row if an expression stands between
ResultNames(stmt, schema) ==
  IF stmt.all THEN Names(schema)
  ELSE LET columns == SelectSeq(stmt.items, LAMBDA it : /\ it.expr.node = "COLUMN_REF"
                                                        /\ hasColumn(schema, it.expr.column))
       IN  [i \in DOMAIN columns |-> columns[i].expr.column]
ResultAliases(stmt, schema) ==
  LET named == {i \in DOMAIN stmt.items : /\ stmt.items[i].expr.node = "COLUMN_REF"
                                          /\ hasColumn(schema, stmt.items[i].expr.column)
                                          /\ stmt.items[i].alias # ""}
      name(i) == stmt.items[i].expr.column
  IN  IF stmt.all THEN {}
      ELSE {<<name(i), stmt.items[i].alias>>
              : i \in {k \in named : \A j \in named : j > k => name(j) # name(k)}}

Selected(stmt, rows, schema) ==
  LET chosen == SelectSeq(rows, LAMBDA r : evaluateWhereClause(stmt.where, r, schema))
  IN  applyDistinct(stmt, [i \in DOMAIN chosen |-> projectRow(chosen[i], schema, stmt)])

PlainAnswers(stmt, rows, schema) ==
  Limited(stmt, sortResultRows(stmt, ResultAliases(stmt, schema), ResultNames(stmt, schema),
                               Selected(stmt, rows, schema)))

AggregateAnswers(stmt, rows, schema) ==
  IF ~validateAggregateQuery(stmt, schema) THEN {Refused}
  ELSE Limited(stmt,
         UNION {sortResultRows(stmt, AggregateAliases(stmt), computeAggregateResultSchema(stmt), out)
                  : out \in Arrangements(processAggregateQuery(stmt, rows, schema))})

(***************************************************************************)
(* Joins.  After the first join the left schema is that of all tables; an  *)
(* alias or a qualifier is not looked at, and GROUP BY, HAVING and         *)
(* aggregates are not either.                                              *)
(***************************************************************************)
JoinedTables(stmt) == <<stmt.from.name>> \o [i \in DOMAIN stmt.joins |-> stmt.joins[i].table.name]
buildJoinedSchema(stmt, db) ==
  FlattenSeq([i \in DOMAIN JoinedTables(stmt) |-> db[JoinedTables(stmt)[i]].schema])

crossJoinRows(left, right) ==
  FlattenSeq([i \in DOMAIN left |-> [j \in DOMAIN right |-> left[i] \o right[j]]])
\* A later condition is looked up in a schema wider than the row, where the last column
\* of a name is found (SqlRows): what lies behind the row may be anything.
Behind(width) == IF width <= 0 THEN {<<>>}
                 ELSE {[i \in 1..width |-> v] : v \in {Null, Integer(1)}}
\* Mutated form: the columns of the condition are looked up in the schemas in the wrong order.
SwappedJoinRows(left, right, condition, leftSchema, rightSchema) ==
  {SelectSeq(crossJoinRows(left, right), LAMBDA r : evaluateWhereClause(condition, r, rightSchema \o leftSchema))}
innerJoinRows(left, right, condition, leftSchema, rightSchema) ==
  LET pairs  == crossJoinRows(left, right)
      schema == leftSchema \o rightSchema
      width(i) == Len(schema) - Len(pairs[i])
      Kept(f) == SelectSeq([i \in DOMAIN pairs |-> i],
                           LAMBDA i : evaluateWhereClause(condition, pairs[i] \o f[i], schema))
      more == {f \in [DOMAIN pairs -> UNION {Behind(width(i)) : i \in DOMAIN pairs}] :
                 \A i \in DOMAIN pairs : f[i] \in Behind(width(i))}
  IN  IF condition = NoExpr THEN {pairs}
      ELSE {[k \in DOMAIN Kept(f) |-> pairs[Kept(f)[k]]] : f \in more}

\* the rows of all joins in turn, whatever lay behind them
JoinRows(stmt, db) ==
  LET tables == JoinedTables(stmt)
      left(i) == IF i = 1 THEN db[tables[1]].schema ELSE buildJoinedSchema(stmt, db)
      Step(results, i) ==
        UNION {innerJoinRows(rows, db[tables[i + 1]].rows, stmt.joins[i].condition,
                             left(i), db[tables[i + 1]].schema) : rows \in results}
  IN  FoldLeft(Step, {db[tables[1]].rows}, [i \in DOMAIN stmt.joins |-> i])

processJoins(stmt, db) ==
  LET schema == buildJoinedSchema(stmt, db)
  IN  IF \/ \E i \in DOMAIN JoinedTables(stmt) : JoinedTables(stmt)[i] \notin DOMAIN db
         \/ \E i \in DOMAIN stmt.joins : stmt.joins[i].type \notin {"CROSS", "INNER"}
      THEN {Refused}
      ELSE Limited(stmt, UNION {sortResultRows(stmt, {}, Names(schema), Selected(stmt, rows, schema))
                                  : rows \in JoinRows(stmt, db)})

prepareSelect(stmt, db) ==
  IF stmt.joins # <<>> THEN processJoins(stmt, db)
  ELSE IF stmt.from.name \notin DOMAIN db THEN {Refused}
  ELSE LET table == db[stmt.from.name]
       IN  IF hasAggregates(stmt) \/ stmt.groupBy # <<>>
           THEN AggregateAnswers(stmt, table.rows, table.schema)
           ELSE PlainAnswers(stmt, table.rows, table.schema)
=============================================================================
