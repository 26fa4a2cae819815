--------------------------- MODULE SqlDeviations ---------------------------
(***************************************************************************)
(* Where the program parts with SqlReference, and with the texts of the    *)
(* repository: AsTaken gives the statement that the program answers in     *)
(* place of the one it was given, one rule for each known disagreement     *)
(* (README, "Where the code and its texts disagree").  A statement that no *)
(* rule concerns is taken as it is.  Nothing here models code: these are   *)
(* the exceptions of the properties of SqlSession, written as statements   *)
(* of SQL.                                                                 *)
(*                                                                         *)
(* Types are those of the program, which tells an INTEGER from a BIGINT;   *)
(* where a CASE or COALESCE has results of several types the first counts. *)
(***************************************************************************)
EXTENDS SqlReference

Nothing == Literal("null", 0)
Truth(b) == Literal("bool", b)
\* NULL where x is
Unless(x, e) == Case(<<<<IsNull(x, FALSE), Nothing>>>>, e)
OrElse(x, b) == Coalesce(<<x, Truth(b)>>)

(***************************************************************************)
(* The columns in sight: all that the tables have, in their order, each    *)
(* with the table it belongs to.                                           *)
(***************************************************************************)
InSight(refs, db) ==
  FlattenSeq([k \in DOMAIN refs |->
    [i \in DOMAIN db[refs[k].name].schema |->
      [table |-> IF refs[k].alias = "" THEN refs[k].name ELSE refs[k].alias,
       name  |-> db[refs[k].name].schema[i].name, type |-> db[refs[k].name].schema[i].type]]])
PlacesOf(name, columns) == {i \in DOMAIN columns : columns[i].name = name}

(***************************************************************************)
(* Types.  whole is the type of a sum of two INTEGERs, which is DOUBLE in  *)
(* an expression over a group.                                             *)
(***************************************************************************)
Arithmetical == {"+", "-", "*", "/"}
RECURSIVE TypeOf(_, _, _)
TypeOf(e, columns, whole) ==
  LET T(x) == TypeOf(x, columns, whole)
  IN  CASE e.node = "LITERAL"    -> LiteralValue(e)[1]
        [] e.node = "COLUMN_REF" -> IF PlacesOf(e.column, columns) = {} THEN "SQL_NULL"
                                    ELSE columns[Max(PlacesOf(e.column, columns))].type
        [] e.node = "BINARY"     -> IF e.op \notin Arithmetical THEN "BOOLEAN"
                                    ELSE IF T(e.left) = "INTEGER" /\ T(e.right) = "INTEGER" THEN whole ELSE "DOUBLE"
        [] e.node = "UNARY"      -> IF e.op = "NOT" THEN "BOOLEAN" ELSE T(e.operand)
        [] e.node = "CASE"       -> T(e.whens[1][2])
        [] e.node = "COALESCE"   -> T(e.args[1])
        [] e.node = "NULLIF"     -> T(e.expr1)
        [] e.node = "FUNCTION_CALL" ->
             (CASE e.name \in {"LENGTH", "CEIL", "FLOOR"} -> "BIGINT"
                [] e.name = "ABS"   -> T(e.args[1])
                [] e.name = "ROUND" -> "DOUBLE"
                [] e.name = "MOD"   -> IF {T(e.args[1]), T(e.args[2])} \subseteq IntegerTypes THEN "BIGINT" ELSE "DOUBLE"
                [] OTHER            -> "VARCHAR")
        [] e.node = "AGGREGATE"  ->
             (CASE e.agg = "COUNT" -> "INTEGER"
                [] e.agg = "SUM"   -> IF T(e.arg) \in IntegerTypes THEN "BIGINT" ELSE "DOUBLE"
                [] e.agg = "AVG"   -> "DOUBLE"
                [] OTHER           -> T(e.arg))
        [] OTHER -> "BOOLEAN"

(***************************************************************************)
(* Rules for expressions.                                                  *)
(***************************************************************************)
\* Values of two types are never equal, and their types decide which is less
\* (Value::equals, Value::lessThan); so compare BETWEEN, IN, NULLIF and everything in
\* HAVING.  The texts have `a IN (1, 2, 3)`, `a BETWEEN 1 AND 10`, NULLIF(a, 0) and
\* HAVING COUNT(*) > 1 (docs/superpowers/specs/2026-03-11-seeddb-design.md:371,380-384).
ByType(op, x, y, t, u) ==
  IF t = u THEN Binary(op, x, y)
  ELSE Unless(x, Unless(y, Truth(CASE op \in {"<", "<="} -> TypeId[t] < TypeId[u]
                                   [] op \in {">", ">="} -> TypeId[t] > TypeId[u]
                                   [] op = "="  -> FALSE
                                   [] op = "<>" -> TRUE)))
\* AND and OR: a NULL beside FALSE makes AND a NULL, beside a value OR passes over it
Connected(op, x, y) ==
  IF op = "AND" THEN Unless(x, Unless(y, Binary("AND", x, y)))
  ELSE Case(<<<<Binary("AND", IsNull(x, FALSE), IsNull(y, FALSE)), Nothing>>>>,
            Binary("OR", OrElse(x, FALSE), OrElse(y, FALSE)))
\* A NULL in the list of IN is passed over, where NOT IN is "never true" according to
\* openspec/changes/expression-enhancement/design.md:75-76.
Listed(x, values, negated) ==
  LET found == IF values = <<>> THEN Truth(FALSE) ELSE OrElse(In(x, values, FALSE), FALSE)
  IN  Unless(x, IF negated THEN Unary("NOT", found) ELSE found)
\* "divisor = 0 -> NULL" (docs/superpowers/specs/2026-03-22-builtin-functions-design.md:197):
\* it is the divisor 1 that gives NULL; 0 gives what a NaN converts to, in this build the least number
Mod01(x, y) ==
  Case(<<<<Binary("=", y, Literal("int", 1)), Nothing>>,
         <<Binary("AND", Binary("=", y, Literal("int", 0)), IsNull(x, TRUE)), Literal("int", -Far)>>>>,
       FunctionCall("MOD", <<x, y>>))
\* A column is looked up by its name alone, and found in the last table that has it
\* (against docs/superpowers/specs/2026-03-23-join-support-design.md:311-335); one that
\* nobody has is NULL and not an error (openspec/changes/cli-repl-tool/specs/cli-repl/spec.md:104-106).
Lookup(ref, columns) ==
  IF PlacesOf(ref.column, columns) = {} THEN Nothing
  ELSE ColumnRef(columns[Max(PlacesOf(ref.column, columns))].table, ref.column)

\* An expression over a row.  An aggregate there is NULL.
RECURSIVE Taken(_, _)
Taken(e, columns) ==
  LET X(x) == Taken(x, columns)
      T(x) == TypeOf(x, columns, "INTEGER")
      All(list) == [i \in DOMAIN list |-> X(list[i])]
      ByTypes(op, x, y) == ByType(op, X(x), X(y), T(x), T(y))
  IN  CASE e.node = "COLUMN_REF" -> Lookup(e, columns)
        [] e.node = "BINARY"  -> IF e.op \in {"AND", "OR"} THEN Connected(e.op, X(e.left), X(e.right))
                                 ELSE Binary(e.op, X(e.left), X(e.right))
        [] e.node = "UNARY"   -> Unary(e.op, X(e.operand))
        [] e.node = "IS_NULL" -> IsNull(X(e.expr), e.negated)
        [] e.node = "CASE"    -> Case([i \in DOMAIN e.whens |-> All(e.whens[i])], X(e.else))
        [] e.node = "IN"      -> Listed(X(e.expr), All(SelectSeq(e.values, LAMBDA v : T(v) = T(e.expr))), e.negated)
        [] e.node = "BETWEEN" ->
             LET within == Connected("AND", ByTypes(">=", e.expr, e.low), ByTypes("<=", e.expr, e.high))
             IN  IF e.negated THEN Unary("NOT", within) ELSE within
        [] e.node = "LIKE"    -> Like(X(e.str), X(e.pattern), e.negated)
        [] e.node = "NULLIF"  -> IF T(e.expr1) = T(e.expr2) THEN Nullif(X(e.expr1), X(e.expr2)) ELSE X(e.expr1)
        [] e.node = "COALESCE" -> Coalesce(All(e.args))
        [] e.node = "FUNCTION_CALL" -> IF e.name = "MOD" THEN Mod01(X(e.args[1]), X(e.args[2]))
                                       ELSE FunctionCall(e.name, All(e.args))
        [] e.node = "AGGREGATE" -> Nothing
        [] OTHER -> e

\* An expression over a group: quotients are not those of integers, DISTINCT is kept for
\* COUNT alone, and what evaluateExprWithAggregates does not list (CASE, IN, IS NULL,
\* functions) is NULL.
RECURSIVE TakenInGroup(_, _)
TakenInGroup(e, columns) ==
  LET X(x) == TakenInGroup(x, columns)
      T(x) == TypeOf(x, columns, "DOUBLE")
  IN  CASE e.node = "COLUMN_REF" -> Lookup(e, columns)
        [] e.node = "LITERAL"    -> e
        [] e.node = "UNARY"      -> Unary(e.op, X(e.operand))
        [] e.node = "BINARY"     ->
             (CASE e.op \in {"AND", "OR"} -> Connected(e.op, X(e.left), X(e.right))
                [] e.op \in ComparisonOps -> ByType(e.op, X(e.left), X(e.right), T(e.left), T(e.right))
                [] e.op = "/" -> Binary("/", Binary("*", X(e.left), Literal("float", Ratio(1, 1))), X(e.right))
                [] OTHER      -> Binary(e.op, X(e.left), X(e.right)))
        [] e.node = "AGGREGATE"  -> Aggregate(e.agg, Taken(e.arg, columns), e.distinct /\ e.agg = "COUNT", e.star)
        [] OTHER -> Nothing

(***************************************************************************)
(* Rules for SELECT.                                                       *)
(***************************************************************************)
\* aggregates are looked for under operators and IS NULL only
RECURSIVE Noticed(_)
Noticed(e) == \/ e.node = "AGGREGATE"
              \/ e.node \in {"BINARY", "UNARY", "IS_NULL"} /\ \E x \in Operands(e) : Noticed(x)
TakenAsGrouped(s) == ~Joined(s) /\ (s.groupBy # <<>> \/ \E e \in Outputs(s) : Noticed(e))

\* The place an item of ORDER BY is looked up at, 0 for none: not in the select list, but
\* in a list of names that leaves out what is no column, or, in a join, in all the columns
\* of all tables.  What is not selected, or no column, is passed over
\* (openspec/changes/result-set-operations/specs/order-by/spec.md:8,37-41).
SortPlace(o, s, columns) ==
  LET name == o.expr.column
      IsColumn(it) == it.expr.node = "COLUMN_REF" /\ PlacesOf(it.expr.column, columns) # {}
      list == IF TakenAsGrouped(s) THEN s.items ELSE SelectSeq(s.items, IsColumn)
      hits == IF Joined(s) \/ s.all THEN PlacesOf(name, columns)
              ELSE {i \in DOMAIN list : list[i].alias = name \/ (IsColumn(list[i]) /\ list[i].expr.column = name)}
  IN  IF o.expr.node # "COLUMN_REF" THEN 0 ELSE IF hits = {} THEN 0 ELSE Min(hits)
\* beyond the row there is no telling what is compared: the rows come in any order
SortTaken(s, items, columns) ==
  LET place(i) == SortPlace(s.orderBy[i], s, columns)
      here == SelectSeq([i \in DOMAIN s.orderBy |-> i], LAMBDA i : place(i) # 0)
  IN  IF s.all THEN [k \in DOMAIN here |-> s.orderBy[here[k]]]
      ELSE IF \E k \in DOMAIN here : place(here[k]) > Len(items) THEN <<>>
      ELSE [k \in DOMAIN here |-> OrderBy(items[place(here[k])].expr, s.orderBy[here[k]].desc)]

\* The condition of a second join finds its own table beyond the row it has: it may hold or not.
Astray(i, s, db) ==
  i > 1 /\ \E ref \in Columns(s.joins[i].condition) :
             PlacesOf(ref.column, InSight(<<s.joins[i].table>>, db)) # {}
Unsettled(s, db) == \E i \in DOMAIN s.joins : Astray(i, s, db)
ConditionTaken(i, s, db) ==
  IF s.joins[i].condition = NoExpr \/ Astray(i, s, db) THEN NoExpr
  ELSE Taken(s.joins[i].condition, InSight(SubSeq(TableRefs(s), 1, i + 1), db))

\* A join forgets GROUP BY, HAVING and aggregates
\* (against docs/superpowers/specs/2026-03-23-join-support-design.md:384-388), a query with
\* groups DISTINCT, one without groups HAVING.
SelectTaken(s, db) ==
  LET columns == InSight(TableRefs(s), db)
      grouped == TakenAsGrouped(s)
      X(e)    == IF grouped THEN TakenInGroup(e, columns) ELSE Taken(e, columns)
      items   == [i \in DOMAIN s.items |-> Item(X(s.items[i].expr), s.items[i].alias)]
  IN  [s EXCEPT !.items    = items,
                !.distinct = @ /\ ~grouped,
                !.where    = Taken(@, columns),
                !.groupBy  = IF grouped THEN [i \in DOMAIN @ |-> Taken(@[i], columns)] ELSE <<>>,
                !.having   = CASE ~grouped -> NoExpr
                               [] grouped /\ @ = NoExpr -> Truth(TRUE)
                               [] OTHER -> X(@),
                !.joins    = [i \in DOMAIN @ |-> [@[i] EXCEPT !.condition = ConditionTaken(i, s, db)]],
                !.orderBy  = SortTaken(s, items, columns)]

\* Refused though it means something: a SUM or AVG of a BIGINT or FLOAT, an ORDER BY
\* that names an alias in a query with groups, LEFT and RIGHT JOIN
\* (docs/superpowers/specs/2026-03-23-join-support-design.md:619-620).
RECURSIVE Checked(_)
Checked(e) == CASE e.node = "COLUMN_REF" -> {e.column}
                [] e.node \in {"BINARY", "UNARY"} -> UNION {Checked(x) : x \in Operands(e)}
                [] OTHER -> {}
RefusedToo(s, db) ==
  LET keys == {s.groupBy[k].column : k \in {j \in DOMAIN s.groupBy : s.groupBy[j].node = "COLUMN_REF"}}
      checked == Outputs(s) \cup {s.orderBy[i].expr : i \in DOMAIN s.orderBy}
  IN  \/ \E i \in DOMAIN s.joins : s.joins[i].type \in {"LEFT", "RIGHT"}
      \/ /\ TakenAsGrouped(s)
         /\ \/ \E e \in checked : ~(Checked(e) \subseteq keys)
            \/ \E e \in Outputs(s) : \E x \in Totals(e) :
                 /\ x.agg \in {"SUM", "AVG"} /\ x.arg.node = "COLUMN_REF"
                 /\ \E c \in Found(x.arg, s, db) : c.type \in {"BIGINT", "FLOAT"}

\* rows are cut to the columns of the first table, whose names head them
Width(s, db) == Len(db[s.from.name].schema)

(***************************************************************************)
(* Rules for what is stored.                                               *)
(***************************************************************************)
\* A value reaches the column as it is, and the serializer reads its bytes by the type of
\* the column (against executor.cpp:167): a number of the wrong kind is zero there, or
\* large, and nothing is left of it in a string.
Kept(e, from, to) ==
  LET BySign(minus, plus) == Case(<<<<Binary("<", e, Literal("int", 0)), minus>>,
                                    <<Binary(">", e, Literal("int", 0)), plus>>>>, e)
  IN  CASE from \in {to, "SQL_NULL"} \/ (from = "BIGINT" /\ to = "INTEGER") -> e
        [] from = "INTEGER" /\ to = "BIGINT" -> BySign(Literal("int", Far), e)
        [] from = "DOUBLE" /\ to = "BIGINT"  -> BySign(Literal("int", -Far), Literal("int", Far))
        [] from = "BOOLEAN" /\ to \in IntegerTypes ->
             Unless(e, Case(<<<<e, Literal("int", 1)>>>>, Literal("int", 0)))
        [] OTHER -> Unless(e, CASE to = "VARCHAR" -> Literal("string", <<>>)
                                [] to = "BOOLEAN" -> Truth(FALSE)
                                [] OTHER -> Literal("int", 0))

\* INSERT takes literals only, and ignores its list of columns.
InsertTaken(s, columns) ==
  LET from(v, to) == IF LiteralValue(v)[1] = "DOUBLE" /\ to = "FLOAT" THEN to ELSE LiteralValue(v)[1]
  IN  IF \E i \in DOMAIN s.values : s.values[i].node # "LITERAL" THEN [stmt |-> "NONE"]
      ELSE [s EXCEPT !.columns = <<>>,
                     !.values  = [i \in DOMAIN @ |-> IF i > Len(columns) THEN @[i]
                                   ELSE Kept(@[i], from(@[i], columns[i].type), columns[i].type)]]
UpdateTaken(s, columns) ==
  LET Stored1(a) == IF PlacesOf(a[1], columns) = {} THEN a
                    ELSE <<a[1], Kept(Taken(a[2], columns), TypeOf(a[2], columns, "INTEGER"),
                                      columns[Max(PlacesOf(a[1], columns))].type)>>
  IN  [s EXCEPT !.assignments = [k \in DOMAIN @ |-> Stored1(@[k])], !.where = Taken(@, columns)]

AsTaken(s, db) ==
  LET here == InSight(<<TableRef(s.table, "")>>, db)
  IN  CASE s.stmt = "SELECT" -> IF \E i \in DOMAIN TableRefs(s) : TableRefs(s)[i].name \notin DOMAIN db THEN s
                                ELSE SelectTaken(s, db)
        [] s.stmt \in {"INSERT", "UPDATE", "DELETE"} ->
             (CASE s.table \notin DOMAIN db -> s
                [] s.table \in DOMAIN db /\ s.stmt = "INSERT" -> InsertTaken(s, here)
                [] s.table \in DOMAIN db /\ s.stmt = "UPDATE" -> UpdateTaken(s, here)
                [] s.table \in DOMAIN db /\ s.stmt = "DELETE" -> [s EXCEPT !.where = Taken(@, here)])
        [] OTHER -> s

\* shown is some of the rows of s, none more often than there are such rows
IsPart(shown, s, db, width) ==
  LET rows  == Visible(OutputRows(s, db), width)
      Times1(r, list) == Cardinality({i \in DOMAIN list : list[i] = r})
      out   == [i \in DOMAIN shown |-> NormRow(shown[i])]
  IN  \A i \in DOMAIN out : Times1(out[i], out) <= Times1(out[i], rows)

(***************************************************************************)
(* Rules for text.                                                         *)
(***************************************************************************)
\* What the user typed is not what the command line executes: it joins lines with a
\* blank, so that a comment reaches over all that follow and a string has a blank for
\* a new line; it takes a ";" at the end of any line, in a string or a comment, for the
\* end of the statement; and to the parser a character that the lexer refuses is the
\* end of the text.  The texts have "the complete accumulated SQL statement"
\* (openspec/changes/cli-repl-tool/specs/cli-repl/spec.md:29).
Misread(lines) ==
  LET Pair(line, c) == \E i \in 1..(Len(line) - 1) : line[i] = c /\ line[i + 1] = c
      quotes(i) == FoldLeft(LAMBDA n, l : n + Len(SelectSeq(l, LAMBDA c : c = "'")), 0, SubSeq(lines, 1, i))
  IN  \/ \E i \in 1..(Len(lines) - 1) :
           \/ Pair(lines[i], "-") \/ "#" \in {lines[i][k] : k \in DOMAIN lines[i]}
           \/ quotes(i) % 2 = 1
           \/ lines[i] # <<>> /\ Last(lines[i]) = ";"
      \/ \E i \in DOMAIN lines : {"@", "?", "\\"} \cap {lines[i][k] : k \in DOMAIN lines[i]} # {}

Expressions(s) ==
  LET Of(list) == {list[i] : i \in DOMAIN list}
  IN  CASE s.stmt = "SELECT" -> {s.items[i].expr : i \in DOMAIN s.items} \cup {s.where, s.having}
                                  \cup Of(s.groupBy) \cup {s.orderBy[i].expr : i \in DOMAIN s.orderBy}
                                  \cup {s.joins[i].condition : i \in DOMAIN s.joins}
        [] s.stmt = "INSERT" -> Of(s.values)
        [] s.stmt = "UPDATE" -> {s.assignments[k][2] : k \in DOMAIN s.assignments} \cup {s.where}
        [] s.stmt = "DELETE" -> {s.where}
        [] OTHER -> {}
\* the operands that are printed next to an operator that binds more than NOT and IS NULL
Exposed(e) == CASE e.node = "BINARY" -> IF e.op \in {"AND", "OR"} THEN {} ELSE {e.left, e.right}
                [] e.node \in {"IS_NULL", "IN"} -> {e.expr}
                [] e.node \in {"BETWEEN", "LIKE"} -> Operands(e)
                [] OTHER -> {}
\* toString does not double a quote, writes six digits of a fraction, puts no parentheses
\* around NOT and IS NULL, nor around the sign of a pattern, and writes CROSS JOIN as a
\* comma, which behind another JOIN is not read.
Misprinted(s) ==
  \/ \E e \in Expressions(s) : \E x \in Parts(e) :
       \/ /\ x.node = "LITERAL"
          /\ \/ x.value[1] = "string" /\ "'" \in {x.value[2][k] : k \in DOMAIN x.value[2]}
             \/ x.value[1] = "float" /\ 1000000 % x.value[2].d # 0
       \/ \E y \in Exposed(x) : y.node = "IS_NULL" \/ (y.node = "UNARY" /\ y.op = "NOT")
       \/ x.node = "LIKE" /\ x.pattern.node = "UNARY"
  \/ /\ s.stmt = "SELECT"
     /\ \E i, j \in DOMAIN s.joins : i < j /\ s.joins[i].type # "CROSS" /\ s.joins[j].type = "CROSS"
=============================================================================
