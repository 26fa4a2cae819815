---------------------------- MODULE SqlReference ----------------------------
(***************************************************************************)
(* What SQL means, stated without the program's ways of computing it: the  *)
(* reference that a session is compared with.  Truth has three values, the *)
(* NULL among them; numbers are compared by what they are worth; a table   *)
(* is a bag of rows.  Nothing here models code.                            *)
(***************************************************************************)
EXTENDS SqlText

(***************************************************************************)
(* Values.                                                                 *)
(***************************************************************************)
True  == Boolean(TRUE)
False == Boolean(FALSE)
IsTrue(v) == v = True

IsNumber(v) == v[1] \in NumericTypes
Worth(v) == IF v[1] \in IntegerTypes THEN Ratio(v[2], 1) ELSE v[2]
Norm(v) == IF IsNumber(v) THEN <<"NUMBER", Worth(v)>> ELSE v
NormRow(row) == [i \in DOMAIN row |-> Norm(row[i])]

Rank(s) == FoldLeft(LAMBDA k, i : 30 * k + (IF i \in DOMAIN s THEN Code[s[i]] ELSE 0), 0, <<1, 2, 3, 4>>)
Below(v, w) == IF IsNumber(v) THEN Worth(v).n * Worth(w).d < Worth(w).n * Worth(v).d
                              ELSE Rank(v[2]) < Rank(w[2])

AllOf(T) == IF False \in T THEN False ELSE IF Null \in T THEN Null ELSE True
AnyOf(T) == IF True \in T THEN True ELSE IF Null \in T THEN Null ELSE False
Opposite(v) == CASE v = True -> False [] v = False -> True [] OTHER -> Null
Holds(v, op, w) ==
  IF v = Null \/ w = Null THEN Null
  ELSE Boolean(CASE op = "="  -> Norm(v) = Norm(w)
                 [] op = "<>" -> Norm(v) # Norm(w)
                 [] op = "<"  -> Below(v, w)
                 [] op = ">"  -> Below(w, v)
                 [] op = "<=" -> ~Below(w, v)
                 [] op = ">=" -> ~Below(v, w))

\* a string matches if it can be cut into what the characters of the pattern stand for
Fits(s, pattern) ==
  \E cut \in [0..Len(pattern) -> 0..Len(s)] :
    /\ cut[0] = 0 /\ cut[Len(pattern)] = Len(s)
    /\ \A j \in 1..Len(pattern) :
         CASE pattern[j] = "%" -> cut[j] >= cut[j-1]
           [] pattern[j] = "_" -> cut[j] = cut[j-1] + 1
           [] OTHER            -> cut[j] = cut[j-1] + 1 /\ s[cut[j]] = pattern[j]

Calculated(v, op, w) ==
  LET p == Worth(v) q == Worth(w)
      exact == CASE op = "+" -> Plus(p, q)
                 [] op = "-" -> Plus(p, Ratio(-q.n, q.d))
                 [] op = "*" -> Ratio(p.n * q.n, p.d * q.d)
                 [] op = "/" /\ q.n > 0 -> Ratio(p.n * q.d, p.d * q.n)
                 [] op = "/" /\ q.n < 0 -> Ratio(-(p.n * q.d), p.d * (-q.n))
                 [] OTHER    -> NaN
  IN  IF v = Null \/ w = Null THEN Null
      ELSE IF op = "/" /\ q.n = 0 THEN Null
      ELSE IF v[1] = "INTEGER" /\ w[1] = "INTEGER" THEN Integer(Truncated(exact)) ELSE Double(exact)

(***************************************************************************)
(* Functions.                                                              *)
(***************************************************************************)
Small == -20..20
Nearest(p) == CHOOSE k \in Small : /\ 2 * Magnitude(k * p.d - p.n) <= p.d
                                   /\ \A j \in Small : 2 * Magnitude(j * p.d - p.n) <= p.d
                                                         => Magnitude(j) <= Magnitude(k)
Stripped(s) == CHOOSE t \in {SubSeq(s, i, j) : i \in 1..(Len(s) + 1), j \in 0..Len(s)} :
                 /\ t # <<>> => t[1] # " " /\ Last(t) # " "
                 /\ \E i \in 0..(Len(s) - Len(t)) : /\ SubSeq(s, i + 1, i + Len(t)) = t
                                                    /\ \A k \in DOMAIN s : s[k] # " " => k \in (i+1)..(i+Len(t))
Applied(name, args) ==
  LET x == args[1] s == x[2]
  IN  CASE name = "CONCAT" -> IF \A i \in DOMAIN args : args[i] = Null THEN Null
                              ELSE Varchar(FoldLeft(LAMBDA t, v : IF v = Null THEN t ELSE t \o v[2],
                                                    <<>>, args))
        [] name # "CONCAT" /\ (\E i \in DOMAIN args : args[i] = Null) -> Null
        [] name = "LENGTH" -> Integer(Cardinality(DOMAIN s))
        [] name = "UPPER"  -> Varchar([i \in DOMAIN s |-> IF s[i] = "a" THEN "A" ELSE IF s[i] = "b" THEN "B" ELSE s[i]])
        [] name = "LOWER"  -> Varchar([i \in DOMAIN s |-> IF s[i] = "A" THEN "a" ELSE IF s[i] = "B" THEN "b" ELSE s[i]])
        [] name = "TRIM"   -> Varchar(Stripped(s))
        [] name = "SUBSTRING" ->
             Varchar(FoldLeft(LAMBDA t, i : IF i >= args[2][2] /\ (Len(args) = 3 => i < args[2][2] + args[3][2])
                                            THEN Append(t, s[i]) ELSE t, <<>>, [i \in DOMAIN s |-> i]))
        [] name = "ABS"    -> Double(IF Worth(x).n < 0 THEN Ratio(-Worth(x).n, Worth(x).d) ELSE Worth(x))
        [] name = "ROUND"  -> Integer(Nearest(Worth(x)))
        [] name = "FLOOR"  -> Integer(CHOOSE k \in Small : k * Worth(x).d <= Worth(x).n
                                                          /\ (k + 1) * Worth(x).d > Worth(x).n)
        [] name = "CEIL"   -> Integer(CHOOSE k \in Small : k * Worth(x).d >= Worth(x).n
                                                          /\ (k - 1) * Worth(x).d < Worth(x).n)
        [] name = "MOD"    ->
             LET m == Worth(x).n n == Magnitude(Worth(args[2]).n)
             IN  IF n = 0 THEN Null
                 ELSE Integer(CHOOSE k \in Small : /\ (m - k) % n = 0 /\ Magnitude(k) < n
                                                   /\ k # 0 => (k < 0) = (m < 0))

(***************************************************************************)
(* Aggregates, of a sequence of values.                                    *)
(***************************************************************************)
Total(agg, values) ==
  LET present == SelectSeq(values, LAMBDA v : v # Null)
      members == {present[i] : i \in DOMAIN present}
      taken   == IF agg.distinct THEN SetToSeq(members) ELSE present
      sum     == FoldLeft(LAMBDA p, v : Plus(p, Worth(v)), Ratio(0, 1), taken)
  IN  CASE agg.agg = "COUNT" -> Integer(IF agg.star THEN Len(values)
                                        ELSE Len(taken))
        [] agg.agg # "COUNT" /\ present = <<>> -> Null
        [] agg.agg = "SUM"   -> Double(sum)
        [] agg.agg = "AVG"   -> Double(Ratio(sum.n, sum.d * Len(taken)))
        [] agg.agg = "MIN"   -> CHOOSE v \in members : \A w \in members : ~Below(w, v)
        [] agg.agg = "MAX"   -> CHOOSE v \in members : \A w \in members : ~Below(v, w)

(***************************************************************************)
(* Expressions.  A row is a sequence of [table, name, value]; an           *)
(* expression means something for a group of rows, of which it sees the    *)
(* columns of the first.                                                   *)
(***************************************************************************)
InRow(ref, row) ==
  LET here == {i \in DOMAIN row : row[i].name = ref.column /\ ref.table \in {"", row[i].table}}
  IN  IF here = {} THEN Null ELSE row[CHOOSE i \in here : TRUE].value

RECURSIVE Meaning(_, _)
Meaning(e, group) ==
  LET M(x) == Meaning(x, group)
      Signed3(truth) == IF e.negated THEN Opposite(truth) ELSE truth
  IN  CASE e.node = "NONE"       -> Null
        [] e.node = "LITERAL"    -> LiteralValue(e)
        [] e.node = "COLUMN_REF" -> IF group = <<>> THEN Null ELSE InRow(e, group[1])
        [] e.node = "BINARY"     ->
             CASE e.op = "AND" -> AllOf({M(e.left), M(e.right)})
               [] e.op = "OR"  -> AnyOf({M(e.left), M(e.right)})
               [] e.op \in {"=", "<>", "<", ">", "<=", ">="} -> Holds(M(e.left), e.op, M(e.right))
               [] OTHER -> Calculated(M(e.left), e.op, M(e.right))
        [] e.node = "UNARY"      -> IF e.op = "NOT" THEN Opposite(M(e.operand))
                                    ELSE Calculated(Integer(0), e.op, M(e.operand))
        [] e.node = "IS_NULL"    -> Signed3(Boolean(M(e.expr) = Null))
        [] e.node = "CASE"       ->
             IF e.whens = <<>> THEN M(e.else)
             ELSE IF IsTrue(M(e.whens[1][1])) THEN M(e.whens[1][2])
             ELSE M([e EXCEPT !.whens = Tail(@)])
        [] e.node = "IN"         -> Signed3(AnyOf({Holds(M(e.expr), "=", M(e.values[i])) : i \in DOMAIN e.values}))
        [] e.node = "BETWEEN"    -> Signed3(AllOf({Holds(M(e.low), "<=", M(e.expr)), Holds(M(e.expr), "<=", M(e.high))}))
        [] e.node = "LIKE"       -> IF M(e.str) = Null \/ M(e.pattern) = Null THEN Null
                                    ELSE Signed3(Boolean(Fits(M(e.str)[2], M(e.pattern)[2])))
        [] e.node = "COALESCE"   -> IF e.args = <<>> THEN Null
                                    ELSE IF M(e.args[1]) # Null THEN M(e.args[1])
                                    ELSE M([e EXCEPT !.args = Tail(@)])
        [] e.node = "NULLIF"     -> IF IsTrue(Holds(M(e.expr1), "=", M(e.expr2))) THEN Null ELSE M(e.expr1)
        [] e.node = "FUNCTION_CALL" -> Applied(e.name, [i \in DOMAIN e.args |-> M(e.args[i])])
        [] e.node = "AGGREGATE"  -> Total(e, [i \in DOMAIN group |->
                                              IF e.star THEN True ELSE Meaning(e.arg, <<group[i]>>)])

\* the expressions an expression is made of
Operands(e) ==
  LET Of(list) == {list[i] : i \in DOMAIN list}
  IN  CASE e.node = "BINARY"    -> {e.left, e.right}
        [] e.node = "UNARY"     -> {e.operand}
        [] e.node = "IS_NULL"   -> {e.expr}
        [] e.node = "CASE"      -> {e.else} \cup UNION {Of(e.whens[i]) : i \in DOMAIN e.whens}
        [] e.node = "IN"        -> {e.expr} \cup Of(e.values)
        [] e.node = "BETWEEN"   -> {e.expr, e.low, e.high}
        [] e.node = "LIKE"      -> {e.str, e.pattern}
        [] e.node = "NULLIF"    -> {e.expr1, e.expr2}
        [] e.node = "AGGREGATE" -> {e.arg}
        [] e.node \in {"COALESCE", "FUNCTION_CALL"} -> Of(e.args)
        [] OTHER                -> {}
RECURSIVE Parts(_), Bare(_)
Parts(e) == {e} \cup UNION {Parts(x) : x \in Operands(e)}
Columns(e) == {x \in Parts(e) : x.node = "COLUMN_REF"}
Totals(e)  == {x \in Parts(e) : x.node = "AGGREGATE"}
\* the columns that stand outside of aggregates
Bare(e) == CASE e.node = "COLUMN_REF" -> {e}
             [] e.node = "AGGREGATE"  -> {}
             [] OTHER -> UNION {Bare(x) : x \in Operands(e)}

(***************************************************************************)
(* SELECT.                                                                 *)
(***************************************************************************)
TableRefs(s) == <<s.from>> \o [i \in DOMAIN s.joins |-> s.joins[i].table]
Labelled(ref, schema, row) ==
  [i \in DOMAIN schema |-> [table |-> IF ref.alias = "" THEN ref.name ELSE ref.alias,
                            name |-> schema[i].name, value |-> row[i]]]
Product(s, db) ==
  FoldLeft(LAMBDA rows, ref :
             FlattenSeq([i \in DOMAIN rows |->
               [j \in DOMAIN db[ref.name].rows |->
                 rows[i] \o Labelled(ref, db[ref.name].schema, db[ref.name].rows[j])]]),
           <<<<>>>>, TableRefs(s))
Chosen(s, db) ==
  SelectSeq(Product(s, db), LAMBDA row :
    /\ s.where # NoExpr => IsTrue(Meaning(s.where, <<row>>))
    /\ \A i \in DOMAIN s.joins : s.joins[i].condition # NoExpr => IsTrue(Meaning(s.joins[i].condition, <<row>>)))

Joined(s) == s.joins # <<>>
Grouped(s) == s.groupBy # <<>> \/ s.having # NoExpr \/ \E i \in DOMAIN s.items : Totals(s.items[i].expr) # {}
Groups(s, db) ==
  LET rows == Chosen(s, db)
      Key(row) == [i \in DOMAIN s.groupBy |-> Norm(Meaning(s.groupBy[i], <<row>>))]
      keys == {Key(rows[i]) : i \in DOMAIN rows}
  IN  IF ~Grouped(s) THEN [i \in DOMAIN rows |-> <<rows[i]>>]
      ELSE IF s.groupBy = <<>> THEN <<rows>>
      ELSE LET order == SetToSeq(keys)
           IN  [k \in DOMAIN order |-> SelectSeq(rows, LAMBDA row : Key(row) = order[k])]

OutputRow(s, group) ==
  IF s.all THEN [i \in DOMAIN group[1] |-> Norm(group[1][i].value)]
  ELSE [i \in DOMAIN s.items |-> Norm(Meaning(s.items[i].expr, group))]
OutputRows(s, db) ==
  LET passing == SelectSeq(Groups(s, db), LAMBDA g : s.having # NoExpr => IsTrue(Meaning(s.having, g)))
      rows == [i \in DOMAIN passing |-> OutputRow(s, passing[i])]
  IN  IF s.distinct THEN SetToSeq({rows[i] : i \in DOMAIN rows}) ELSE rows

\* the place of an ORDER BY item among the columns that are put out
Place(s, o, db) ==
  LET labels == FlattenSeq([i \in DOMAIN TableRefs(s) |-> db[TableRefs(s)[i].name].schema])
  IN  IF s.all THEN CHOOSE i \in DOMAIN labels : labels[i].name = o.expr.column
      ELSE CHOOSE i \in DOMAIN s.items : \/ s.items[i].expr = o.expr
                                         \/ o.expr.node = "COLUMN_REF" /\ s.items[i].alias = o.expr.column
\* NULL counts as above everything
Above(v, w) == IF w = Null THEN FALSE ELSE IF v = Null THEN TRUE
               ELSE IF v[1] = "NUMBER" THEN v[2].n * w[2].d > w[2].n * v[2].d ELSE Below(w, v)
InOrder(s, db, rows) ==
  \A i, j \in DOMAIN rows : i < j =>
    ~\E k \in DOMAIN s.orderBy :
       LET p(m) == Place(s, s.orderBy[m], db)
       IN  /\ \A m \in 1..(k-1) : rows[i][p(m)] = rows[j][p(m)]
           /\ IF s.orderBy[k].desc THEN Above(rows[j][p(k)], rows[i][p(k)])
                                   ELSE Above(rows[i][p(k)], rows[j][p(k)])
Cut(s, rows) ==
  LET from == IF s.offset = <<>> THEN 0 ELSE s.offset[1]
  IN  SelectSeq([i \in DOMAIN rows |-> <<i, rows[i]>>],
                LAMBDA x : x[1] > from /\ (s.limit # <<>> => x[1] <= from + s.limit[1]))
\* the rows are shown as far as there is room: width columns of each
Visible(rows, width) == [i \in DOMAIN rows |-> SubSeq(rows[i], 1, Min({width, Len(rows[i])}))]
IsAnswer(shown, s, db, width) ==
  LET rows == OutputRows(s, db)
      out  == [i \in DOMAIN shown |-> NormRow(shown[i])]
  IN  \E p \in Permutations(DOMAIN rows) :
        LET full == [i \in DOMAIN rows |-> rows[p[i]]]
            cut  == Cut(s, full)
        IN  InOrder(s, db, full) /\ out = Visible([i \in DOMAIN cut |-> cut[i][2]], width)

\* The tables and the columns are there (an ORDER BY may name an alias), and outside
\* aggregates a grouped query names only what it groups by.
Sources(s, db) ==
  UNION {LET ref == TableRefs(s)[i]
         IN  {[table |-> IF ref.alias = "" THEN ref.name ELSE ref.alias, column |-> c]
                : c \in {db[ref.name].schema[k] : k \in DOMAIN db[ref.name].schema}} : i \in DOMAIN TableRefs(s)}
Found(ref, s, db) == {x.column : x \in {y \in Sources(s, db) : y.column.name = ref.column /\ ref.table \in {"", y.table}}}
Outputs(s) == {s.items[i].expr : i \in DOMAIN s.items} \cup {s.having}
Sorts(s) == {o \in {s.orderBy[i].expr : i \in DOMAIN s.orderBy} :
               ~(o.node = "COLUMN_REF" /\ \E i \in DOMAIN s.items : s.items[i].alias = o.column)}
Answerable(s, db) ==
  /\ \A i \in DOMAIN TableRefs(s) : TableRefs(s)[i].name \in DOMAIN db
  /\ \A e \in Outputs(s) \cup Sorts(s) \cup {s.where} \cup {s.joins[i].condition : i \in DOMAIN s.joins} :
       \A ref \in Columns(e) : Found(ref, s, db) # {}
  /\ Grouped(s) =>
       /\ \A e \in Outputs(s) \cup Sorts(s) : Bare(e) \subseteq {s.groupBy[k] : k \in DOMAIN s.groupBy}
       /\ \A e \in Outputs(s) : \A x \in Totals(e) :
            x.agg \in {"SUM", "AVG"} =>
              \A ref \in Columns(x) : \A c \in Found(ref, s, db) : c.type \in NumericTypes

(***************************************************************************)
(* The other statements: the tables they leave, as bags of rows.           *)
(***************************************************************************)
BagOf(rows) ==
  LET normed == [i \in DOMAIN rows |-> NormRow(rows[i])]
  IN  [r \in {normed[i] : i \in DOMAIN normed} |-> Cardinality({i \in DOMAIN normed : normed[i] = r})]
SameTables(db, wanted) ==
  /\ DOMAIN db = DOMAIN wanted
  /\ \A t \in DOMAIN db : db[t].schema = wanted[t].schema /\ BagOf(db[t].rows) = BagOf(wanted[t].rows)

Types == [INT |-> "INTEGER", TEXT |-> "VARCHAR"]
Declared(c) == Column(c.name, IF c.type \in DOMAIN Types THEN Types[c.type] ELSE c.type, c.nullable)
Allowed(schema, row) ==
  Len(row) = Len(schema) /\ \A i \in DOMAIN schema : row[i] = Null => schema[i].nullable

Assigned(s, schema, row) ==
  [i \in DOMAIN schema |->
    LET mine == {k \in DOMAIN s.assignments : s.assignments[k][1] = schema[i].name}
    IN  IF mine = {} THEN row[i]
        ELSE Meaning(s.assignments[Max(mine)][2], <<Labelled(TableRef(s.table, ""), schema, row)>>)]

Effect(s, db) ==
  LET known  == s.table \in DOMAIN db
      schema == db[s.table].schema
      rows   == db[s.table].rows
      Where(row) == s.where = NoExpr
                    \/ IsTrue(Meaning(s.where, <<Labelled(TableRef(s.table, ""), schema, row)>>))
      columns == {schema[i].name : i \in DOMAIN schema}
      Resolved(es) == \A e \in es : \A ref \in Columns(e) : ref.column \in columns
      With(newRows) == [db EXCEPT ![s.table].rows = newRows]
  IN  CASE s.stmt \in {"NONE", "SELECT"} -> db
        [] s.stmt = "CREATE" ->
             IF known THEN db
             ELSE [t \in DOMAIN db \cup {s.table} |->
                    IF t = s.table
                    THEN [schema |-> [i \in DOMAIN s.columns |-> Declared(s.columns[i])], rows |-> <<>>]
                    ELSE db[t]]
        [] s.stmt = "DROP" -> [t \in DOMAIN db \ {s.table} |-> db[t]]
        [] s.stmt = "INSERT" ->
             LET given == IF s.columns = <<>> THEN [i \in DOMAIN schema |-> schema[i].name] ELSE s.columns
                 row == [i \in DOMAIN schema |->
                          LET mine == {k \in DOMAIN given : given[k] = schema[i].name}
                          IN  IF mine = {} THEN Null ELSE Meaning(s.values[Max(mine)], <<>>)]
             IN  IF known /\ Len(s.values) = Len(given) /\ Allowed(schema, row)
                 THEN With(Append(rows, row)) ELSE db
        [] s.stmt = "DELETE" ->
             IF known /\ Resolved({s.where}) THEN With(SelectSeq(rows, LAMBDA row : ~Where(row))) ELSE db
        [] s.stmt = "UPDATE" ->
             LET new == [i \in DOMAIN rows |-> IF Where(rows[i]) THEN Assigned(s, schema, rows[i]) ELSE rows[i]]
             IN  IF /\ known
                    /\ Resolved({s.where} \cup {s.assignments[k][2] : k \in DOMAIN s.assignments})
                    /\ \A k \in DOMAIN s.assignments : s.assignments[k][1] \in columns
                    /\ \A i \in DOMAIN new : Allowed(schema, new[i])
                 THEN With(new) ELSE db

(***************************************************************************)
(* How a user writes an expression: with parentheses only where they are   *)
(* needed.  Level 1 is OR, 2 AND, 3 NOT, 4 comparisons and their kind,     *)
(* 5 sums, 6 products, 7 signs, 8 what stands alone.                       *)
(***************************************************************************)
Level(e) ==
  CASE e.node = "BINARY" -> (CASE e.op = "OR" -> 1 [] e.op = "AND" -> 2
                               [] e.op \in {"+", "-", "||"} -> 5 [] e.op \in {"*", "/", "%"} -> 6
                               [] OTHER -> 4)
    [] e.node = "UNARY"  -> IF e.op = "NOT" THEN 3 ELSE 7
    [] e.node \in {"IS_NULL", "IN", "BETWEEN", "LIKE"} -> 4
    [] OTHER -> 8
RECURSIVE Typed(_, _)
Typed(e, level) ==
  LET T(x) == Typed(x, 1)
      List(es) == Separated([i \in DOMAIN es |-> T(es[i])])
      not == IF e.node \in {"IN", "BETWEEN", "LIKE", "IS_NULL"} /\ e.negated THEN Words(<<"NOT">>) ELSE <<>>
      plain ==
        CASE e.node = "BINARY"  ->
               LET side == IF Level(e) = 4 THEN 5 ELSE Level(e)
               IN  Typed(e.left, side) \o <<Operator(e.op)>> \o Typed(e.right, Level(e) + 1)
          [] e.node = "UNARY"   -> <<Operator(e.op)>> \o Typed(e.operand, Level(e))
          [] e.node = "IS_NULL" -> Typed(e.expr, 5) \o Words(<<"IS">>) \o not \o Words(<<"NULL">>)
          [] e.node = "IN"      -> Typed(e.expr, 5) \o not \o Words(<<"IN">>) \o Enclosed(List(e.values))
          [] e.node = "BETWEEN" -> Typed(e.expr, 5) \o not \o Words(<<"BETWEEN">>) \o Typed(e.low, 5)
                                     \o Words(<<"AND">>) \o Typed(e.high, 5)
          [] e.node = "LIKE"    -> Typed(e.str, 5) \o not \o Words(<<"LIKE">>) \o Typed(e.pattern, 8)
          [] e.node = "CASE"    ->
               Words(<<"CASE">>)
                 \o FlattenSeq([i \in DOMAIN e.whens |->
                      Words(<<"WHEN">>) \o T(e.whens[i][1]) \o Words(<<"THEN">>) \o T(e.whens[i][2])])
                 \o (IF e.else = NoExpr THEN <<>> ELSE Words(<<"ELSE">>) \o T(e.else)) \o Words(<<"END">>)
          [] e.node = "COALESCE" -> Words(<<"COALESCE">>) \o Enclosed(List(e.args))
          [] e.node = "NULLIF"   -> Words(<<"NULLIF">>) \o Enclosed(List(<<e.expr1, e.expr2>>))
          [] e.node = "FUNCTION_CALL" -> Words(<<e.name>>) \o Enclosed(List(e.args))
          [] OTHER -> IF e.node # "AGGREGATE" THEN ExprText(e)
                      ELSE Words(<<e.agg>>) \o Enclosed(IF e.star THEN Words(<<"*">>)
                             ELSE (IF e.distinct THEN Words(<<"DISTINCT">>) ELSE <<>>) \o T(e.arg))
  IN  IF Level(e) < level THEN Enclosed(plain) ELSE plain
TypedStatement(s) == LET X(e) == Typed(e, 1) IN StatementText(X, s)
=============================================================================
