---------------------------- MODULE MCSqlSession ----------------------------
(***************************************************************************)
(* Model checking of SqlSession: what the user may say.  One table with up *)
(* to MaxRows rows, or two with one row less each, or three with one; the  *)
(* kinds of statements depend on the tables, so that each kind meets all   *)
(* the tables it is interesting for.                                       *)
(***************************************************************************)
EXTENDS SqlSession

CONSTANTS MaxRows      \* bound: rows of a table

(***************************************************************************)
(* Layouts.                                                                *)
(***************************************************************************)
Plain(s) == <<OneLine(TypedStatement(s)) \o <<";">>>>

Glues(p) == IsWord(p) \/ p \in DigitSet
Tight(s) ==
  LET chunks == TypedStatement(s)
      Gap(i) == IF i > 1 /\ Glues(Last(chunks[i-1])) /\ Glues(chunks[i][1]) THEN <<" ">> ELSE <<>>
  IN  <<FlattenSeq([i \in DOMAIN chunks |-> Gap(i) \o chunks[i]]) \o <<";">>>>

Broken(s) ==
  LET chunks == TypedStatement(s)
      third == (Len(chunks) + 2) \div 3
  IN  <<OneLine(SubSeq(chunks, 1, third)),
        <<" ">> \o OneLine(SubSeq(chunks, third + 1, 2 * third)),
        OneLine(SubSeq(chunks, 2 * third + 1, Len(chunks))) \o <<";">>>>

\* a block comment over two lines with a semicolon in it behind the first word
Commented(s) ==
  LET chunks == TypedStatement(s)
  IN  <<chunks[1] \o <<"/", "*", ";", "A">>, <<"*", "/">> \o OneLine(Tail(chunks)) \o <<";">>>>

Typing(s, lines) == [stmt |-> s, lines |-> lines, heard |-> s]
Said(s) == Typing(s, Plain(s))
InAllLayouts(s) == {Typing(s, l) : l \in {Plain(s), Tight(s), Broken(s), Commented(s)}}
Misheard(s, lines, heard) == [stmt |-> s, lines |-> lines, heard |-> heard]

(***************************************************************************)
(* A vocabulary.                                                           *)
(***************************************************************************)
A == ColumnRef("", "A")
B == ColumnRef("", "B")
S == ColumnRef("", "S")
K == ColumnRef("", "K")
D == ColumnRef("", "D")
X == ColumnRef("", "X")         \* no table has it
Num(n) == Literal("int", n)
Dec(n, d) == Literal("float", Ratio(n, d))
Str(s) == Literal("string", s)
Nul == Literal("null", 0)
Call(name, args) == FunctionCall(name, args)
Agg(agg, e) == Aggregate(agg, e, FALSE, FALSE)
CountAll == Aggregate("COUNT", NoExpr, FALSE, TRUE)

Select(exprs, table) ==
  [EmptySelect EXCEPT !.items = [i \in DOMAIN exprs |-> Item(exprs[i], "")], !.from = TableRef(table, "")]
All(table) == [EmptySelect EXCEPT !.all = TRUE, !.from = TableRef(table, "")]
Where(s, e) == [s EXCEPT !.where = e]
Ordered(s, e, desc) == [s EXCEPT !.orderBy = Append(@, OrderBy(e, desc))]
Limit(s, n, k) == [s EXCEPT !.limit = <<n>>, !.offset = k]
Distinct(s) == [s EXCEPT !.distinct = TRUE]
GroupBy(s, es) == [s EXCEPT !.groupBy = es]
Having(s, e) == [s EXCEPT !.having = e]

(***************************************************************************)
(* Statements that change tables.                                          *)
(***************************************************************************)
CreateT == CreateTable("T", <<ColumnDef("A", "INT", 0, TRUE), ColumnDef("B", "BIGINT", 0, TRUE),
                              ColumnDef("S", "VARCHAR", 9, FALSE)>>)
CreateU == CreateTable("U", <<ColumnDef("K", "INT", 0, FALSE), ColumnDef("D", "DOUBLE", 0, TRUE)>>)
CreateV == CreateTable("V", <<ColumnDef("K", "INT", 0, TRUE)>>)

TRows == {<<Num(1), Nul, Str(<<"a">>)>>, <<Nul, Num(1), Str(<<"b">>)>>,
          <<Num(2), Num(1), Str(<<"a", "b">>)>>}
URows == {<<Num(1), Dec(3, 2)>>, <<Num(2), Nul>>}
\* the values reach the wrong columns, or a column of another type
OddInserts == {Insert("U", <<"D", "K">>, <<Dec(3, 2), Num(1)>>), Insert("U", <<>>, <<Num(1), Num(2)>>),
               Insert("U", <<>>, <<Str(<<"a">>), Dec(1, 2)>>)}
Misplaced == Insert("T", <<"B", "A", "S">>, <<Num(1), Num(2), Str(<<"a">>)>>)
StoredRow(values, schema) ==
  [i \in DOMAIN values |-> ConvertLiteral(values[i], schema[i].type)]
RefusedRows == {<<Num(1), Num(1), Nul>>, <<Num(1), Num(1)>>, <<Num(1), Binary("+", Num(1), Num(1)), Str(<<>>)>>}

Updates ==
  {Update("T", <<<<"A", B>>, <<"B", A>>>>, NoExpr),                      \* both see the old row
   Update("T", <<<<"A", Binary("+", A, A)>>, <<"S", Str(<<"b">>)>>>>, Binary("<=", A, Num(1))),
   Update("T", <<<<"A", Num(2)>>, <<"A", Nul>>>>, IsNull(B, TRUE)),      \* the later stays
   Update("T", <<<<"S", Call("CONCAT", <<S, S>>)>>, <<"B", Num(2)>>>>, Binary("=", S, Str(<<"a">>))),
   Update("T", <<<<"A", Binary("+", A, Num(1))>>>>, NoExpr),             \* no INTEGER any more
   Update("T", <<<<"B", Binary("-", A, Num(2))>>, <<"S", A>>>>, NoExpr),
   Update("T", <<<<"A", X>>, <<"B", Binary("=", A, Num(1))>>>>, NoExpr)}
RefusedUpdates ==
  {Update("T", <<<<"S", Case(<<<<Binary("=", A, Num(1)), Nul>>>>, S)>>>>, NoExpr),
   Update("T", <<<<"A", Num(1)>>, <<"X", Num(1)>>>>, NoExpr)}
Deletes ==
  {Delete("T", NoExpr), Delete("T", Binary("OR", Binary("=", A, Num(1)), Binary("=", S, Str(<<"b">>)))),
   Delete("T", Unary("NOT", Binary("=", A, Num(1)))), Delete("T", IsNull(X, FALSE)),
   Delete("T", In(A, <<Num(1), Num(2)>>, TRUE))}

(***************************************************************************)
(* Queries.                                                                *)
(***************************************************************************)
Conditions ==
  {Binary("AND", Binary("OR", Binary("=", A, Num(1)), Binary(">", B, Num(0))), Binary("<>", S, Str(<<"b">>))),
   Binary("OR", Binary("=", A, Num(2)), Binary("AND", Binary("<", A, Num(2)), Binary("=", S, Str(<<"a">>)))),
   Unary("NOT", Binary("<=", A, B)),
   IsNull(A, FALSE), IsNull(Binary("+", A, B), TRUE),
   In(S, <<Str(<<"a">>), Nul, Str(<<"b">>)>>, FALSE), In(B, <<Num(1), Num(2)>>, FALSE),
   In(S, <<Str(<<"a">>)>>, TRUE),
   Between(B, Num(1), Num(1), FALSE), Between(S, Str(<<"a">>), Str(<<"a", "b">>), TRUE),
   Like(S, Str(<<"%", "b">>), FALSE), Like(S, Str(<<"_">>), TRUE), Like(S, Str(<<"a", "%", "_">>), FALSE),
   Binary("=", Case(<<<<Binary("=", A, Num(1)), Num(1)>>, <<IsNull(A, FALSE), Num(2)>>>>, NoExpr), Num(2)),
   Binary("=", Coalesce(<<A, B>>), Num(1)), IsNull(Nullif(S, Str(<<"a">>)), FALSE),
   In(A, <<Num(1), Num(2)>>, FALSE), In(A, <<Num(1)>>, TRUE), In(S, <<Str(<<"a">>), Nul>>, TRUE),
   Between(A, Num(1), Num(2), FALSE), Between(A, Num(1), Num(2), TRUE), Between(A, B, Nul, TRUE),
   Unary("NOT", Binary("AND", Binary("=", A, Num(1)), Binary("=", B, Num(1)))),
   Unary("NOT", Binary("OR", Binary("=", A, Num(1)), Binary("=", B, Num(1)))),
   Binary("=", X, Num(1)), IsNull(Unary("NOT", Binary("=", A, Num(1))), FALSE),
   Binary("=", IsNull(A, FALSE), IsNull(B, FALSE))}

Plainly ==
  {All("T"), Distinct(Select(<<B>>, "T")), Distinct(Select(<<A, B>>, "T")),
   Ordered(Select(<<A, S>>, "T"), A, FALSE), Ordered(All("T"), A, TRUE),
   Ordered(Ordered(All("T"), B, TRUE), S, FALSE), Ordered(Ordered(Select(<<B, A>>, "T"), B, FALSE), A, TRUE),
   Limit(Ordered(All("T"), S, TRUE), 1, <<>>), Limit(Ordered(Select(<<S>>, "T"), S, FALSE), 2, <<1>>),
   Limit(Distinct(Select(<<B>>, "T")), 0, <<>>), Limit(All("T"), 1, <<2>>),
   Ordered([Select(<<A>>, "T") EXCEPT !.items = <<Item(A, "X"), Item(S, "")>>], X, FALSE),
   Ordered(Select(<<S>>, "T"), A, FALSE), Ordered(Select(<<S>>, "T"), X, FALSE), Select(<<X, S>>, "T"),
   Ordered(Select(<<Binary("+", A, A), B, S>>, "T"), B, FALSE), Ordered(All("T"), Binary("+", A, B), TRUE),
   Select(<<A, B, S, A>>, "T")}
Filtering == {Where(Select(<<A, S>>, "T"), e) : e \in Conditions}

Grouping ==
  {Select(<<CountAll, Agg("COUNT", A), Agg("SUM", A)>>, "T"),
   Select(<<Agg("MIN", S), Agg("MAX", B), Agg("AVG", A)>>, "T"),
   Select(<<Aggregate("COUNT", B, TRUE, FALSE), Agg("MAX", A), Agg("MIN", A)>>, "T"),
   GroupBy(Select(<<A, CountAll>>, "T"), <<A>>),
   Ordered(GroupBy(Select(<<B, Agg("SUM", A), Agg("COUNT", A)>>, "T"), <<B>>), B, TRUE),
   GroupBy(Select(<<A, B, CountAll>>, "T"), <<A, B>>),
   Where(GroupBy(Select(<<S, Agg("MAX", A)>>, "T"), <<S>>), Binary("=", B, Num(1))),
   Where(Select(<<CountAll>>, "T"), Binary("=", A, Num(2))),
   Having(GroupBy(Select(<<B, Agg("MIN", S)>>, "T"), <<B>>), Binary("<>", Agg("MIN", S), Str(<<"a">>))),
   Having(GroupBy(Select(<<A, CountAll>>, "T"), <<A>>), Binary("OR", Binary("=", A, Agg("MIN", A)),
                                                           Binary("=", Agg("MAX", S), Str(<<"b">>)))),
   Limit(Ordered(GroupBy(Select(<<A, Agg("MAX", S)>>, "T"), <<A>>), A, FALSE), 1, <<1>>),
   Select(<<Binary("+", Agg("SUM", A), CountAll), Unary("-", Agg("SUM", A))>>, "T"),
   GroupBy(Select(<<S, CountAll>>, "T"), <<A>>), Select(<<A, CountAll>>, "T"), Select(<<Agg("SUM", S)>>, "T"),
   Having(GroupBy(Select(<<B, CountAll>>, "T"), <<B>>), Binary(">", CountAll, Num(1))),
   Having(GroupBy(Select(<<B, CountAll>>, "T"), <<B>>), Binary("<", Agg("COUNT", A), Num(1))),
   Having(GroupBy(Select(<<A, CountAll>>, "T"), <<A>>), Binary("=", A, Num(1))),
   Having(Select(<<CountAll>>, "T"), IsNull(Agg("SUM", A), FALSE)),
   Having(Select(<<S>>, "T"), Binary("=", S, Str(<<"a">>))),
   GroupBy(Select(<<Call("UPPER", <<S>>), CountAll>>, "T"), <<S>>),
   Select(<<Case(<<<<IsNull(Agg("MAX", B), TRUE), S>>>>, Str(<<"b">>))>>, "T"),
   Select(<<CountAll, Coalesce(<<Agg("SUM", A), Num(0)>>)>>, "T"),
   Select(<<Agg("SUM", B)>>, "T"), Select(<<Aggregate("SUM", A, TRUE, FALSE), Agg("SUM", Binary("+", B, B))>>, "T"),
   Distinct(GroupBy(Select(<<CountAll>>, "T"), <<S>>)), Select(<<Binary("/", Agg("COUNT", A), CountAll)>>, "T"),
   Ordered(GroupBy([Select(<<>>, "T") EXCEPT !.items = <<Item(B, ""), Item(CountAll, "N")>>], <<B>>),
           ColumnRef("", "N"), FALSE)}

Calculations ==
  {Binary("+", A, Binary("*", A, B)), Binary("*", Binary("+", A, A), A), Binary("-", Binary("-", A, A), A),
   Binary("-", A, Binary("-", A, A)), Binary("/", Binary("+", A, A), A), Binary("/", A, Binary("-", A, A)),
   Binary("/", A, Dec(2, 1)), Unary("-", A), Unary("-", Unary("+", Dec(3, 2))),
   Case(<<<<Binary(">", A, Num(1)), S>>, <<Binary("=", B, Num(1)), Str(<<"b">>)>>>>, Str(<<"a", "b">>)),
   Coalesce(<<A, B, Num(7)>>), Nullif(B, Num(1)),
   Call("LENGTH", <<S>>), Call("UPPER", <<S>>), Call("LOWER", <<Call("UPPER", <<S>>)>>),
   Call("CONCAT", <<S, Nul, Str(<<" ">>), S>>), Call("TRIM", <<Call("CONCAT", <<Str(<<" ">>), S, Str(<<" ">>)>>)>>),
   Call("SUBSTRING", <<S, Num(2)>>), Call("SUBSTRING", <<Call("CONCAT", <<S, S>>), Num(1), Num(2)>>),
   Call("ABS", <<Unary("-", A)>>), Call("ROUND", <<Binary("/", A, Dec(2, 1))>>),
   Call("ROUND", <<Unary("-", Binary("/", A, Dec(2, 1)))>>),
   Call("CEIL", <<Binary("/", A, Dec(2, 1))>>), Call("FLOOR", <<Unary("-", Binary("/", A, Dec(2, 1)))>>),
   Call("MOD", <<Num(7), Binary("+", A, Num(2))>>), Call("MOD", <<Unary("-", Num(7)), Num(4)>>),
   Call("MOD", <<Num(7), Num(1)>>), Call("MOD", <<A, Num(0)>>), Nullif(A, Num(1)), CountAll}
Calculating == {Select(<<e, S>>, "T") : e \in Calculations}

Join1(s, table, on) == [s EXCEPT !.joins = Append(@, Join(IF on = NoExpr THEN "CROSS" ELSE "INNER", TableRef(table, ""), on))]
Joining ==
  {Join1(Select(<<K, B, S>>, "T"), "U", NoExpr), Join1(Select(<<S, K, D>>, "T"), "U", Binary("=", A, K)),
   Join1(Select(<<K, S>>, "U"), "T", Binary("<=", ColumnRef("T", "A"), ColumnRef("U", "K"))),
   Where(Join1(Select(<<S, K>>, "T"), "U", Binary("=", A, K)), IsNull(D, TRUE)),
   Where(Join1(Select(<<A, K, S>>, "T"), "U", NoExpr), Binary("OR", Binary("<", A, K), Like(S, Str(<<"b">>), FALSE))),
   Distinct(Join1(Select(<<B, K>>, "T"), "U", NoExpr)),
   Limit(Ordered(Ordered(Join1(Select(<<A, B, S>>, "T"), "U", NoExpr), S, TRUE), A, FALSE), 2, <<1>>),
   Ordered(Join1(Select(<<A, B, D>>, "T"), "U", Binary("=", A, K)), B, FALSE),
   Join1(All("T"), "U", Binary("=", A, K)), Join1(All("U"), "T", NoExpr),
   GroupBy(Join1(Select(<<K, CountAll>>, "T"), "U", NoExpr), <<K>>),
   Having(Join1(Select(<<Agg("MAX", A)>>, "T"), "U", NoExpr), Binary(">", CountAll, Num(1))),
   Ordered(Join1(Select(<<D, A>>, "T"), "U", NoExpr), A, FALSE), Ordered(Join1(Select(<<D>>, "T"), "U", NoExpr), K, TRUE),
   [Join1(All("T"), "U", Binary("=", A, K)) EXCEPT !.joins[1].type = "LEFT"],
   [Join1(Select(<<ColumnRef("X", "A"), ColumnRef("Y", "S")>>, "T"), "T", Binary("=", ColumnRef("X", "A"), ColumnRef("Y", "A")))
      EXCEPT !.from.alias = "X", !.joins[1].table.alias = "Y"],
   Join1(All("T"), "V", NoExpr)}

\* Three tables, two with a column K.
JoiningThree ==
  {Join1(Join1(Select(<<A, K, S>>, "T"), "U", NoExpr), "V", NoExpr),
   Where(Join1(Join1(Select(<<S, ColumnRef("U", "K")>>, "T"), "U", Binary("=", A, K)), "V", Binary(">", B, A)),
         Binary("=", ColumnRef("U", "K"), Num(1))),
   Join1(Join1(Select(<<S, K>>, "T"), "U", Binary("<=", A, K)), "V", Binary("=", A, ColumnRef("V", "K"))),
   Ordered(Join1(Join1(All("V"), "U", NoExpr), "T", Binary("=", A, D)), A, FALSE)}
CrossLast ==
  Typing(Join1(Join1(Select(<<A, D>>, "T"), "U", Binary("=", A, K)), "V", NoExpr),
         <<<<"SELECT", " ", "A", ",", "D", " ", "FROM", " ", "T", " ", "JOIN", " ", "U", " ", "ON", " ", "A", "=", "K">>,
           <<"CROSS", " ", "JOIN", " ", "V", ";">>>>)


(***************************************************************************)
(* Other ways to write a statement, and lines that are none.               *)
(***************************************************************************)
Silent(lines) == Typing(NoStatement, lines)
DeleteT == <<"DELETE", " ", "FROM", " ", "T">>
OnlyOnes == <<"WHERE", " ", "A", "=", "1", ";">>
DeleteOnes == Delete("T", Binary("=", A, Num(1)))
DeleteString(s) == Delete("T", Binary("<>", S, Str(s)))

\* lines whose joints change the statement, and a character the lexer refuses
Joints ==
  {Misheard(DeleteOnes, <<DeleteT \o <<" ", "-", "-", " ", "B">>, OnlyOnes>>, Delete("T", NoExpr)),
   Misheard(DeleteOnes, <<DeleteT \o <<"#">>, OnlyOnes>>, Delete("T", NoExpr)),
   Misheard(DeleteOnes, <<DeleteT \o <<"-", "-", ";">>, OnlyOnes>>, Delete("T", NoExpr)),
   Misheard(DeleteOnes, <<DeleteT \o <<"/", "*", ";">>, <<"*", "/">> \o OnlyOnes>>, Delete("T", NoExpr)),
   Misheard(DeleteOnes, <<DeleteT \o <<"@", " ">> \o OnlyOnes>>, Delete("T", NoExpr)),
   Misheard(DeleteString(<<"a", ";", "NEWLINE">>),
            <<DeleteT \o <<" ", "WHERE", " ", "S", "<", ">", "'", "a", ";">>, <<"'", ";">>>>, NoStatement),
   Misheard(DeleteString(<<"NEWLINE", "a">>),
            <<DeleteT \o <<" ", "WHERE", " ", "S", "<", ">", "'">>, <<"a", "'", ";">>>>, DeleteString(<<" ", "a">>)),
   Misheard(Where(All("T"), Binary("=", A, Num(1))),
            <<<<"SELECT", " ", "*", " ", "FROM", " ", "T", "-", "-">>, OnlyOnes>>, All("T"))}
OddTexts ==
  {Typing(CreateT, <<<<"CREATE", " ", "TABLE", " ", "T", "(", "A", " ", "INT", ",">>,
                     <<"B", " ", "BIGINT", ",", "S", " ", "VARCHAR", "(", "9", ")", " ", "NOT", " ", "NULL", ",", ")", ";">>>>),
   Typing(Where(All("T"), Binary("<>", A, Num(10))),
          <<<<"SELECT", "*", "FROM", " ", "T", " ", "WHERE", " ", "A", "!", "=", "1", "0", ";">>>>),
   Typing([All("T") EXCEPT !.from = TableRef("T", "X"), !.where = Binary("=", ColumnRef("X", "S"), Str(<<"'", ";">>))],
          <<<<"SELECT", " ", "*", " ", "FROM", " ", "T", " ", "X">>,
            <<"WHERE", " ", "X", ".", "S", "=", "'", "'", "'", ";", "'", " ", ";">>>>),
   Typing(Join1(All("T"), "U", NoExpr),
          <<<<"SELECT", " ", "*", " ", "FROM", " ", "T", " ", "CROSS", " ", "JOIN", " ", "U", ";">>>>),
   Typing(Where(Select(<<Dec(1, 4)>>, "T"), Literal("bool", TRUE)),
          <<<<"SELECT", " ", "2", "5", "E", "-", "2", " ", "FROM", " ", "T", " ", "WHERE", " ", "TRUE", ";">>>>),
   Silent(<<<<"\\", "?">>>>), Silent(<<<<"\\", "DT">>>>), Silent(<<<<"\\", "X">>, <<";">>>>), Silent(<<<<"\\", "Q">>>>),
   Silent(<<<<"SELECT", " ", "FROM", " ", "T", ";">>>>), Silent(<<<<"T", ";">>>>),
   Silent(<<<<>>, <<"SELECT", " ", "A">>>>),
   Silent(<<<<"SELECT", " ", "A", " ", "FROM", " ", "T", " ", "WHERE", " ", "NOT", ";">>>>)}

(***************************************************************************)
(* The user.                                                               *)
(***************************************************************************)
RowsOf(db, t) == IF t \in DOMAIN db THEN db[t].rows ELSE <<>>
HasRoom(db, t) == Len(RowsOf(db, t)) < IF "U" \in DOMAIN db THEN MaxRows - 1 ELSE MaxRows
\* no row has been updated yet, and none is odd
Untouched(db) == \A t \in {"T", "U"} : \A i \in DOMAIN RowsOf(db, t) :
                   \E r \in IF t = "T" THEN TRows ELSE URows : StoredRow(r, db[t].schema) = RowsOf(db, t)[i]
OneRow(db, t) == Len(RowsOf(db, t)) = 1
\* few enough rows for what is computed row by row, or what an update has left
FewRows(db) == Len(RowsOf(db, "T")) <= IF Untouched(db) THEN 2 ELSE 1

ChangingT(db) ==
  IF "T" \notin DOMAIN db
  THEN {CreateT, Insert("T", <<>>, <<Num(1), Nul, Str(<<"a">>)>>), Delete("T", NoExpr),
        DropTable("T", TRUE), DropTable("T", FALSE)} \cup Updates
  ELSE {DropTable("T", TRUE)}
         \cup (IF "U" \in DOMAIN db THEN {}
               ELSE {CreateT} \cup Deletes \cup RefusedUpdates \cup {Insert("T", <<>>, r) : r \in RefusedRows}
                      \cup (IF db["T"].rows = <<>> THEN {Misplaced} ELSE {}))
         \cup (IF ~Untouched(db) THEN {} ELSE
                (IF HasRoom(db, "T") THEN {Insert("T", <<>>, r) : r \in TRows} ELSE {})
                \cup (IF "U" \notin DOMAIN db THEN Updates ELSE {}))
ChangingU(db) ==
  IF "U" \notin DOMAIN db THEN IF Untouched(db) /\ HasRoom(db, "T") THEN {CreateU} ELSE {}
  ELSE {DropTable("U", FALSE)}
         \cup (IF HasRoom(db, "U") /\ Untouched(db) THEN {Insert("U", <<"K", "D">>, r) : r \in URows} ELSE {})
         \cup (IF RowsOf(db, "U") = <<>> /\ Untouched(db) THEN OddInserts ELSE {})
         \cup (IF Untouched(db) /\ OneRow(db, "T") /\ OneRow(db, "U") THEN {CreateV} ELSE {})
ChangingV(db) ==
  {DropTable("V", FALSE)} \cup (IF RowsOf(db, "V") = <<>> THEN {Insert("V", <<>>, <<Num(1)>>)} ELSE {})
Changing(db) == IF "V" \in DOMAIN db THEN ChangingV(db) ELSE ChangingT(db) \cup ChangingU(db)

Asking(db) ==
  IF "V" \in DOMAIN db THEN JoiningThree
  ELSE IF "T" \notin DOMAIN db THEN {All("T")} \cup (IF "U" \in DOMAIN db THEN {} ELSE Grouping)
  ELSE IF "U" \in DOMAIN db THEN Joining
  ELSE {All("T"), Ordered(Ordered(All("T"), B, TRUE), S, FALSE)}
         \cup (IF FewRows(db) THEN Plainly \cup Filtering ELSE {})
         \cup (IF Untouched(db) THEN Plainly \cup Grouping ELSE {})
         \cup (IF OneRow(db, "T") THEN Calculating ELSE {})

QuietDb(db) == "T" \in DOMAIN db /\ db["T"].rows = <<>> /\ RowsOf(db, "U") = <<>>
MCSayings(db) ==
  {Said(s) : s \in Changing(db) \cup Asking(db)}
  \cup (IF DOMAIN db = {"T"} /\ Len(RowsOf(db, "T")) <= 1 THEN Joints ELSE {})
  \cup (IF "V" \in DOMAIN db THEN {CrossLast} ELSE {})
  \cup (IF QuietDb(db) THEN OddTexts \cup UNION {InAllLayouts(s) : s \in Changing(db) \cup Asking(db) \cup Calculating}
        ELSE {})

\* integers for a column of fractions
MCIntegers(db) ==
  {Said(s) : s \in IF "U" \notin DOMAIN db THEN {CreateU}
                   ELSE {Insert("U", <<>>, <<Num(1), Num(2)>>), Delete("U", NoExpr)}}
=============================================================================
