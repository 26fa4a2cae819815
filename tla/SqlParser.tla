----------------------------- MODULE SqlParser -----------------------------
(***************************************************************************)
(* Parser (src/parser/parser.cpp): recursive descent over the tokens of a  *)
(* text.  Every parse function takes the tokens that are left and gives    *)
(* [ok, node, rest]; the parser stops at the end of a statement and does   *)
(* not look at what follows.                                               *)
(***************************************************************************)
EXTENDS SqlText

Parsed(node, rest) == [ok |-> TRUE, node |-> node, rest |-> rest]
SyntaxError == [ok |-> FALSE, node |-> NoExpr, rest |-> <<>>]
Kind(ts) == IF ts = <<>> THEN "END_OF_INPUT" ELSE ts[1][1]
ValueOf(ts) == ts[1][2]
\* what follows a part that parsed, and what follows a token that must come
Then(r, F(_, _)) == IF r.ok THEN F(r.node, r.rest) ELSE SyntaxError
Expect(kind, ts, F(_)) == IF Kind(ts) = kind THEN F(Tail(ts)) ELSE SyntaxError
\* an optional token: whether it is there, and the tokens after it
Has(kind, ts) == Kind(ts) = kind
After(kind, ts) == IF Kind(ts) = kind THEN Tail(ts) ELSE ts

(***************************************************************************)
(* Expressions.  A level is a parse function of the code: its operators    *)
(* take operands of the next level and group to the left.                  *)
(***************************************************************************)
OrLevel == 1
AndLevel == 2
NotLevel == 3
ComparisonLevel == 4
AdditiveLevel == 5
MultiplicativeLevel == 6
UnaryLevel == 7
PrimaryLevel == 8
LevelOperators ==
  [level \in OrLevel..PrimaryLevel |->
     CASE level = OrLevel             -> {"OR"}
       [] level = AndLevel            -> {"AND"}
       [] level = AdditiveLevel       -> {"+", "-", "||"}
       [] level = MultiplicativeLevel -> {"*", "/", "%"}
       [] OTHER                       -> {}]
AggregateNames == {"COUNT", "SUM", "AVG", "MIN", "MAX"}

RECURSIVE Parse(_, _), ParseMore(_, _, _), ParseList(_), ParseWhens(_)
parseExpression(ts) == Parse(OrLevel, ts)

\* at least one expression, separated by commas
ParseList(ts) ==
  Then(parseExpression(ts), LAMBDA e, r :
    IF ~Has(",", r) THEN Parsed(<<e>>, r)
    ELSE Then(ParseList(Tail(r)), LAMBDA es, q : Parsed(<<e>> \o es, q)))
ListThen(ts, F(_)) ==
  Then(ParseList(ts), LAMBDA es, r : Expect(")", r, LAMBDA q : Parsed(F(es), q)))

\* Mutated form: operators of one level group to the right.
ParseMoreRight(level, left, ts) ==
  IF Kind(ts) \notin LevelOperators[level] THEN Parsed(left, ts)
  ELSE Then(Parse(level, Tail(ts)), LAMBDA right, r : Parsed(Binary(Kind(ts), left, right), r))
ParseMore(level, left, ts) ==
  IF Kind(ts) \notin LevelOperators[level] THEN Parsed(left, ts)
  ELSE Then(Parse(level + 1, Tail(ts)), LAMBDA right, r :
              ParseMore(level, Binary(Kind(ts), left, right), r))

parseNotExpr(ts) ==
  IF Has("NOT", ts)
  THEN Then(Parse(NotLevel, Tail(ts)), LAMBDA e, r : Parsed(Unary("NOT", e), r))
  ELSE Parse(ComparisonLevel, ts)

parseBetweenExpr(left, negated, ts) ==
  Then(Parse(AdditiveLevel, ts), LAMBDA low, r : Expect("AND", r, LAMBDA q :
    Then(Parse(AdditiveLevel, q), LAMBDA high, p : Parsed(Between(left, low, high, negated), p))))
parseLikeExpr(left, negated, ts) ==
  Then(Parse(PrimaryLevel, ts), LAMBDA pattern, r : Parsed(Like(left, pattern, negated), r))
parseInExpr(left, negated, ts) ==
  Expect("(", ts, LAMBDA r : ListThen(r, LAMBDA es : In(left, es, negated)))

\* one postfix operator after the comparison, not a chain of them
ParsePostfix(left, ts) ==
  LET negated == Has("NOT", ts)
      here == After("NOT", ts)
  IN  CASE Has("IS", ts) ->
             Expect("NULL", After("NOT", Tail(ts)), LAMBDA r :
               Parsed(IsNull(left, Has("NOT", Tail(ts))), r))
        [] ~Has("IS", ts) /\ Has("BETWEEN", here) -> parseBetweenExpr(left, negated, Tail(here))
        [] ~Has("IS", ts) /\ Has("LIKE", here)    -> parseLikeExpr(left, negated, Tail(here))
        [] ~Has("IS", ts) /\ Has("IN", here)      -> parseInExpr(left, negated, Tail(here))
        [] OTHER -> IF negated THEN SyntaxError ELSE Parsed(left, ts)
parseComparisonExpr(ts) ==
  Then(Parse(AdditiveLevel, ts), LAMBDA left, r :
    IF Kind(r) \notin ComparisonOps THEN ParsePostfix(left, r)
    ELSE Then(Parse(AdditiveLevel, Tail(r)), LAMBDA right, q :
                ParsePostfix(Binary(Kind(r), left, right), q)))

parseUnaryExpr(ts) ==
  IF Kind(ts) \in {"-", "+"}
  THEN Then(Parse(UnaryLevel, Tail(ts)), LAMBDA e, r : Parsed(Unary(Kind(ts), e), r))
  ELSE Parse(PrimaryLevel, ts)

ParseWhens(ts) ==
  IF ~Has("WHEN", ts) THEN Parsed(<<>>, ts)
  ELSE Then(parseExpression(Tail(ts)), LAMBDA c, r : Expect("THEN", r, LAMBDA q :
         Then(parseExpression(q), LAMBDA e, p :
           Then(ParseWhens(p), LAMBDA ws, o : Parsed(<<<<c, e>>>> \o ws, o)))))
parseCaseExpr(ts) ==
  Then(ParseWhens(ts), LAMBDA ws, r :
    IF Has("ELSE", r)
    THEN Then(parseExpression(Tail(r)), LAMBDA e, q : Expect("END", q, LAMBDA p : Parsed(Case(ws, e), p)))
    ELSE Expect("END", r, LAMBDA p : Parsed(Case(ws, NoExpr), p)))

parseAggregateExpr(agg, ts) ==
  Expect("(", ts, LAMBDA r :
    IF agg = "COUNT" /\ Has("*", r)
    THEN Expect(")", Tail(r), LAMBDA q : Parsed(Aggregate(agg, NoExpr, FALSE, TRUE), q))
    ELSE Then(parseExpression(After("DISTINCT", r)), LAMBDA e, q :
           Expect(")", q, LAMBDA p : Parsed(Aggregate(agg, e, Has("DISTINCT", r), FALSE), p))))
parseCoalesceExpr(ts) == Expect("(", ts, LAMBDA r : ListThen(r, LAMBDA es : Coalesce(es)))
parseNullifExpr(ts) ==
  Expect("(", ts, LAMBDA r : Then(parseExpression(r), LAMBDA x, q : Expect(",", q, LAMBDA p :
    Then(parseExpression(p), LAMBDA y, o : Expect(")", o, LAMBDA n : Parsed(Nullif(x, y), n))))))

ParseName(name, ts) ==
  CASE Has("(", ts) /\ Has(")", Tail(ts))  -> Parsed(FunctionCall(name, <<>>), Tail(Tail(ts)))
    [] Has("(", ts) /\ ~Has(")", Tail(ts)) -> ListThen(Tail(ts), LAMBDA es : FunctionCall(name, es))
    [] Has(".", ts) -> IF Has("ID", Tail(ts))
                       THEN Parsed(ColumnRef(name, ValueOf(Tail(ts))), Tail(Tail(ts))) ELSE SyntaxError
    [] OTHER        -> Parsed(ColumnRef("", name), ts)

LiteralKind == [INTEGER_LIT |-> "int", FLOAT_LIT |-> "float", STRING_LIT |-> "string"]
parsePrimaryExpr(ts) ==
  LET kind == Kind(ts) rest == Tail(ts)
  IN  CASE kind = "CASE"             -> parseCaseExpr(rest)
        [] kind = "COALESCE"         -> parseCoalesceExpr(rest)
        [] kind = "NULLIF"           -> parseNullifExpr(rest)
        [] kind \in AggregateNames   -> parseAggregateExpr(kind, rest)
        [] kind \in DOMAIN LiteralKind -> Parsed(Literal(LiteralKind[kind], ValueOf(ts)), rest)
        [] kind \in {"TRUE", "FALSE"} -> Parsed(Literal("bool", kind = "TRUE"), rest)
        [] kind = "NULL"             -> Parsed(Literal("null", 0), rest)
        [] kind = "("                -> Then(parseExpression(rest), LAMBDA e, r :
                                          Expect(")", r, LAMBDA q : Parsed(e, q)))
        [] kind = "ID"               -> ParseName(ValueOf(ts), rest)
        [] OTHER                     -> SyntaxError

Parse(level, ts) ==
  CASE level = NotLevel        -> parseNotExpr(ts)
    [] level = ComparisonLevel -> parseComparisonExpr(ts)
    [] level = UnaryLevel      -> parseUnaryExpr(ts)
    [] level = PrimaryLevel    -> parsePrimaryExpr(ts)
    [] OTHER -> Then(Parse(level + 1, ts), LAMBDA left, r : ParseMore(level, left, r))

(***************************************************************************)
(* SELECT.                                                                 *)
(***************************************************************************)
Named(ts, F(_, _)) == IF Has("ID", ts) THEN F(ValueOf(ts), Tail(ts)) ELSE SyntaxError
\* AS and a name, a name alone, or nothing
ParseAlias(ts) ==
  CASE Has("AS", ts) -> Named(Tail(ts), LAMBDA n, r : Parsed(n, r))
    [] Has("ID", ts) -> Parsed(ValueOf(ts), Tail(ts))
    [] OTHER         -> Parsed("", ts)

RECURSIVE parseSelectList(_), parseOrderByClause(_), ParseCommaTables(_), ParseJoins(_)
parseSelectItem(ts) ==
  Then(parseExpression(ts), LAMBDA e, r : Then(ParseAlias(r), LAMBDA a, q : Parsed(Item(e, a), q)))
parseSelectList(ts) ==
  Then(parseSelectItem(ts), LAMBDA it, r :
    IF ~Has(",", r) THEN Parsed(<<it>>, r)
    ELSE Then(parseSelectList(Tail(r)), LAMBDA its, q : Parsed(<<it>> \o its, q)))
parseOrderByClause(ts) ==
  Then(parseExpression(ts), LAMBDA e, r :
    LET desc == Has("DESC", r)
        rest == IF desc THEN Tail(r) ELSE After("ASC", r)
    IN  IF ~Has(",", rest) THEN Parsed(<<OrderBy(e, desc)>>, rest)
        ELSE Then(parseOrderByClause(Tail(rest)), LAMBDA os, q : Parsed(<<OrderBy(e, desc)>> \o os, q)))

parseTableRef(ts) ==
  Named(ts, LAMBDA n, r : Then(ParseAlias(r), LAMBDA a, q : Parsed(TableRef(n, a), q)))
ParseCommaTables(ts) ==
  IF ~Has(",", ts) THEN Parsed(<<>>, ts)
  ELSE Then(parseTableRef(Tail(ts)), LAMBDA t, r : Then(ParseCommaTables(r), LAMBDA js, q :
         Parsed(<<Join("CROSS", t, NoExpr)>> \o js, q)))
JoinTypes == {"INNER", "LEFT", "RIGHT", "CROSS"}
parseJoinClause(ts) ==
  LET type == IF Kind(ts) \in JoinTypes THEN Kind(ts) ELSE "INNER"
      rest == IF Kind(ts) \in JoinTypes THEN Tail(ts) ELSE ts
  IN  Expect("JOIN", rest, LAMBDA r : Then(parseTableRef(r), LAMBDA t, q :
        IF type = "CROSS" THEN IF Has("ON", q) THEN SyntaxError ELSE Parsed(Join(type, t, NoExpr), q)
        ELSE Expect("ON", q, LAMBDA p : Then(parseExpression(p), LAMBDA c, o : Parsed(Join(type, t, c), o)))))
ParseJoins(ts) ==
  IF Kind(ts) \notin JoinTypes \cup {"JOIN"} THEN Parsed(<<>>, ts)
  ELSE Then(parseJoinClause(ts), LAMBDA j, r : Then(ParseJoins(r), LAMBDA js, q : Parsed(<<j>> \o js, q)))

\* an optional clause: word, word BY and what F parses
OptionalExpr(word, ts) == IF Has(word, ts) THEN parseExpression(Tail(ts)) ELSE Parsed(NoExpr, ts)
OptionalList(word, F(_), ts) ==
  IF Has(word, ts) THEN Expect("BY", Tail(ts), LAMBDA r : F(r)) ELSE Parsed(<<>>, ts)
OptionalCount(word, ts) ==
  IF ~Has(word, ts) THEN Parsed(<<>>, ts)
  ELSE IF Has("INTEGER_LIT", Tail(ts)) THEN Parsed(<<ValueOf(Tail(ts))>>, Tail(Tail(ts))) ELSE SyntaxError

\* OFFSET is looked for only after LIMIT
ParseLimits(s, ts) ==
  Then(OptionalCount("LIMIT", ts), LAMBDA limit, r :
    IF limit = <<>> THEN Parsed(s, r)
    ELSE Then(OptionalCount("OFFSET", r), LAMBDA offset, q :
           Parsed([s EXCEPT !.limit = limit, !.offset = offset], q)))
ParseClauses(s, ts) ==
  Then(OptionalExpr("WHERE", ts), LAMBDA where, r1 :
  Then(OptionalList("GROUP", ParseList, r1), LAMBDA groupBy, r2 :
  Then(OptionalExpr("HAVING", r2), LAMBDA having, r3 :
  Then(OptionalList("ORDER", parseOrderByClause, r3), LAMBDA orderBy, r4 :
    ParseLimits([s EXCEPT !.where = where, !.groupBy = groupBy, !.having = having,
                          !.orderBy = orderBy], r4)))))
ParseTables(s, ts) ==
  Then(parseTableRef(ts), LAMBDA t, r : Then(ParseCommaTables(r), LAMBDA crossed, q :
    Then(ParseJoins(q), LAMBDA joined, p :
      ParseClauses([s EXCEPT !.from = t, !.joins = crossed \o joined], p))))
parseSelect(ts) ==
  LET start == [EmptySelect EXCEPT !.distinct = Has("DISTINCT", ts)]
      rest  == After("DISTINCT", ts)
      From(s, r) == Expect("FROM", r, LAMBDA q : ParseTables(s, q))
  IN  IF Has("*", rest) THEN From([start EXCEPT !.all = TRUE], Tail(rest))
      ELSE Then(parseSelectList(rest), LAMBDA its, r : From([start EXCEPT !.items = its], r))

(***************************************************************************)
(* The other statements; ts begins behind the first keyword.               *)
(***************************************************************************)
DataTypes == [INTEGER |-> "INT", BIGINT |-> "BIGINT", FLOAT |-> "FLOAT", DOUBLE |-> "DOUBLE",
              VARCHAR |-> "VARCHAR", TEXT |-> "TEXT", BOOLEAN |-> "BOOLEAN"]
\* the node is a pair of the type and its length
parseDataType(ts) ==
  IF Kind(ts) \notin DOMAIN DataTypes THEN SyntaxError
  ELSE LET type == DataTypes[Kind(ts)] rest == Tail(ts)
       IN  IF ~(type = "VARCHAR" /\ Has("(", rest)) THEN Parsed(<<type, 0>>, rest)
           ELSE IF Has("INTEGER_LIT", Tail(rest))
                THEN Expect(")", Tail(Tail(rest)), LAMBDA r : Parsed(<<type, ValueOf(Tail(rest))>>, r))
                ELSE SyntaxError
parseColumnDef(ts) ==
  Named(ts, LAMBDA n, r : Then(parseDataType(r), LAMBDA t, q :
    IF Has("NOT", q) THEN Expect("NULL", Tail(q), LAMBDA p : Parsed(ColumnDef(n, t[1], t[2], FALSE), p))
    ELSE Parsed(ColumnDef(n, t[1], t[2], TRUE), q)))

RECURSIVE parseColumnDefList(_), ParseNames(_), ParseAssignments(_)
\* may be empty, and may end in a comma
parseColumnDefList(ts) ==
  IF Kind(ts) \in {")", "END_OF_INPUT"} THEN Parsed(<<>>, ts)
  ELSE Then(parseColumnDef(ts), LAMBDA c, r :
         IF ~Has(",", r) THEN Parsed(<<c>>, r)
         ELSE Then(parseColumnDefList(Tail(r)), LAMBDA cs, q : Parsed(<<c>> \o cs, q)))
parseCreateTable(ts) ==
  Expect("TABLE", ts, LAMBDA r : Named(r, LAMBDA n, q : Expect("(", q, LAMBDA p :
    Then(parseColumnDefList(p), LAMBDA cs, o : Expect(")", o, LAMBDA rest :
      Parsed(CreateTable(n, cs), rest))))))

parseDropTable(ts) ==
  Expect("TABLE", ts, LAMBDA r :
    IF Has("IF", r)
    THEN Expect("EXISTS", Tail(r), LAMBDA q : Named(q, LAMBDA n, rest : Parsed(DropTable(n, TRUE), rest)))
    ELSE Named(r, LAMBDA n, rest : Parsed(DropTable(n, FALSE), rest)))

ParseNames(ts) ==
  Named(ts, LAMBDA n, r :
    IF ~Has(",", r) THEN Parsed(<<n>>, r)
    ELSE Then(ParseNames(Tail(r)), LAMBDA ns, q : Parsed(<<n>> \o ns, q)))
ParseColumnNames(ts) ==
  IF Has("(", ts) THEN Then(ParseNames(Tail(ts)), LAMBDA ns, r : Expect(")", r, LAMBDA q : Parsed(ns, q)))
  ELSE Parsed(<<>>, ts)
parseInsert(ts) ==
  Expect("INTO", ts, LAMBDA r : Named(r, LAMBDA n, q : Then(ParseColumnNames(q), LAMBDA cs, p :
    Expect("VALUES", p, LAMBDA o : Expect("(", o, LAMBDA m :
      ListThen(m, LAMBDA es : Insert(n, cs, es)))))))

ParseAssignments(ts) ==
  Named(ts, LAMBDA n, r : Expect("=", r, LAMBDA q : Then(parseExpression(q), LAMBDA e, p :
    IF ~Has(",", p) THEN Parsed(<<<<n, e>>>>, p)
    ELSE Then(ParseAssignments(Tail(p)), LAMBDA as, o : Parsed(<<<<n, e>>>> \o as, o)))))
parseUpdate(ts) ==
  Named(ts, LAMBDA n, r : Expect("SET", r, LAMBDA q : Then(ParseAssignments(q), LAMBDA as, p :
    Then(OptionalExpr("WHERE", p), LAMBDA w, o : Parsed(Update(n, as, w), o)))))
parseDelete(ts) ==
  Expect("FROM", ts, LAMBDA r : Named(r, LAMBDA n, q :
    Then(OptionalExpr("WHERE", q), LAMBDA w, p : Parsed(Delete(n, w), p))))

parseStatement(ts) ==
  CASE Has("CREATE", ts) -> parseCreateTable(Tail(ts))
    [] Has("DROP", ts)   -> parseDropTable(Tail(ts))
    [] Has("SELECT", ts) -> parseSelect(Tail(ts))
    [] Has("INSERT", ts) -> parseInsert(Tail(ts))
    [] Has("UPDATE", ts) -> parseUpdate(Tail(ts))
    [] Has("DELETE", ts) -> parseDelete(Tail(ts))
    [] OTHER             -> SyntaxError
=============================================================================
