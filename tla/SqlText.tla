------------------------------ MODULE SqlText ------------------------------
(***************************************************************************)
(* SQL as text: Lexer (src/parser/lexer.cpp) and the toString functions of *)
(* the trees (src/parser/ast.cpp).                                         *)
(*                                                                         *)
(* A text is a sequence of pieces: a word, a digit, or one character; it   *)
(* never has two words, or a word and a digit, side by side except within  *)
(* a string literal, and its words are in upper case.  A token is a pair   *)
(* of a kind and a value; a keyword and an operator are their own kind.    *)
(* A tree is written as a sequence of chunks, each the text of one token.  *)
(***************************************************************************)
EXTENDS SqlExpressions

(***************************************************************************)
(* The lexer.                                                              *)
(***************************************************************************)
Keywords ==
  {"CREATE", "DROP", "ALTER", "TABLE", "INDEX", "VIEW", "SELECT", "FROM", "WHERE", "INSERT",
   "INTO", "UPDATE", "DELETE", "VALUES", "SET", "JOIN", "INNER", "LEFT", "RIGHT", "OUTER",
   "CROSS", "ON", "USING", "GROUP", "BY", "ORDER", "ASC", "DESC", "HAVING", "LIMIT", "OFFSET",
   "DISTINCT", "COUNT", "SUM", "AVG", "MIN", "MAX", "EXISTS", "IN", "BETWEEN", "LIKE", "IS",
   "AS", "IF", "CASE", "WHEN", "THEN", "ELSE", "END", "COALESCE", "NULLIF", "INTEGER",
   "BIGINT", "SMALLINT", "FLOAT", "DOUBLE", "VARCHAR", "CHAR", "TEXT", "BOOLEAN", "PRIMARY",
   "KEY", "FOREIGN", "REFERENCES", "UNIQUE", "NOT", "NULL", "DEFAULT", "AND", "OR", "TRUE",
   "FALSE"}
KeywordAlias == [INT |-> "INTEGER", BOOL |-> "BOOLEAN"]
Blanks == {" ", "NEWLINE"}
SingleOperators == {"(", ")", "[", "]", ",", ";", ".", "+", "-", "*", "/", "%", "="}
DoubleOperators == {<<"<", "=">>, <<"<", ">">>, <<">", "=">>, <<"!", "=">>, <<"|", "|">>}
DigitSet == {Digit[k] : k \in DOMAIN Digit}
DigitValue == [c \in DigitSet |-> (CHOOSE k \in DOMAIN Digit : Digit[k] = c) - 1]
Unknown == {"\\", "?", "@", "!", "|"}
IsWord(p) == p \notin Blanks \cup SingleOperators \cup DigitSet \cup Unknown \cup {"<", ">", "'", "#"}

At(text, i) == IF i \in DOMAIN text THEN text[i] ELSE "END_OF_TEXT"
\* the first place at or after i whose piece is not in set
Beyond(text, i, set) == Min({k \in i..(Len(text) + 1) : At(text, k) \notin set})

RECURSIVE skip_whitespace_and_comments(_, _)
skip_whitespace_and_comments(text, i) ==
  LET places == i..(Len(text) + 1)
      line   == Min({k \in places : At(text, k) \in {"NEWLINE", "END_OF_TEXT"}})
      block  == {k \in places : k >= i + 2 /\ At(text, k) = "*" /\ At(text, k + 1) = "/"}
  IN  CASE At(text, i) \in Blanks -> skip_whitespace_and_comments(text, i + 1)
        [] \/ At(text, i) = "#"
           \/ At(text, i) = "-" /\ At(text, i + 1) = "-" -> skip_whitespace_and_comments(text, line)
        [] At(text, i) = "/" /\ At(text, i + 1) = "*" ->
             IF block = {} THEN Len(text) + 1 ELSE skip_whitespace_and_comments(text, Min(block) + 2)
        [] OTHER -> i

\* what a scanner leaves: a token and the place after it
Token(kind, value, next) == [tok |-> <<kind, value>>, next |-> next]
LexicalError(next) == Token("ERROR", 0, next)

scan_identifier_or_keyword(text, i) ==
  LET w == text[i]
  IN  CASE w \in DOMAIN KeywordAlias -> Token(KeywordAlias[w], 0, i + 1)
        [] w \in Keywords            -> Token(w, 0, i + 1)
        [] OTHER                     -> Token("ID", w, i + 1)

NumberOf(digits) == FoldLeft(LAMBDA n, c : 10 * n + DigitValue[c], 0, digits)
scan_number(text, i) ==
  LET j == Beyond(text, i, DigitSet)
      dotted == At(text, j) = "." /\ At(text, j + 1) \in DigitSet
      k == IF dotted THEN Beyond(text, j + 1, DigitSet) ELSE j
      part == IF dotted THEN SubSeq(text, j + 1, k - 1) ELSE <<>>
      whole == NumberOf(SubSeq(text, i, j - 1))
      mantissa == Ratio(whole * 10^Len(part) + NumberOf(part), 10^Len(part))
      signed == At(text, k + 1) \in {"+", "-"}
      x == IF signed THEN k + 2 ELSE k + 1
      y == Beyond(text, x, DigitSet)
      power == 10^NumberOf(SubSeq(text, x, y - 1))
  IN  IF At(text, k) \notin {"e", "E"}
      THEN IF dotted THEN Token("FLOAT_LIT", mantissa, k) ELSE Token("INTEGER_LIT", whole, k)
      ELSE IF y = x THEN LexicalError(x)
      ELSE Token("FLOAT_LIT", IF At(text, k + 1) = "-" THEN Over(mantissa, Whole(power))
                              ELSE Times(mantissa, Whole(power)), y)

\* i is behind the opening quote; '' stands for one quote
RECURSIVE scan_string(_, _, _)
scan_string(text, i, value) ==
  CASE i > Len(text) -> LexicalError(i)
    [] At(text, i) = "'" /\ At(text, i + 1) = "'" -> scan_string(text, i + 2, Append(value, "'"))
    [] At(text, i) = "'" /\ At(text, i + 1) # "'" -> Token("STRING_LIT", value, i + 1)
    [] OTHER -> scan_string(text, i + 1, Append(value, text[i]))

next_token(text, i) ==
  LET p == At(text, i)
      pair == <<p, At(text, i + 1)>>
  IN  CASE i > Len(text)          -> Token("END_OF_INPUT", 0, i)
        [] IsWord(p)              -> scan_identifier_or_keyword(text, i)
        [] p \in DigitSet         -> scan_number(text, i)
        [] p = "'"                -> scan_string(text, i + 1, <<>>)
        [] pair \in DoubleOperators -> Token(IF pair = <<"!", "=">> THEN "<>" ELSE pair[1] \o pair[2], 0, i + 2)
        [] p \in SingleOperators \cup {"<", ">"} /\ pair \notin DoubleOperators -> Token(p, 0, i + 1)
        [] OTHER                  -> LexicalError(i + 1)

\* the tokens the parser gets to see: it takes an error for the end of the input
RECURSIVE TokensFrom(_, _)
TokensFrom(text, i) ==
  LET t == next_token(text, skip_whitespace_and_comments(text, i))
  IN  IF t.tok[1] \in {"END_OF_INPUT", "ERROR"} THEN <<>> ELSE <<t.tok>> \o TokensFrom(text, t.next)
Tokens(text) == TokensFrom(text, 1)

(***************************************************************************)
(* Trees of statements.  A select list entry is [expr, alias] with "" for  *)
(* no alias; a table is [name, alias]; limit and offset are sequences of   *)
(* at most one number.                                                     *)
(***************************************************************************)
TableRef(name, alias) == [name |-> name, alias |-> alias]
Item(expr, alias) == [expr |-> expr, alias |-> alias]
OrderBy(expr, desc) == [expr |-> expr, desc |-> desc]
Join(type, table, condition) == [type |-> type, table |-> table, condition |-> condition]
EmptySelect ==
  [stmt |-> "SELECT", distinct |-> FALSE, all |-> FALSE, items |-> <<>>, from |-> TableRef("", ""),
   joins |-> <<>>, where |-> NoExpr, groupBy |-> <<>>, having |-> NoExpr, orderBy |-> <<>>,
   limit |-> <<>>, offset |-> <<>>]
ColumnDef(name, type, length, nullable) ==
  [name |-> name, type |-> type, length |-> length, nullable |-> nullable]
CreateTable(table, columns) == [stmt |-> "CREATE", table |-> table, columns |-> columns]
DropTable(table, ifExists) == [stmt |-> "DROP", table |-> table, ifExists |-> ifExists]
Insert(table, columns, values) ==
  [stmt |-> "INSERT", table |-> table, columns |-> columns, values |-> values]
\* assignments are pairs of a column and an expression
Update(table, assignments, where) ==
  [stmt |-> "UPDATE", table |-> table, assignments |-> assignments, where |-> where]
Delete(table, where) == [stmt |-> "DELETE", table |-> table, where |-> where]

(***************************************************************************)
(* toString.                                                               *)
(***************************************************************************)
Words(ws) == [i \in DOMAIN ws |-> <<ws[i]>>]
Operator(op) == IF \E p \in DoubleOperators : p[1] \o p[2] = op
                THEN CHOOSE p \in DoubleOperators : p[1] \o p[2] = op ELSE <<op>>
Enclosed(chunks) == Words(<<"(">>) \o chunks \o Words(<<")">>)
Separated(list) ==
  FlattenSeq([i \in DOMAIN list |-> IF i = 1 THEN list[i] ELSE Words(<<",">>) \o list[i]])
NumberText(n) == <<Decimal(n)>>
Name(table, column) == IF table = "" THEN <<<<column>>>> ELSE <<<<table, ".", column>>>>

\* a quote within a string is not doubled; a negative number has a chunk of its own for the sign
LiteralText(lit) ==
  LET kind == lit.value[1] x == lit.value[2]
  IN  CASE kind = "null"   -> Words(<<"NULL">>)
        [] kind = "int"    -> NumberText(x)
        [] kind = "float"  -> <<toString(Double(x))>>
        [] kind = "bool"   -> Words(<<IF x THEN "TRUE" ELSE "FALSE">>)
        [] kind = "string" -> <<<<"'">> \o x \o <<"'">>>>

\* Mutated form: the negation of IN, BETWEEN, LIKE and IS NULL is not written.
NotForgotten(negated) == <<>>
NotIf(negated) == IF negated THEN Words(<<"NOT">>) ELSE <<>>
RECURSIVE ExprText(_)
ExprText(e) ==
  LET All(list) == Separated([i \in DOMAIN list |-> ExprText(list[i])])
  IN  CASE e.node = "LITERAL"    -> LiteralText(e)
        [] e.node = "COLUMN_REF" -> Name(e.table, e.column)
        [] e.node = "BINARY"     -> Enclosed(ExprText(e.left) \o <<Operator(e.op)>> \o ExprText(e.right))
        [] e.node = "UNARY"      -> <<Operator(e.op)>> \o Enclosed(ExprText(e.operand))
        [] e.node = "IS_NULL"    -> ExprText(e.expr) \o Words(<<"IS">>) \o NotIf(e.negated) \o Words(<<"NULL">>)
        [] e.node = "CASE"       ->
             Words(<<"CASE">>)
               \o FlattenSeq([i \in DOMAIN e.whens |->
                    Words(<<"WHEN">>) \o ExprText(e.whens[i][1]) \o Words(<<"THEN">>) \o ExprText(e.whens[i][2])])
               \o (IF e.else = NoExpr THEN <<>> ELSE Words(<<"ELSE">>) \o ExprText(e.else))
               \o Words(<<"END">>)
        [] e.node = "IN"         ->
             Enclosed(ExprText(e.expr) \o NotIf(e.negated) \o Words(<<"IN">>) \o Enclosed(All(e.values)))
        [] e.node = "BETWEEN"    ->
             Enclosed(ExprText(e.expr) \o NotIf(e.negated) \o Words(<<"BETWEEN">>) \o ExprText(e.low)
                        \o Words(<<"AND">>) \o ExprText(e.high))
        [] e.node = "LIKE"       ->
             Enclosed(ExprText(e.str) \o NotIf(e.negated) \o Words(<<"LIKE">>) \o ExprText(e.pattern))
        [] e.node = "COALESCE"   -> Words(<<"COALESCE">>) \o Enclosed(All(e.args))
        [] e.node = "NULLIF"     -> Words(<<"NULLIF">>) \o Enclosed(All(<<e.expr1, e.expr2>>))
        [] e.node = "FUNCTION_CALL" -> Words(<<e.name>>) \o Enclosed(All(e.args))
        [] e.node = "AGGREGATE"  ->
             Words(<<e.agg>>)
               \o Enclosed(IF e.star THEN Words(<<"*">>)
                           ELSE (IF e.distinct THEN Words(<<"DISTINCT">>) ELSE <<>>) \o ExprText(e.arg))

(***************************************************************************)
(* Statements, given how their expressions X(_) are written.               *)
(***************************************************************************)
TableText(t) == Words(IF t.alias = "" THEN <<t.name>> ELSE <<t.name, "AS", t.alias>>)
Clause(X(_), words, e) == IF e = NoExpr THEN <<>> ELSE Words(words) \o X(e)
JoinText(X(_), j) ==
  IF j.type = "CROSS" THEN Words(<<",">>) \o TableText(j.table)
  ELSE Words(<<j.type, "JOIN">>) \o TableText(j.table) \o Clause(X, <<"ON">>, j.condition)
ItemText(X(_), item) == X(item.expr) \o (IF item.alias = "" THEN <<>> ELSE Words(<<"AS", item.alias>>))
OrderText(X(_), o) == X(o.expr) \o Words(<<IF o.desc THEN "DESC" ELSE "ASC">>)
ListClause(words, list) == IF list = <<>> THEN <<>> ELSE Words(words) \o Separated(list)
CountClause(word, n) == IF n = <<>> THEN <<>> ELSE Words(<<word>>) \o NumberText(n[1])

SelectText(X(_), s) ==
  Words(IF s.distinct THEN <<"SELECT", "DISTINCT">> ELSE <<"SELECT">>)
    \o (IF s.all THEN Words(<<"*">>) ELSE Separated([i \in DOMAIN s.items |-> ItemText(X, s.items[i])]))
    \o Words(<<"FROM">>) \o TableText(s.from)
    \o FlattenSeq([i \in DOMAIN s.joins |-> JoinText(X, s.joins[i])])
    \o Clause(X, <<"WHERE">>, s.where)
    \o ListClause(<<"GROUP", "BY">>, [i \in DOMAIN s.groupBy |-> X(s.groupBy[i])])
    \o Clause(X, <<"HAVING">>, s.having)
    \o ListClause(<<"ORDER", "BY">>, [i \in DOMAIN s.orderBy |-> OrderText(X, s.orderBy[i])])
    \o CountClause("LIMIT", s.limit) \o CountClause("OFFSET", s.offset)

ColumnText(c) ==
  Words(<<c.name, c.type>>) \o (IF c.length = 0 THEN <<>> ELSE Enclosed(NumberText(c.length)))
    \o (IF c.nullable THEN <<>> ELSE Words(<<"NOT", "NULL">>))
StatementText(X(_), s) ==
  CASE s.stmt = "SELECT" -> SelectText(X, s)
    [] s.stmt = "CREATE" -> Words(<<"CREATE", "TABLE", s.table>>)
                              \o Enclosed(Separated([i \in DOMAIN s.columns |-> ColumnText(s.columns[i])]))
    [] s.stmt = "DROP"   -> Words(<<"DROP", "TABLE">> \o (IF s.ifExists THEN <<"IF", "EXISTS">> ELSE <<>>)
                                    \o <<s.table>>)
    [] s.stmt = "INSERT" ->
         Words(<<"INSERT", "INTO", s.table>>)
           \o (IF s.columns = <<>> THEN <<>>
               ELSE Enclosed(Separated([i \in DOMAIN s.columns |-> Words(<<s.columns[i]>>)])))
           \o Words(<<"VALUES">>) \o Enclosed(Separated([i \in DOMAIN s.values |-> X(s.values[i])]))
    [] s.stmt = "UPDATE" ->
         Words(<<"UPDATE", s.table, "SET">>)
           \o Separated([i \in DOMAIN s.assignments |->
                          Words(<<s.assignments[i][1], "=">>) \o X(s.assignments[i][2])])
           \o Clause(X, <<"WHERE">>, s.where)
    [] s.stmt = "DELETE" -> Words(<<"DELETE", "FROM", s.table>>) \o Clause(X, <<"WHERE">>, s.where)

\* the chunks as a text of one line
OneLine(chunks) == FlattenSeq([i \in DOMAIN chunks |-> IF i = 1 THEN chunks[i] ELSE <<" ">> \o chunks[i]])
=============================================================================
