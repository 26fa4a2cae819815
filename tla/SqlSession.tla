----------------------------- MODULE SqlSession -----------------------------
(***************************************************************************)
(* A session of the command line (src/cli/repl.cpp) with the executor      *)
(* behind it: lines are read and gathered until one ends a statement, the  *)
(* statement is parsed and executed, a SELECT is fetched row by row and    *)
(* shown.                                                                  *)
(*                                                                         *)
(* The user is outside the program: he decides what to say next when he    *)
(* has seen the answer, and types it line by line.  The storage below does *)
(* not fail here (HeapTable and CatalogStore have its failures); a table   *)
(* is the rows its iterator finds, in that order.                          *)
(***************************************************************************)
EXTENDS SqlParser, SqlSelect, SqlRows, SqlDeviations

CONSTANTS
    Sayings(_)      \* what a user may type when the tables are these: a set of
                    \* [stmt, lines, heard], the statement that is meant, its text,
                    \* and, where Misread(lines), what the program makes of that text

VARIABLES
    tables,             \* Catalog and storage: a table to [schema, rows]
    accumulated_input_,
    in_multiline_,
    running_,
    pc,                 \* "read" a line, "execute" the statement, "fetch" its rows, "ended"
    current,            \* the statement as parsed
    result_rows_,       \* Executor's iterator
    current_row_index_, \* (rows before it were handed out)
    collected,          \* the rows executeSql has gathered
    output,             \* what the statement printed, a sequence of at most one entry
    saying,             \* history: what the user said last
    to_type             \* and the lines of it that are still to come

reading == <<accumulated_input_, in_multiline_, running_>>
fetching == <<result_rows_, current_row_index_, collected>>
user == <<saying, to_type>>
vars == <<tables, reading, pc, current, fetching, output, user>>

NoStatement == [stmt |-> "NONE"]
Silence == [stmt |-> NoStatement, lines |-> <<>>, heard |-> NoStatement]

Init ==
    /\ tables = <<>> /\ accumulated_input_ = <<>> /\ in_multiline_ = FALSE /\ running_ = TRUE
    /\ pc = "read" /\ current = NoStatement
    /\ result_rows_ = <<>> /\ current_row_index_ = 1 /\ collected = <<>>
    /\ output = <<>> /\ saying = Silence /\ to_type = <<>>

(***************************************************************************)
(* The user.                                                               *)
(***************************************************************************)
Waiting == running_ /\ pc = "read" /\ to_type = <<>>

Say ==
    /\ Waiting /\ saying = Silence
    /\ \E s \in Sayings(tables) : saying' = s /\ to_type' = s.lines
    /\ UNCHANGED <<tables, reading, pc, current, fetching, output>>

\* he has read the answer; the next statement does not depend on it
Look ==
    /\ Waiting /\ saying # Silence /\ accumulated_input_ = <<>>
    /\ saying' = Silence /\ current' = NoStatement /\ collected' = <<>> /\ output' = <<>>
    /\ UNCHANGED <<tables, reading, pc, result_rows_, current_row_index_, to_type>>

(***************************************************************************)
(* Repl::run: one line.                                                    *)
(***************************************************************************)
Printed(kind, what) == <<[kind |-> kind, header |-> what, rows |-> <<>>]>>
Line == Head(to_type)
IsMeta == ~in_multiline_ /\ Line # <<>> /\ Line[1] = "\\"

\* handleMetaCommand: every command is dealt with, known or not
MetaCommand ==
    /\ running_ /\ pc = "read" /\ to_type # <<>> /\ IsMeta
    /\ LET command == Tail(Line)
       IN  /\ running_' = (command # <<"Q">>)
           /\ output' = CASE command = <<"Q">>  -> <<>>
                          [] command = <<"?">>  -> Printed("help", <<>>)
                          [] command = <<"DT">> -> Printed("tables", DOMAIN tables)
                          [] OTHER              -> Printed("invalid", command)
    /\ to_type' = Tail(to_type)
    /\ UNCHANGED <<tables, accumulated_input_, in_multiline_, pc, current, fetching, saying>>

Accumulated ==
    IF accumulated_input_ = <<>> THEN Line ELSE accumulated_input_ \o <<" ">> \o Line
IsComplete(text) == text # <<>> /\ Last(text) = ";"

ReadMore ==
    /\ running_ /\ pc = "read" /\ to_type # <<>> /\ ~IsMeta
    /\ ~IsComplete(Accumulated)
    /\ accumulated_input_' = Accumulated
    /\ in_multiline_' = TRUE
    /\ to_type' = Tail(to_type)
    /\ UNCHANGED <<tables, running_, pc, current, fetching, output, saying>>

\* The line ends the statement: executeSql parses it, or complains.
LastLine == running_ /\ pc = "read" /\ to_type # <<>> /\ ~IsMeta /\ IsComplete(Accumulated)
ReadLast ==
    /\ LastLine
    /\ LET input  == Front(Accumulated)
           parsed == parseStatement(Tokens(input))
       IN  IF input # <<>> /\ parsed.ok
           THEN /\ pc' = "execute" /\ current' = parsed.node
                /\ UNCHANGED output
           ELSE /\ output' = IF input = <<>> THEN <<>> ELSE Printed("error", <<>>)
                /\ UNCHANGED <<pc, current>>
    /\ accumulated_input_' = <<>>
    /\ in_multiline_' = FALSE
    /\ to_type' = Tail(to_type)
    /\ UNCHANGED <<tables, running_, fetching, saying>>

(***************************************************************************)
(* Executor: statements without rows.  They answer EMPTY, for which the    *)
(* command line prints nothing.                                            *)
(***************************************************************************)
Executing(kind) == pc = "execute" /\ current.stmt = kind
Known == current.table \in DOMAIN tables
Schema == tables[current.table].schema
OldRows == tables[current.table].rows

Fail ==
    /\ pc' = "read" /\ output' = Printed("error", <<>>)
    /\ UNCHANGED <<tables, reading, current, fetching, user>>
Done(newTables) ==
    /\ pc' = "read" /\ tables' = newTables
    /\ UNCHANGED <<reading, current, fetching, output, user>>
WithRows(rows) == [tables EXCEPT ![current.table].rows = rows]

ColumnType == [INT |-> "INTEGER", BIGINT |-> "BIGINT", FLOAT |-> "FLOAT", DOUBLE |-> "DOUBLE",
               VARCHAR |-> "VARCHAR", TEXT |-> "VARCHAR", BOOLEAN |-> "BOOLEAN"]
toLogicalType(c) == Column(c.name, ColumnType[c.type], c.nullable)

RunCreate ==
    /\ Executing("CREATE")
    /\ IF Known THEN Fail
       ELSE LET columns == current.columns
                new == [schema |-> [i \in DOMAIN columns |-> toLogicalType(columns[i])], rows |-> <<>>]
            IN  Done([t \in DOMAIN tables \cup {current.table} |->
                        IF t = current.table THEN new ELSE tables[t]])

RunDrop ==
    /\ Executing("DROP")
    /\ IF ~Known THEN IF current.ifExists THEN Done(tables) ELSE Fail
       ELSE Done(Restrict(tables, DOMAIN tables \ {current.table}))

RunInsert ==
    /\ Executing("INSERT")
    /\ IF \/ ~Known
          \/ Len(current.values) # Len(Schema)
          \/ \E i \in DOMAIN current.values : current.values[i].node # "LITERAL"
       THEN Fail
       ELSE LET row == [i \in DOMAIN Schema |-> ConvertLiteral(current.values[i], Schema[i].type)]
            IN  IF ~validateRow(Schema, row) THEN Fail
                ELSE Done(WithRows(Append(OldRows, Stored(row, Schema))))

Matches(row) == evaluateWhereClause(current.where, row, Schema)

\* All new rows are made, and refused or not, before the first is stored; a row
\* that is stored goes behind the others of its page.
RunUpdate ==
    /\ Executing("UPDATE")
    /\ IF \/ ~Known
          \/ \E i \in DOMAIN OldRows :
               /\ Matches(OldRows[i])
               /\ \/ \E k \in DOMAIN current.assignments : ~hasColumn(Schema, current.assignments[k][1])
                  \/ ~validateRow(Schema, NewRow(OldRows[i], current, Schema))
       THEN Fail
       ELSE LET updates == SelectSeq(OldRows, Matches)
            IN  Done(WithRows(SelectSeq(OldRows, LAMBDA r : ~Matches(r))
                  \o [i \in DOMAIN updates |-> Stored(NewRow(updates[i], current, Schema), Schema)]))

RunDelete ==
    /\ Executing("DELETE")
    /\ IF ~Known THEN Fail
       ELSE Done(WithRows(SelectSeq(OldRows, LAMBDA r : ~Matches(r))))

(***************************************************************************)
(* SELECT: execute prepares all rows and hands out the first, the command  *)
(* line asks for the others, shows them and resets the query.              *)
(***************************************************************************)
RunSelect ==
    /\ Executing("SELECT")
    /\ \E answer \in prepareSelect(current, tables) :
         IF ~answer.ok THEN Fail
         ELSE LET first == IF answer.rows = <<>> THEN 0 ELSE 1
              IN  /\ pc' = "fetch"
                  /\ result_rows_' = answer.rows
                  /\ current_row_index_' = first + 1
                  /\ collected' = SubSeq(answer.rows, 1, first)
                  /\ UNCHANGED <<tables, reading, current, output, user>>

hasNext == current_row_index_ <= Len(result_rows_)
\* Mutated form: the index stays where it is.
FetchAgain ==
    /\ pc = "fetch" /\ hasNext
    /\ collected' = <<result_rows_[current_row_index_]>>
    /\ UNCHANGED <<tables, reading, pc, current, result_rows_, current_row_index_, output, user>>
FetchRow ==
    /\ pc = "fetch" /\ hasNext
    /\ collected' = Append(collected, result_rows_[current_row_index_])
    /\ current_row_index_' = current_row_index_ + 1
    /\ UNCHANGED <<tables, reading, pc, current, result_rows_, output, user>>

\* the header is that of the first table, and longer rows are cut to it
ShowRows ==
    /\ pc = "fetch" /\ ~hasNext
    /\ LET header == Names(tables[current.from.name].schema)
           Shown(row) == SubSeq(row, 1, Min({Len(row), Len(header)}))
       IN  output' = <<[kind |-> "rows", header |-> header,
                        rows |-> [i \in DOMAIN collected |-> Shown(collected[i])]]>>
    /\ pc' = "read" /\ result_rows_' = <<>> /\ current_row_index_' = 1
    /\ UNCHANGED <<tables, reading, current, collected, user>>

\* the input is closed: what was gathered is not executed
EndOfInput ==
    /\ Waiting
    /\ pc' = "ended"
    /\ UNCHANGED <<tables, reading, current, fetching, output, user>>

Dialogue == MetaCommand \/ ReadMore \/ FetchRow \/ ShowRows
Statement == \/ ReadLast \/ RunCreate \/ RunDrop \/ RunInsert \/ RunUpdate \/ RunDelete \/ RunSelect
Terminated == (pc = "ended" \/ ~running_) /\ UNCHANGED vars
Next == Say \/ Look \/ EndOfInput \/ Dialogue \/ Statement \/ Terminated

\* The program is one thread that waits for nothing but a line: weak fairness of its
\* steps.  That of Statement is written out with the condition under which it is
\* enabled, so that no text is parsed and no query computed to find that out: when
\* Ready, every step is one of Statement, since nobody else can move, and that
\* there is one is the absence of deadlock.
Ready == LastLine \/ pc = "execute"
Fairness ==
    /\ WF_vars(Dialogue)
    /\ []<>~Ready \/ []<><<Ready>>_vars
Spec == Init /\ [][Next]_vars /\ Fairness

-----------------------------------------------------------------------------

\* The shape of a session: text is gathered only between the lines of a statement,
\* and rows are prepared only while they are fetched.
TypeOK ==
    /\ in_multiline_ \in BOOLEAN /\ running_ \in BOOLEAN
    /\ pc \in {"read", "execute", "fetch", "ended"}
    /\ accumulated_input_ # <<>> => in_multiline_ /\ pc \in {"read", "ended"}
    /\ current_row_index_ \in 1 .. Len(result_rows_) + 1
    /\ pc # "fetch" => result_rows_ = <<>>
    /\ Len(output) <= 1 /\ IsSuffix(to_type, saying.lines)
    /\ \A t \in DOMAIN tables : \A i \in DOMAIN tables[t].rows :
         Allowed(tables[t].schema, tables[t].rows[i])

\* What is executed is what was typed: "system executes the complete accumulated SQL
\* statement" (openspec/changes/cli-repl-tool/specs/cli-repl/spec.md:29).  The tree
\* the parser builds from the lines the command line has joined is the tree the user
\* wrote down with as few parentheses as the precedence of operators allows.  The
\* promise is not kept for the texts that Misread lists, where a WHERE behind a comment
\* is lost and the like: there the part that is heard is executed, or nothing.
StatementArrives ==
    pc = "execute" => current = IF Misread(saying.lines) THEN saying.heard ELSE saying.stmt

\* toString (src/parser/ast.cpp) writes a tree in a form that means it: read again,
\* it gives the same tree.  The exceptions are those of Misprinted: a quote in a
\* string, a long fraction, NOT or IS NULL as an operand of a closer operator, a sign in a
\* pattern, a CROSS JOIN behind another JOIN.
PrintedTextParses ==
    LET text == OneLine(StatementText(ExprText, current))
    IN  pc = "execute" /\ ~Misprinted(current) => parseStatement(Tokens(text)) = Parsed(current, <<>>)

\* a step prints what the user asked for with a query of a kind
Answers(kind(_)) ==
    output' \notin {output, <<>>} /\ saying.heard.stmt = "SELECT" /\ kind(saying.heard)
\* The answer is that of SQL to the statement, after the rules of SqlDeviations.
AnsweredRight ==
    LET answer == output'[1]
        taken  == AsTaken(saying.heard, tables)
    IN  IF ~Answerable(taken, tables) \/ RefusedToo(saying.heard, tables)
        THEN answer.kind = "error"
        ELSE /\ answer.kind = "rows"
             /\ IF Unsettled(saying.heard, tables)
                THEN IsPart(answer.rows, taken, tables, Width(taken, tables))
                ELSE IsAnswer(answer.rows, taken, tables, Width(taken, tables))

\* SELECT on one table shows the rows for which WHERE is true in the logic of three
\* values, every one as often as it is there, without duplicates under DISTINCT, in
\* the order of ORDER BY with NULL last, and of these the part that LIMIT and OFFSET
\* say, whichever order std::sort leaves equal rows in.  The exceptions (AsTaken): IN,
\* BETWEEN and NULLIF compare by type, AND and OR of a NULL are not three-valued, a
\* NULL in the list of IN is passed over, MOD by 0 and 1, a column that does not exist
\* is NULL, ORDER BY looks in another list than the one selected (SortPlace), and rows
\* are cut to the width of the table.
SelectExact ==
    [][Answers(LAMBDA s : ~Grouped(s) /\ ~Joined(s)) => AnsweredRight]_vars

\* A query with GROUP BY or aggregates shows one row for every group of rows with
\* the same key, NULL being one key, and one row without GROUP BY even when no row
\* is left; aggregates pass over NULL; one that names a column outside the grouping
\* is refused (Executor::validateAggregateQuery).  The exceptions (TakenInGroup,
\* TakenAsGrouped, RefusedToo): comparisons in HAVING go by type, so that COUNT of
\* anything against a number is decided by the types alone; all but operators,
\* columns, literals and aggregates is NULL; DISTINCT counts in COUNT only; an aggregate within a
\* function, a CASE or the like is not noticed; SUM and AVG refuse a BIGINT or FLOAT.
GroupsExact == [][Answers(LAMBDA s : Grouped(s) /\ ~Joined(s)) => AnsweredRight]_vars

\* A join shows the pairs of rows that satisfy its ON conditions and WHERE, as often
\* as there are such pairs, sorted and cut after it is joined.  The exceptions
\* (SelectTaken, Lookup, Unsettled): GROUP BY, HAVING and aggregates are ignored, a
\* column is that of the last table that has the name, rows are cut to the width of the first
\* table, LEFT and RIGHT are refused, and of three tables, where the second condition
\* names the third table, some of the rows of the cross product are shown.
JoinExact == [][Answers(LAMBDA s : Joined(s)) => AnsweredRight]_vars

\* A statement changes the tables as it says or not at all: no step other than its
\* execution does, an UPDATE computes every new row from the old one and is refused
\* as a whole.  The exceptions (InsertTaken, UpdateTaken, Kept): INSERT ignores its list of
\* columns and takes literals only; a value of another type than its column, such as
\* a + 1 for an INTEGER, is stored as what its bytes are to that type; conditions as in SelectExact.
TablesExact ==
    [][SameTables(tables', IF pc = "execute" THEN Effect(AsTaken(saying.heard, tables), tables)
                                             ELSE tables)]_vars

\* std::sort (executor.cpp:1057) is defined for a strict weak order only: on the rows
\* it is given, with their NULLs, the comparator is one.
ComparatorOrders ==
    pc = "fetch" /\ current.orderBy # <<>> /\ ~Joined(current) =>
        LET aliases == IF Grouped(current) THEN AggregateAliases(current)
                       ELSE ResultAliases(current, tables[current.from.name].schema)
            names == IF Grouped(current) THEN computeAggregateResultSchema(current)
                     ELSE ResultNames(current, tables[current.from.name].schema)
            rows == {result_rows_[i] : i \in DOMAIN result_rows_}
        IN  \A keys \in SortKeys(current, aliases, names) : StrictWeakOrder(keys, rows)

\* Whatever was typed, the command line comes back to its prompt (repl.cpp:25-50), until
\* it is told to quit or its input ends.
Answered == []<>(Waiting \/ ~running_ \/ pc = "ended")

\* "Map integer literals to the column's expected type" (executor.cpp:167): a number
\* written without a point is stored as that number.
IntegersKept ==
    [][Executing("INSERT") /\ tables' # tables =>
         LET row == Last(tables'[current.table].rows)
         IN  \A i \in DOMAIN row : current.values[i].value[1] = "int"
                                    => Norm(row[i]) = Norm(LiteralValue(current.values[i]))]_vars
=============================================================================
