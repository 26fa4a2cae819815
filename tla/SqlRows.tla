------------------------------ MODULE SqlRows ------------------------------
(***************************************************************************)
(* What INSERT and UPDATE do to values before they are stored, and what    *)
(* reading a stored row gives back: the conversions of Executor, Schema    *)
(* and RowSerializer.  A serialized row is a sequence of cells; a cell is  *)
(* the flag for NULL, or the bytes that the type of the column calls for,  *)
(* taken from the value by the accessor of that type.                      *)
(***************************************************************************)
EXTENDS SqlExpressions

\* a literal of INSERT, by the type of its column
ConvertLiteral(lit, type) ==
  LET kind == lit.value[1] x == lit.value[2]
  IN  CASE kind = "int"   -> IF type = "BIGINT" THEN Bigint(x) ELSE Integer(x)
        [] kind = "float" -> IF type = "FLOAT" THEN Float(x) ELSE Double(x)
        [] OTHER          -> LiteralValue(lit)

\* Mutated form: a NULL is let into every column.
LengthOnly(schema, row) == Len(row) = Len(schema)
validateRow(schema, row) ==
  /\ Len(row) = Len(schema)
  /\ \A i \in DOMAIN schema : isNull(row[i]) => schema[i].nullable

(***************************************************************************)
(* RowSerializer.                                                          *)
(***************************************************************************)
NullFlag == <<"null">>
\* asFloat and asDouble of another type give almost zero, or NaN for the bits of a negative number
Fraction(v, type) ==
  CASE typeId(v) = type -> payload(v)
    [] isInteger(v) /\ payload(v) < 0 /\ (type = "FLOAT" \/ typeId(v) = "BIGINT") -> NaN
    [] OTHER -> Whole(0)
Cell(v, type) ==
  IF isNull(v) THEN NullFlag
  ELSE <<type, CASE type = "INTEGER" -> asInt32(v)
                 [] type = "BIGINT"  -> asInt64(v)
                 [] type \in {"FLOAT", "DOUBLE"} -> Fraction(v, type)
                 [] type = "BOOLEAN" -> asBool(v)
                 [] type = "VARCHAR" -> asString(v)
                 [] OTHER            -> 0>>
serialize(row, schema) == [i \in DOMAIN schema |-> Cell(row[i], schema[i].type)]

\* a record that ends early gives NULL for what is missing
Read(cells, i, type) ==
  IF i > Len(cells) \/ type \notin NumericTypes \cup {"BOOLEAN", "VARCHAR"} THEN Null
  ELSE IF cells[i] = NullFlag THEN Null ELSE <<type, cells[i][2]>>
deserialize(cells, schema) == [i \in DOMAIN schema |-> Read(cells, i, schema[i].type)]
Stored(row, schema) == deserialize(serialize(row, schema), schema)

(***************************************************************************)
(* The row an UPDATE makes of an old one: every expression sees the old    *)
(* row, and of two assignments to one column the later stays.              *)
(***************************************************************************)
\* Mutated form: an expression sees the assignments before it.
SequentialRow(old, stmt, schema) ==
  FoldLeft(LAMBDA row, a : [row EXCEPT ![columnIndex(schema, a[1])] = evaluateExpr(a[2], row, schema)],
           old, stmt.assignments)
NewRow(old, stmt, schema) ==
  LET assigned(i) == {k \in DOMAIN stmt.assignments :
                        columnIndex(schema, stmt.assignments[k][1]) = i}
  IN  [i \in DOMAIN schema |->
        IF assigned(i) = {} THEN old[i]
        ELSE evaluateExpr(stmt.assignments[Max(assigned(i))][2], old, schema)]
=============================================================================
