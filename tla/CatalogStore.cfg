CONSTANTS
    Tables = {a, b}
    Schemas = {s1, s2}
    NoTable = none
    MaxCreates = 2
    Faults = {"open", "readMeta", "saveCreate", "saveDrop"}
SPECIFICATION Spec
INVARIANTS TypeOK AnswersHold RowsOfThisTable
