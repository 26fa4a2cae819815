CONSTANTS
    Tables = {a, b}
    Schemas = {s1, s2}
    NoTable = none
    MaxCreates = 2
    Faults = {"saveCreate"}
SPECIFICATION Spec
INVARIANTS FailedCreateLeavesNothing
