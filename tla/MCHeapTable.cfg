CONSTANTS
    Capacity = 5
    SlotSize = 1
    SizeLimit = 6
    Sizes = {1, 2, 5, 7}
    Keys = {a, b}
    NoRow = none
    MaxVer = 1
    MaxPages = 2
    Faults = {"read"}
SPECIFICATION Spec
INVARIANTS TypeOK TidsStay StatementsExact
PROPERTY IsRowStore
SYMMETRY Symmetry
