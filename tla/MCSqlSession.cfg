CONSTANTS
    Sayings <- MCSayings
    MaxRows = 3
SPECIFICATION Spec
INVARIANTS
    TypeOK StatementArrives PrintedTextParses ComparatorOrders
PROPERTIES
    SelectExact GroupsExact JoinExact TablesExact Answered
