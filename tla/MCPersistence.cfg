SPECIFICATION Spec
CONSTANTS
    Premise = {"p1", "p2"}
    Variable = {"v1", "v2", "v3"}
    Expression = {"e1", "e2", "e3"}
    Symbol = {"s", "t", "u"}
    Starts <- MCStarts
    MaxCalls = 4
INVARIANTS
    StoreAccepts
    StoreCatchesUp
    DiffTellsAll
CHECK_DEADLOCK FALSE
