CONSTANTS
    PosMin <- mc_PosMin
    PosMax = 11
    PosInitial = 0
    MaxNodes = 9
    Variable = {"p", "q"}
    Loaded <- mc_Operands
    AskedKinds = {"p", "and", "not", "implies", "formula"}
    AskedPositions = {1, 2}
    MaxEdits = 2
    MaxEdited = 6
SPECIFICATION Spec
INVARIANTS
    StructuralViolationsThrow
CHECK_DEADLOCK FALSE
