CONSTANTS
    PosMin <- mc_PosMin
    PosMax = 11
    PosInitial = 0
    MaxNodes = 9
    Variable = {"p", "q"}
    Loaded <- mc_Loaded
    AskedKinds = {"p", "and", "not", "implies", "formula"}
    AskedPositions = {1}
    MaxEdits = 2
    MaxEdited = 6
SPECIFICATION Spec
INVARIANTS
    StaysStructural
PROPERTIES
    KeepsOrder
    NormalizeTidies
    NormalizeKeepsMeaning
CHECK_DEADLOCK FALSE
