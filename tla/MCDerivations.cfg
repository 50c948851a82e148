CONSTANTS
    PosMin <- mc_PosMin
    PosMax = 11
    PosInitial = 0
    MaxNodes = 8
    Variable = {"q", "s", "c1", "c2", "x", "r1", "r2"}
    Premise = {1, 2}
    Claim = {"q", "s", "c1", "c2", "x"}
    claimType <- mc_claimType
    variableOf <- mc_variableOf
    connections <- mc_connections
    Loaded <- mc_Empty
    HandKinds = {"x", "r1", "iff"}
    MaxEdits = 2
SPECIFICATION Spec
INVARIANTS
    PopulateGivesTheForm
    RepairCures
    NormalizeKeepsDerivable
    ChecksAgree
CHECK_DEADLOCK FALSE
