SPECIFICATION ArgumentSpec
CONSTANTS
    PremiseId <- MCPremiseId
    VarId = {v1, v2, v3}
    ExprId = {e1, e2}
    Claim = {k}
    Responses = {TRUE, FALSE}
    Foreign = {1}
    Answered = {x}
    SavedWith <- MCSavedWith
    Arguments <- MCArguments
    Decidable <- MCDecidable
    Ceiling = 2
    MaxRows = 8
SYMMETRY MCSymmetry
INVARIANTS
    StaysValid
    OnlyRebindIsUndone
    IndexAgrees
    ClosureIsUnitPropagation
    SearchMatchesFlatWalk
    ValidIsNeverRefuted
    RelationsFollowShortestWay
CHECK_DEADLOCK FALSE
