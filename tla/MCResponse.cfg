SPECIFICATION Spec
CONSTANTS
    Scenarios <- MCScenarios
    Ceiling = 3
INVARIANTS
    UnchangedMeansSame
    RebaseDoesWhatWasListed
    CheckIsEntailment
    CarriedValuesSayIt
CHECK_DEADLOCK FALSE
