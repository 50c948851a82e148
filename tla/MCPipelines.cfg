SPECIFICATION PipelinesSpec
CONSTANTS
    Stage <- MCStage
    RequiredDeps <- MCRequired
    OptionalDeps <- MCOptional
    FinalizeRequired <- MCFinalizeRequired
    ConcurrencyLimit = 2
    LlmStages <- MCLlmStages
    MaxAttempts = 2
    WithContext = TRUE
    MaxCrashes = 1
INVARIANTS
    CleanEndIsComplete
    CompletedWasChecked
PROPERTIES
    KeepsContract
    Terminates
    DriveKeepsContract
    Concludes
CHECK_DEADLOCK FALSE
