CONSTANTS
    Run = {1, 2, 3}
    Policies <- mc_Policies
    Settings <- mc_Settings
    ResponseId <- mc_ResponseId
    MaxRounds = 2
    MaxDeltas = 0
SPECIFICATION ConversationSpec
INVARIANTS
    AbortCancels
CHECK_DEADLOCK FALSE
