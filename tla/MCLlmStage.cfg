CONSTANTS
    Run = {1, 2, 3}
    Policies <- mc_Policies
    Settings <- mc_Settings
    ResponseId <- mc_ResponseId
    MaxRounds = 2
    MaxDeltas = 1
SPECIFICATION ConversationSpec
INVARIANTS
    AsksWithLatestRefusal
    SettledHonestly
    EventsTellTheCall
    ChainsOnAccepted
PROPERTIES
    StageContract
CHECK_DEADLOCK FALSE
