SPECIFICATION LibrariesSpec
CONSTANTS
    ClaimId <- MCClaimId
    Content <- MCContent
    Restored <- MCRestored
    ClaimInput = {}
    Editable = {}
    Linkable <- MCLinkable
    MaxVersions = 2
    MaxConnections = 2
    ArgumentId <- MCArgumentId
    Answers <- MCAnswers
    Nothing = Nothing
    RestoredForks <- MCRestoredForks
    Bindable <- MCBindable
    MaxArgumentVersions <- MCMaxArgumentVersions
    MaxForks = 1
    DocumentId <- MCDocumentId
    LinkId <- MCLinkId
    AnchorId <- MCAnchorId
    RawTexts <- MCRawTexts
    LinkInput <- MCLinkInput
    AnchorInput <- MCAnchorInput
    Snapshots <- MCSnapshots
INVARIANTS
    GraphSound
    RefsSound
    SameVerdictAfresh
    StaysRepairable
PROPERTIES
    FrozenIsForever
    ForkCopiesSupport
    ForkSharesOnlyAnswered
CHECK_DEADLOCK FALSE
