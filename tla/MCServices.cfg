SPECIFICATION Spec
CONSTANTS
    Parts = {"gate", "provider", "state", "ledger", "query", "install", "proposal", "notes", "reading", "setup", "keep", "route", "calling"}
    Unknown = Unknown
    Missing = Missing
    k1 = k1
    k2 = k2
    Nowhere = Nowhere
    Nothing = Nothing
    Unspecified = Unspecified
    NoNote = NoNote
    NoCall = NoCall
    NoHook = NoHook
    NoLine = NoLine
    NoRoute = NoRoute
    Unsaid = Unsaid
PROPERTIES
    SessionsHold
    StorageHolds
    AnswersHold
    InstallHolds
    ProposalHolds
    RoutesHold
CHECK_DEADLOCK FALSE
