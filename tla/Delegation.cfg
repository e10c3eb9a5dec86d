SPECIFICATION Spec
CONSTANTS
    Id <- MCId
    NoId = NoId
    Label = {"a", "b"}
    NoEntry = NoEntry
    Forged = Forged
    MaxChain = 3
    Evidence <- MCEvidence
CHECK_DEADLOCK FALSE
INVARIANTS
    ScopesComeFromProvider
    HopsAreDistinct
    EveryHopAccepted
    VerdictIsHonest
