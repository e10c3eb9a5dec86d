SPECIFICATION VerifySpec
CONSTANTS
    Registered = {"ans-scitt", "ans-txt", "dns-aid", "ed25519-agentcard", "jws-catalog"}
    Request <- MCRequest
    Vantage = {"v1", "v2"}
    Answer <- MCAnswer
    World <- MCWorld
    MaxChanges = 2
    Entry = {"x", "y", "z"}
    NoObject = NoObject
    None = None
    Bad = Bad
    Short = Short
CHECK_DEADLOCK FALSE
INVARIANTS
    VerifiedIsReal
    RejectionIsReal
    TamperIsNoticed
