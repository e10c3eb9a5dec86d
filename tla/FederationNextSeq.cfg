SPECIFICATION Spec
CONSTANTS
    Agent = {"a", "b"}
    SlugName = {"x"}
    Facts <- OneAgent
    Thread = {t1}
    NoThread = NoThread
    PeerFilter = "exclusive"
    CursorMode = "inclusive"
    JoinMayTimeout = FALSE
    MaxPeerSeq = 3
    MaxFaults = 0
INVARIANTS
    NothingSkipped
