SPECIFICATION FairSpec
CONSTANTS
    Agent = {"a", "b"}
    SlugName = {"x"}
    Facts <- OneAgent
    Thread = {t1, t2}
    NoThread = NoThread
    PeerFilter = "inclusive"
    CursorMode = "inclusive"
    JoinMayTimeout = TRUE
    MaxPeerSeq = 2
    MaxFaults = 1
INVARIANTS
    NothingSkipped
PROPERTIES
    CatchesUp
