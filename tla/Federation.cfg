SPECIFICATION FairSpec
CONSTANTS
    Agent = {"a", "b"}
    SlugName = {"x"}
    Facts <- SharedSlug
    Thread = {t1}
    NoThread = NoThread
    PeerFilter = "exclusive"
    CursorMode = "exclusive"
    JoinMayTimeout = FALSE
    MaxPeerSeq = 3
    MaxFaults = 2
INVARIANTS
    NothingSkipped
    CaughtUpAgrees
PROPERTIES
    NothingReapplied
    StopReturns
    CatchesUp
