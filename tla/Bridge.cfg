SPECIFICATION Spec
CONSTANTS
    Thread = {t1, t2}
    AgentId = {"x", "y", "z"}
    SimpleAgent <- Versions
    SlugName = {"x", "z"}
    Slug <- Slugs
    Limit = 1
    CountLimit = 2
    StoreMayFail = TRUE
    MaxSeq = 4
SYMMETRY Threads
VIEW View
INVARIANTS
    CatalogAgrees
    WalkIsComplete
