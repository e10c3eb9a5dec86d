SPECIFICATION MCSpec
CONSTANTS
    Agent = {"a", "b", "c"}
    SlugName = {"x", "z"}
    Facts <- StableFacts
    MaxSeq = 4
INVARIANTS
    IndexIsNewest
    SnapshotListsSame
    SnapshotIsReplay
PROPERTIES
    ImplementsCatalog
