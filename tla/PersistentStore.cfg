SPECIFICATION MCSpec
CONSTANTS
    Agent = {"a"}
    SlugName = {"x"}
    Facts <- OneAgent
    Writer = {w1, w2}
    NoDelta = NoDelta
    MaxSeq = 3
    MaxRestarts = 2
SYMMETRY Symmetry
INVARIANTS
    RowsAreKeyed
    SkipsOnlyLateOrReused
PROPERTIES
    PollServesAnswered
