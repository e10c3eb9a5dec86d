SPECIFICATION MCSpec
CONSTANTS
    Entry = {e1, e2}
    MinProofSize = 3
    MaxSize = 7
    MaxCheckpoints = 2
    MaxAudited = 3
SYMMETRY Symmetry
CHECK_DEADLOCK FALSE
INVARIANTS
    ReportIsTrue
    GrowthIsNotTampering
    InclusionExact
    ConsistencyHolds
