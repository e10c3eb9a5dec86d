SPECIFICATION Spec
CONSTANTS
    Source = {"c1", "c2", "c3"}
    Entries <- Converters
    HasHook = {"c1", "c2"}
    Profile <- ProfileOf
    Attested = {"c1", "c2"}
    HasTrust = TRUE
    ProfileId = {"p", "q"}
    Task = {t1, t2, t3}
SYMMETRY Symmetry
INVARIANTS
    StrictSweepListsVerified
