SPECIFICATION Spec
CONSTANTS
    Handler = {h1, h2}
    Signer = {s1}
    Subject = {"s1"}
    Store = {"d1", "d2"}
    Nonce = {1}
    Field = {"url", "note"}
    Body <- Requests
SYMMETRY Symmetry
INVARIANTS
    NonceLoggedOnce
    VersionsAccounted
    RecordIsReplayOfLog
    RefusedStaysRefused
    AnsweredTreeHoldsWrite
    CurrentTreeIsExact
