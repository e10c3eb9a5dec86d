SPECIFICATION Spec
CONSTANTS
    Token <- Tokens
    Lower <- LowerCase
    Home <- Us
    Peer <- Peers
    SimpleAgent <- Shapes
    Asked <- Identifiers
    RegistryName = {"n1"}
    TrustEnabled = TRUE
    ProfileId = {"p"}
    Request = {"r1"}
INVARIANTS
    AnswerWasTrue
    NamesReduce
    OthersAreRefused
    ProvenanceIsTrue
PROPERTIES
    OnceDelegatedAlways
