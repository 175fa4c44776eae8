SPECIFICATION Spec
CONSTANTS
    p1 = p1
    p2 = p2
    p3 = p3
    Providers = {p1, p2}
    Requests = {r1, r2}
    Strategy = "any"
    Priority <- MCPriority
    CBThreshold = 1
    CBTimeout = 0
    RateLimit = 2
    RateWindow = 0
    CacheTTL = 0
    MaxRetries = 1
    Validation = TRUE
    ResponseMode = "single"
    ConsensusMax = 3
    MinProviders = 2
    MaxDeviation = 10
    Responses <- GoodOrZero
    Buffered = TRUE
    StorageMayFail = TRUE
    MaxStream = 1
SYMMETRY RequestSymmetry
INVARIANTS
    OnlyValidated
    NothingAheadOfStore
PROPERTIES
    FallbackSeesServed
