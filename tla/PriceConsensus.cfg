SPECIFICATION FairSpec
CONSTANTS
    p1 = p1
    p2 = p2
    p3 = p3
    Providers = {p1, p2, p3}
    Requests = {r1}
    Strategy = "any"
    Priority <- MCPriority
    CBThreshold = 1
    CBTimeout = 0
    RateLimit = 1
    RateWindow = 0
    CacheTTL = 0
    MaxRetries = 2
    Validation = TRUE
    ResponseMode = "consensus"
    ConsensusMax = 4
    MinProviders = 2
    MaxDeviation = 10
    Responses <- ThreeApart
    Buffered = FALSE
    StorageMayFail = TRUE
    MaxStream = 0
INVARIANTS
    NeverNilNil
PROPERTIES
    TrustsNobody
    RequestsEnd
