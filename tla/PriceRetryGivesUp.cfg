SPECIFICATION Spec
CONSTANTS
    p1 = p1
    p2 = p2
    p3 = p3
    Providers = {p1, p2}
    Requests = {r1}
    Strategy = "priority"
    Priority <- MCPriority
    CBThreshold = 2
    CBTimeout = 0
    RateLimit = 2
    RateWindow = 0
    CacheTTL = 0
    MaxRetries = 3
    Validation = TRUE
    ResponseMode = "single"
    ConsensusMax = 3
    MinProviders = 2
    MaxDeviation = 10
    Responses <- GoodOrZero
    Buffered = FALSE
    StorageMayFail = FALSE
    MaxStream = 0
PROPERTIES
    NoMoreAlternatives
