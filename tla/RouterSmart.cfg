SPECIFICATION FairSpec
CONSTANTS
    p1 = p1
    p2 = p2
    p3 = p3
    Providers = {p1, p2, p3}
    Callers = {c1, c2}
    NoProvider = NoProvider
    NoCaller = NoCaller
    Strategy = "smart"
    Registered <- MCRegistered3
    Priority <- MCPriority
    Paid = {p3}
    AllowPaid = FALSE
    CBThreshold <- MCOne
    CBTimeout <- MCZero
    RateLimit <- MCOne
    RateWindow <- MCZero
    CostPerCall <- MCCost
    Weights <- MCWeights
    Latencies = {3}
    OutlierLimit = 1
    MaxResponses = 0
PROPERTIES
    SelectTerminates
    OpenIsProbed
    HonoursContract
