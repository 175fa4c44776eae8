SPECIFICATION Spec
CONSTANTS
    p1 = p1
    p2 = p2
    p3 = p3
    Providers = {p1, p2}
    Callers = {c1, c2}
    NoProvider = NoProvider
    NoCaller = NoCaller
    Strategy = "round_robin"
    Registered <- MCRegistered2
    Priority <- MCPriority
    Paid = {}
    AllowPaid = FALSE
    CBThreshold <- MCThreshold
    CBTimeout <- MCZero
    RateLimit <- MCLimit
    RateWindow <- MCZero
    CostPerCall <- MCCost
    Weights <- MCWeights
    Latencies = {1}
    OutlierLimit = 1
    MaxResponses = 1
SYMMETRY CallerSymmetry
INVARIANTS
    RoundRobinRotates
    GrantsWithinLimit
    BreakerSound
