SPECIFICATION Spec
CONSTANTS
    t1 = t1
    t2 = t2
    x = x
    y = y
    IPs = {ip1, ip2}
    Requests = {r1, r2, r3}
    Lookups = {r1, r2}
    Burst = 2
    Rate = 1
    Idle = 1
    Chains = {"ethereum", "other"}
    Tokens = {t1, t2}
    Coins = {x, y}
    AllowedChains = {"ethereum"}
    TokenProviders = 1
    Catalogs <- MCCatalogs
    MaxLoads = 2
    NoCoin = NoCoin
SYMMETRY LookupSymmetry
INVARIANTS
    CatalogWins
    GrowthBounded
PROPERTIES
    KeepsPromise
\* All requests have been answered.
CHECK_DEADLOCK FALSE
