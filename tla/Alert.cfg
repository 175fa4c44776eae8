SPECIFICATION FairSpec
CONSTANTS
    high = high
    low = low
    u1 = u1
    u2 = u2
    u3 = u3
    Alerts = {high, low}
    Updates = {u1, u2, u3}
    NoAlert = NoAlert
    AlertOf <- MCAlertOf
    PriceOf <- MCPriceOf
    MaxAttempts = 2
INVARIANTS
    FiresOnce
    TriggeredHasOwner
PROPERTIES
    MetAlertSettles
\* The process ends.
CHECK_DEADLOCK FALSE
