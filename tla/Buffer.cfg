SPECIFICATION FairSpec
CONSTANTS
    Prices = {v1, v2, v3}
    Savers = {s1, s2}
    Ticker = ticker
    Closer = closer
    MaxSize = 2
    WritesMayFail = TRUE
INVARIANTS
    Conserved
    StopLeavesNothing
PROPERTIES
    BufferDrains
\* Everything is saved and the store closed.
CHECK_DEADLOCK FALSE
