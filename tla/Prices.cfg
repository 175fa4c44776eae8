SPECIFICATION SavedSpec
CONSTANTS
    Samples <- MCSamples
    MaxPrices = 5
    Deviation = 10
    Windows <- MCWindows
    Intervals <- MCIntervals
    Amounts <- MCAmounts
    Unit = 1000
INVARIANTS
    MedianSplits
    StoresAgree
    ConvertAccurate
\* All prices are in.
CHECK_DEADLOCK FALSE
