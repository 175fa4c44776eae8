SPECIFICATION ServerFairSpec
CONSTANTS
    Keys = {k1}
    Pollers = {g1, g2}
    NoPoller = NoPoller
    QueueSize = 2
    Handlers = {h1}
    Configs <- MCConfigs
    Intervals <- MCIntervals
INVARIANTS
    LiveIsRegistered
    ClientsCannotPanic
    HandlersHaveStorage
    StopIsFinal
    OpenedAreClosed
PROPERTIES
    ShutdownCompletes
    StreamDrains
    CancelledExits
\* The process ends.
CHECK_DEADLOCK FALSE
