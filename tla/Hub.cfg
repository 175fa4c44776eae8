SPECIFICATION FairSpec
CONSTANTS
    Clients = {c1, c2}
    Coins = {btc}
    QueueSize = 2
    SendSize = 1
    NoUpdate = NoUpdate
    MaxUpdates = 3
INVARIANTS
    NoSendOnClosed
    InOrder
PROPERTIES
    QueueDrains
