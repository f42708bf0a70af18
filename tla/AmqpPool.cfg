SPECIFICATION FairSpec
CONSTANTS
    c1 = c1
    c2 = c2
    k1 = k1
    k2 = k2
    Ticker = Ticker
    NoSocket = NoSocket
    Sockets = {c1, c2}
    Clients = {k1, k2}
    PoolSize = 2
CHECK_DEADLOCK FALSE
INVARIANTS
    CapacityConserved
    NeverBlocks
    OneOwner
PROPERTIES
    DeadLeaves
