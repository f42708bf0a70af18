SPECIFICATION Spec
CONSTANTS
    s1 = s1
    s2 = s2
    k1 = k1
    k2 = k2
    k3 = k3
    NoMessage = NoMessage
    Senders = {s1, s2}
    Packets = {k1, k2, k3}
    Cap = 2
    DequeueSize = 2
    PackLimit = 10
    Size <- Sizes
    MaxSends = 3
    MaxRetries = 1
SYMMETRY Symmetry
CHECK_DEADLOCK FALSE
INVARIANTS
    OneOwner
    CountedOnce
    ConsumedInOrder
