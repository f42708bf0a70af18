SPECIFICATION FairSpec
CONSTANTS
    w1 = w1
    s1 = s1
    k1 = k1
    k2 = k2
    k3 = k3
    NoWorker = NoWorker
    Workers = {w1}
    Senders = {s1}
    Events = {"OnMessage"}
    Packets = {k1, k2, k3}
    Cap = 2
    DequeueSize = 2
    MaxRequests = 2
    MaxForwards = 2
CHECK_DEADLOCK FALSE
INVARIANTS
    OneOwner
    GreetedFirst
    GoneIsUnlisted
PROPERTIES
    CloseEnds
