SPECIFICATION FairSpec
CONSTANTS
    s1 = s1
    NoMessage = NoMessage
    Senders = {s1}
    DequeueSize = 2
    MaxBatches = 2
CHECK_DEADLOCK FALSE
INVARIANTS
    NoOrphanBlocks
    CountedOnce
PROPERTIES
    BatchEnds
    MonitorEnds
