SPECIFICATION FairSpec
CONSTANTS
    s1 = s1
    NoMessage = NoMessage
    Senders = {s1}
    DequeueSize = 1
    MaxBatches = 4
CHECK_DEADLOCK FALSE
PROPERTIES
    SendersGoOn
