SPECIFICATION FairSpec
CONSTANTS
    p1 = p1
    p2 = p2
    NoItem = NoItem
    Producers = {p1, p2}
    Cap = 2
    Limit = 2
    MaxSends = 2
    Tries <- OneTries
CHECK_DEADLOCK FALSE
INVARIANTS
    NoDataRace
PROPERTIES
    ImplementsFIFO
    ClaimedIsRead
    CloseEnds
