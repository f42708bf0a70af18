SPECIFICATION FairSpec
CONSTANTS
    None = None
    Frames <- AllFrames
    MaxFrames = 3
CHECK_DEADLOCK FALSE
INVARIANTS
    AcceptsOnlyLegal
    RejectsOnlyIllegal
    Reassembled
PROPERTIES
    ClosedIsGone
