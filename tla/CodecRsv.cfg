SPECIFICATION Spec
CONSTANTS
    None = None
    Frames <- PlainFrames
    MaxFrames = 3
CHECK_DEADLOCK FALSE
INVARIANTS
    InterruptionIsHarmless
