SPECIFICATION Spec
CONSTANTS
    c1 = c1
    c2 = c2
    c3 = c3
    Conns = {c1, c2, c3}
    NumLoops = 2
    LoopOf <- Loop
    Plans <- AllPlans
    MaxOnline = 1
    Interval = 3
    Size = 1
    WindowMax = 1
    ZeroMax = 1
    Burst <- Limits
    Width = 32
    Late = 1
    Pause = 1
    Epoch = 3
    MaxMessages = 4
CHECK_DEADLOCK FALSE
INVARIANTS
    OnlineBound
    WithinLimit
    RefusedFairly
    ActiveIsKept
    SilentIsClosed
