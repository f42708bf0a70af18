SPECIFICATION Spec
CONSTANTS
    c1 = c1
    c2 = c2
    f1 = f1
    f2 = f2
    p = p
    x = x
    t1 = t1
    t2 = t2
    big = big
    bye = bye
    NoMsg = NoMsg
    NoConn = NoConn
    NoFrame = NoFrame
    All = All
    Conns = {c1, c2}
    Deflate = {c1}
    LoggedIn = {c1}
    Topics = {p}
    Customers = {x}
    Members <- Subscribers
    Tasks = {t1, t2}
    Frames = {f1, f2}
    Messages = {big, bye}
    Big = {big}
    Requests <- SomeRequests
    MaxCommands = 2
    MaxFails = 1
SYMMETRY Symmetry
CHECK_DEADLOCK FALSE
INVARIANTS
    Intact
    CastInOrder
    Reached
    LateFrames
    Farewell
    OfflineIsFinal
