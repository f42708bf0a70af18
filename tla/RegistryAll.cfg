SPECIFICATION FairSpec
CONSTANTS
    c1 = c1
    c2 = c2
    t1 = t1
    t2 = t2
    x1 = x1
    x2 = x2
    p1 = p1
    p2 = p2
    NoCustomer = NoCustomer
    NoTask = NoTask
    NoCommand = NoCommand
    Conns = {c1}
    Tasks = {t1, t2}
    Customers = {x1, x2}
    Topics = {p1, p2}
    OnOpenApi = TRUE
    Replies <- AllReplies
    Commands <- AllCommands
CHECK_DEADLOCK FALSE
INVARIANTS
    RegistryInv
    IndexComplete
    IndexSound
    NoLateCommand
    NoResidue
PROPERTIES
    ClosedIsCleaned
