CONSTANTS
    p1 = p1
    p2 = p2
    c1 = c1
    c2 = c2
    e1 = e1
    NoThread = NoThread
    NoValue = NoValue
    Threads = {p1, p2, c1, c2, e1}
    Capacity = 2
    Values = {10, 11, 20, 21}
    Key <- MCKey
    MayCall <- MCMayCall
    Script <- LeftoverScript
    MaxSpurious = 1
    Faults = {}
SPECIFICATION FairSpec
INVARIANTS NoLostWakeup FreeLeavesNoValue
PROPERTIES Termination
CHECK_DEADLOCK FALSE
