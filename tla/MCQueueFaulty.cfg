CONSTANTS
    p1 = p1
    p2 = p2
    c1 = c1
    c2 = c2
    NoThread = NoThread
    NoValue = NoValue
    Threads = {p1, c1, c2}
    Capacity = 2
    Values = {10, 11, 20}
    Key <- MCKey
    MayCall <- FaultyCalls
    Faults = {"grab", "wait", "broadcast", "release", "compare", "value_free"}
SPECIFICATION Spec
INVARIANTS TypeOK RingInv ThreadInv
PROPERTIES ImplementsBoundedQueue
CHECK_DEADLOCK FALSE
