CONSTANTS
    p1 = p1
    p2 = p2
    c1 = c1
    c2 = c2
    NoThread = NoThread
    NoValue = NoValue
    Threads = {p1, p2, c1}
    Capacity = 3
    Values = {10, 11, 20}
    Key <- MCKey
    MayCall <- SortedCalls
    Faults = {}
SPECIFICATION Spec
INVARIANTS SortedContents
PROPERTIES ImplementsBoundedQueue
CHECK_DEADLOCK FALSE
