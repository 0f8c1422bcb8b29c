CONSTANTS
    p1 = p1
    p2 = p2
    Main = Main
    NoThread = NoThread
    NoValue = NoValue
    NumberOfThreads = 2
    Producers = {p1, p2}
    Capacity = 2
    Values = {10, 11, 20}
    Key <- MCKey
    Script <- FaultyScript
    Spawn <- NoSpawn
    Builds = {"pthread", "winapi", "work_items"}
    Faults = {"grab", "wait", "broadcast", "release", "memory", "create", "compare", "submit", "join", "free"}
    MaxSpurious = 0
SPECIFICATION Spec
INVARIANTS JoinTellsTheTruth FreedWhenUnused
PROPERTIES ImplementsTaskPool
CHECK_DEADLOCK FALSE
