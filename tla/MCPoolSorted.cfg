CONSTANTS
    p1 = p1
    p2 = p2
    Main = Main
    NoThread = NoThread
    NoValue = NoValue
    NumberOfThreads = 2
    Producers = {p1, p2}
    Capacity = 2
    Values = {10, 11, 12, 15, 20}
    Key <- MCKey
    Script <- SortedScript
    Spawn <- SortedSpawn
    Builds = {"pthread", "winapi", "work_items"}
    Faults = {}
    MaxSpurious = 1
SPECIFICATION FairSpec
INVARIANTS TypeOK WorkForEveryValue NoLostWakeup FreedWhenUnused JoinTellsTheTruth
PROPERTIES ImplementsTaskPool Termination
CHECK_DEADLOCK FALSE
