CONSTANTS
    p1 = p1
    p2 = p2
    Main = Main
    NoThread = NoThread
    NoValue = NoValue
    NumberOfThreads = 2
    Producers = {p1}
    Capacity = 2
    Values = {10, 15, 20}
    Key <- MCKey
    Script <- SpawnScript
    Spawn <- SpawnOnce
    Builds = {"pthread"}
    Faults = {"memory"}
    MaxSpurious = 1
SPECIFICATION FairSpec
PROPERTIES JoinReturns
CHECK_DEADLOCK FALSE
