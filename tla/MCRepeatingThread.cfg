CONSTANTS
    p1 = p1
    p2 = p2
    Main = Main
    Worker = Worker
    NoThread = NoThread
    Producers = {p1, p2}
    Pushes <- TwoAndOne
    MaxNested = 1
    MaxSpurious = 1
    IntMax = 2
    Builds = {"pthread", "winapi"}
    Faults = {"create", "grab", "signal", "wait", "release", "worker_release", "join", "free"}
SPECIFICATION FairSpec
INVARIANTS TypeOK TasksConserved NoLostWakeup JoinTellsTheTruth FreedWhenUnused
PROPERTIES JoinReturns PushedTasksRun
CHECK_DEADLOCK FALSE
