CONSTANTS
    w1 = w1
    w2 = w2
    w3 = w3
    Main = Main
    NoThread = NoThread
    Threads = {w1, w2, w3, Main}
    Builds = {"pthread", "winapi"}
    Scripts <- MCScripts
    SemaphoreMax = 5
    MaxSpurious = 1
    MaxFailures = 2
    Faults = {"allocate", "init", "close", "lock", "unlock", "rdlock", "wrlock", "rwlock_unlock",
              "reset_event", "set_event", "wait_event", "grab", "release", "rejoin", "wait", "signal",
              "semaphore", "event", "create", "memory", "join"}
SPECIFICATION FairSpec
INVARIANTS TypeOK ReadersExcludeWriters EventMeansNoReaders HandshakeInv MutexExcludes NoLostUpdate NothingIsLeftOpen JoinReportsTheThread
PROPERTIES ImplementsSharedLock WriterIsNext BroadcastReachesAll Termination
CHECK_DEADLOCK FALSE
