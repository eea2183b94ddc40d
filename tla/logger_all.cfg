SPECIFICATION FairSpec
CONSTANTS
    l1 = l1  l2 = l2
    NULL = NULL
    Loggers <- TwoLoggers
    Requests <- AllRequests
INVARIANTS
    TypeOK
    OneLiveLogger
    FileLoggerNotFreed
    LogStreamOwned
    ThreadResourcesLive

    
CHECK_DEADLOCK FALSE
