CONSTANTS
    f1 = f1
    Fds <- OneFd
    NoFd = NoFd
    QueueLen = 2
    MaxReplies = 2
    MaxMsgs = 4
    Envs <- CalmAndRough

SPECIFICATION FairSpec

INVARIANTS
    TypeOK
    OneCallAtATime
    DeliveredInOrder
    CalmKeepsEveryTurn

PROPERTIES
    LagNeverShrinks
    CalmDelivers
    MainStallsOnlyInConsole
    StopCompletes
CHECK_DEADLOCK FALSE
