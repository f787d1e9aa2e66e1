CONSTANTS
    f1 = f1
    Fds <- OneFd
    NoFd = NoFd
    QueueLen = 2
    MaxReplies = 2
    MaxMsgs = 4
    Envs <- Late

SPECIFICATION FairSpec

PROPERTY
    EventsAreSent

CHECK_DEADLOCK FALSE
