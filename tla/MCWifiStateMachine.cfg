CONSTANT
    QueueLen = 3

SPECIFICATION FairSpec

INVARIANTS
    TypeOK
    ManagerInStep
    ConnectedIsTrue

PROPERTY
    TransitEnds
