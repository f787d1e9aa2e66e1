CONSTANTS
    main = main
    httpd = httpd
    other = other
    worker = worker
    m1 = m1
    m2 = m2
    Producers <- MCProducers
    Consumers <- MCConsumers
    Patient <- MCPatient
    Msg <- MCMsg
    NoMsg = NoMsg
    NoThread = NoThread
    Capacity = 2

SPECIFICATION FairSpec

INVARIANTS
    TypeOK
    NothingLost

PROPERTIES
    TimedCallsReturn
    ImplementsFifo
