\* Few callers, so many operations, requests and connections that limits are
\* reached.
CONSTANTS
    t1 = t1
    t2 = t2
    t3 = t3
    Threads <- MCThreads
    InitCount <- MCInitCount
    MaxCount = 3
    p1 = p1
    p2 = p2
    n1 = n1
    n2 = n2
    n3 = n3
    Producers = {p1, p2}
    Nodes = {n1, n2, n3}
    QueueMax = 1
    o1 = o1
    o2 = o2
    o3 = o3
    o4 = o4
    SqSize = 2
    CqSize = 2
    NConnections = 3
    NThreads = 2
    CONNECTIONS_PER_SERVER = 1
    CONNECTIONS_PER_THREADS = 1
SPECIFICATION ServicesSpec
INVARIANTS NoLostWakeup CountsExact CallbackOnce
PROPERTIES ImplementsCounting FifoOrder CallsAnswered StopsReturn
CHECK_DEADLOCK FALSE
