\* Two producers, one of them with a timeout, and a queue of two places: it
\* fills up, and the second thread is started when the first is at work.
CONSTANTS
    p1 = p1
    p2 = p2
    t1 = t1
    Producers = {p1, p2}
    TimedProducers = {p1}
    Tasks = {t1}
    NumberOfThreads = 2
    start_threads = 0
    MaxPending = 2
    Reactivation = FALSE
    ClearWhileWaiting = FALSE
SPECIFICATION FairSpec
INVARIANTS UnusedCoversIdle NoTaskWithoutWakeup NoProducerForgotten GrowersExcluded
PROPERTIES WaitReturns WorkProceeds
CHECK_DEADLOCK FALSE
