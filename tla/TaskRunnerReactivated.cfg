\* One thread, one task; the runner is activated again after wait_object().
CONSTANTS
    p1 = p1
    p2 = p2
    t1 = t1
    Producers = {p1}
    TimedProducers = {}
    Tasks = {t1}
    NumberOfThreads = 1
    start_threads = 1
    MaxPending = 1
    Reactivation = TRUE
    ClearWhileWaiting = FALSE
SPECIFICATION Spec
PROPERTY AssertUnusedPositive
CHECK_DEADLOCK FALSE
