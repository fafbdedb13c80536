CONSTANTS
    c1 = c1
    c2 = c2
    c3 = c3
    g1 = g1
    t1 = t1
    t2 = t2
    PeriodicTasks = {t1, t2}
    Schedulers = {s1, s2}
    Goals = {g1, g2}
    Producers = {p1, p2}
    PoolTasks = {t1, t2, t3}
    Clients = {c1, c2, c3}
    Names = {n1, n2}
    AddWhileActive = FALSE
    ClearWhileActive = FALSE
    MaxTime = 2
    MaxMessages = 2
    threads_number = 2
    PositionRange = 4
    Nested = FALSE
    UpdateMayFail = TRUE
SPECIFICATION FairSpec
INVARIANTS SleepersWillWake NeverEarly
PROPERTIES ContentStable ThreadsStop RequestsServed
