\* Every component with the fewest threads and things that let its cases
\* meet.
CONSTANTS
    t1 = t1
    t2 = t2
    t3 = t3
    k1 = k1
    k2 = k2
    k3 = k3
    x1 = x1
    x2 = x2
    MaxInserts = 3
    UseMax = 1
    Policies = {"loop", "bad_switch", "rand", "precise"}
    RERESOLVE = FALSE
    MaxResolves = 2
    MaxCount = 2
    NRecords = 3
    Times = {4, 5, 6, 7}
    SameTimes = FALSE
    RotationSize = 1
    RotationTime = 2
    Day = 4
    StartTime = 1
    MaxFailures = 1
    MaxRemovals = 1
    MaxFile = 4
    MaxBuffer = 6
    Overloads = {"string", "view"}
    number_async_client = 3
    MaxClients = 6
SYMMETRY Alike
SPECIFICATION Spec
INVARIANTS ResourcesAccounted NobodyForgotten ConsistentChildren LogKept TerminatedLinesExact BlocksInOrder DataKept
PROPERTY MapStepsRight
CHECK_DEADLOCK FALSE
