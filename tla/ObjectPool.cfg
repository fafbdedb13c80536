\* A pool that resolves again, whose objects two threads may use at a time.
CONSTANTS
    Users = {u1, u2, u3}
    Size = 2
    UseMax = 2
    Policies = {"loop"}
    RERESOLVE = TRUE
    MaxResolves = 2
    MaxCount = 3
SPECIFICATION ObjectSpec
INVARIANT ReleaseFindsPlace
CHECK_DEADLOCK FALSE
