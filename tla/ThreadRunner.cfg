\* Two jobs; one start() may fail at its first thread.
CONSTANTS
    NumberOfJobs = 2
    MaxLeaks = 1
SPECIFICATION Spec
INVARIANT FailedStartRunsNoJob
CHECK_DEADLOCK FALSE
