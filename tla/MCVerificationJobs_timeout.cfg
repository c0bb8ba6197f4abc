SPECIFICATION Spec
CONSTANTS
    Requests = {r1}
    Pollers = {p1}
    NoJob = NoJob
    JobTTL = 1
    HandlerTimeout = 1
    LastArrival = 0
    MaxTime = 3
    MaxCrashes = 0
    EnqueueMayFail = FALSE
CHECK_DEADLOCK FALSE
INVARIANTS SuccessClearsError
