SPECIFICATION Spec
CONSTANTS
    Requests = {r1, r2, r3}
    Pollers = {p1}
    NoJob = NoJob
    JobTTL = 2
    HandlerTimeout = 2
    LastArrival = 0
    MaxTime = 1
    MaxCrashes = 0
    EnqueueMayFail = FALSE
SYMMETRY Symmetry
CHECK_DEADLOCK FALSE
INVARIANTS HandedIdIsKnown
