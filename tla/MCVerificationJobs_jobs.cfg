SPECIFICATION FairSpec
CONSTANTS
    Requests = {r1, r2}
    Pollers = {p1}
    NoJob = NoJob
    JobTTL = 1
    HandlerTimeout = 1
    LastArrival = 1
    MaxTime = 4
    MaxCrashes = 1
    EnqueueMayFail = TRUE
INVARIANTS TypeOK OneInFlight
PROPERTIES ImplementsSlot HandedJobResolves AlarmedJobRuns
CHECK_DEADLOCK FALSE
