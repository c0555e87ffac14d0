SPECIFICATION Spec
CONSTANTS
    r1 = r1
    r2 = r2
    Requests = {r1}
    NumWorkers = 1
    MaxAttempts = 2
    MaxFaults = 0
    MaxCrashes = 0
    MaxPanics = 0
    Corrupt = Corrupt
    NoJob = NoJob
    EchoesRevert = FALSE
    Backlog <- NoBacklog
INVARIANT FailedHasNoEffect
\* Workers wait for a job for ever once every request is handled.
CHECK_DEADLOCK FALSE
