SPECIFICATION Spec
CONSTANTS
    r1 = r1
    r2 = r2
    Requests = {r1, r2}
    NumWorkers = 2
    MaxAttempts = 2
    MaxFaults = 0
    MaxCrashes = 1
    MaxPanics = 0
    Corrupt = Corrupt
    NoJob = NoJob
    EchoesRevert = TRUE
    Backlog <- OldBacklog
INVARIANT AttemptsWithinLimit
INVARIANT FailureIsDeadLettered
\* Workers wait for a job for ever once every request is handled.
CHECK_DEADLOCK FALSE
