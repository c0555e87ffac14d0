SPECIFICATION Spec
CONSTANTS
    r1 = r1
    r2 = r2
    Requests = {r1}
    NumWorkers = 2
    MaxAttempts = 2
    MaxFaults = 1
    MaxCrashes = 1
    MaxPanics = 0
    Corrupt = Corrupt
    NoJob = NoJob
    EchoesRevert = FALSE
    Backlog <- NoBacklog
INVARIANT OutcomeIsOnChain
PROPERTY LastCopyLeavesDecided
\* Workers wait for a job for ever once every request is handled.
CHECK_DEADLOCK FALSE
