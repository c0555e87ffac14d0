SPECIFICATION FairSpec
CONSTANTS
    r1 = r1
    r2 = r2
    Requests = {r1}
    NumWorkers = 2
    MaxAttempts = 2
    MaxFaults = 0
    MaxCrashes = 2
    MaxPanics = 1
    Corrupt = Corrupt
    NoJob = NoJob
    EchoesRevert = FALSE
    Backlog <- NoBacklog
INVARIANT SingleCopy
INVARIANT DisturbancesCostOneRun
INVARIANT EffectsBounded
PROPERTY ImplementsDelivery
PROPERTY EveryJobLeavesItsLists
\* Workers wait for a job for ever once every request is handled.
CHECK_DEADLOCK FALSE
