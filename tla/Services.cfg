SPECIFICATION Spec
CONSTANTS
    a1 = a1
    a2 = a2
    c1 = c1
    c2 = c2
    p1 = p1
    p2 = p2
    v1 = v1
    v2 = v2
    Attempts <- MCAttempts
    Half = 3
    Estimates <- MCEstimates
    Prices <- MCPrices
    Rejections <- MCRejections
    Grace = 1
    Window = 2
    Timeout = 1
    SubmissionTime = 3
    Callers <- MCCallers
    MaxPools = 3
    PageSize = 2
    MaxPages = 2
    TTL = 1
    HttpTimeout = 1
    DiscoveryTime = 3
    Processes <- MCProcesses
    MaxGenerated = 3
    Visitors <- MCVisitors
    Limit = 1
    WindowSecs = 1
    Second = 4
    IssuanceTime = 10
    MaxRequests = 4
    MaxEvents = 3
    MaxRetries = 3
SYMMETRY Interchangeable
INVARIANT SubmittedIsCovered
INVARIANT BundlerSeesTheEstimate
INVARIANT AttemptRunsOnce
INVARIANT ReportsAreOwn
INVARIANT InitCodeFitsTheNonce
INVARIANT ListingsAreComplete
INVARIANT IssuanceKeepsItsWindow
INVARIANT EventsAreAccounted
PROPERTY EffectsEndWithTheWindow
PROPERTY KnownPoolsAreKept
PROPERTY KeyIsWrittenOnce
CHECK_DEADLOCK FALSE
