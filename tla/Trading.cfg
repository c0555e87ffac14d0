SPECIFICATION Spec
CONSTANTS
    h1 = h1
    h2 = h2
    Handlers <- MCHandlers
    MaxMoves = 1
    MaxRuns = 2
    UniswapRequests <- MCUniswapRequests
    BalancerRequests <- MCBalancerRequests
    GmxRequests <- MCGmxRequests
    UniswapChains <- MCUniswapChains
    BalancerChains <- MCBalancerChains
    GmxChains <- MCGmxChains
SYMMETRY SwapHandlers
INVARIANT SlippageIsTheTolerance
INVARIANT BestPoolIsChosen
INVARIANT AcceptedBatchesRun
INVARIANT FundsReachOnlyTheNamed
PROPERTY ExecutionsKeepTheirTerms
PROPERTY NothingIsLeftBehind
CHECK_DEADLOCK FALSE
