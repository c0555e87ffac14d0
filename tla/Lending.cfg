SPECIFICATION Spec
CONSTANTS
    h1 = h1
    h2 = h2
    Handlers <- MCHandlers
    MaxMoves = 1
    MaxRuns = 2
    AaveRequests <- MCAaveRequests
    CompoundRequests <- MCCompoundRequests
    MorphoRequests <- MCMorphoRequests
    AaveChains <- MCAaveChains
    CompoundChains <- MCCompoundChains
    MorphoChains <- MCMorphoChains
SYMMETRY SwapHandlers
INVARIANT TypeOK
INVARIANT CompiledAsAsked
INVARIANT AnswersCanBeActedOn
PROPERTY GuardedActionsKeepHealth
PROPERTY MaxLeavesNothing
PROPERTY AllowancesAreUsedUp
CHECK_DEADLOCK FALSE
