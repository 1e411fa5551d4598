SPECIFICATION FairSpec
CONSTANTS
    M = M
    N = N
    R = R
    MutexGroups = {M, N}
    UINT32_MAX = 100
    UINT16_MOD = 65536
    UINT8_MOD = 256
    MaxCalls = 2
    Inputs <- AllInputs
INVARIANTS
    MutexCallbacksShareTheirThread
    PrioritiesFollowDeadlines
    ThreadCountsBalance
    RootsHaveTiming
    OverflowNeedsMutexFeedback
    WellFormedChainsAreAllocated
    ExportIsClosed
PROPERTIES
    AllocationEnds
