SPECIFICATION FairSpec
CONSTANTS
    number_of_threads = 2
    is_mutex_group = FALSE
    priority = 1
    MAX_FIFO_PRIO = 99
    MaxFailedAttempts = 0
    MaxBatch = 2
    MaxBundles = 4
INVARIANTS
    PermitConservation
    ClaimersHaveWork
    PendingIsExact
    OvertakenAtEveryFailure
PROPERTIES
    EveryBundleStarts
    DestructionCompletes
