SPECIFICATION Spec
CONSTANTS
    number_of_threads = 1
    is_mutex_group = TRUE
    priority = 1
    MAX_FIFO_PRIO = 99
    MaxFailedAttempts = 0
    MaxBatch = 2
    MaxBundles = 7
INVARIANTS
    SoleWorkerNeverFails
    IdleGroupIsNotFlagged
