SPECIFICATION Spec
SYMMETRY ConsumerSymmetry
CONSTANTS
    Consumers = {c1, c2}
    BLOCK_SIZE = 2
    IMPLICIT_INITIAL_INDEX_SIZE = 2
    IndexMod = 32
    PoolSize = 2
    Disciplines = {TRUE, FALSE}
    MaxBlocks = 3
    MaxHeaders = 2
    MaxBatch = 3
    MaxInFlight = 5
    MaxIndex <- MC_MaxIndex
    MaxOvercommit = 2
INVARIANTS
    BlocksInUseStay
    NothingLeaks
PROPERTIES
    FailuresHaveStaleTails
    ImplementsFifo
