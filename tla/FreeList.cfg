SPECIFICATION Spec
CONSTANTS
    Threads = {t1, t2, t3}
    Getters = {t1, t2, t3}
    Nodes = {a, b}
    null = null
    MaxGets = 2
INVARIANTS
    EveryBlockIsInOnePlace
PROPERTIES
    ImplementsPool
CHECK_DEADLOCK FALSE
