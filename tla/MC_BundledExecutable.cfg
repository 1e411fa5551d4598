SPECIFICATION Spec
CONSTANTS
    Subscriptions = {s1, s2}
    Timers = {t1}
    Serialized = {s2}
    Loaning = {s1}
    ThreadGroups = {pool, mutex}
    Listings = {{s1, s2, t1}, {s2}}
    TgidOf <- MC_TgidOf
    Workers = {w1, w2, w3}
    WorksFor <- MC_WorksFor
    Nothing = Nothing
    Blank = Blank
    Garbage = Garbage
    MaxArrivals <- MC_MaxArrivals
    MaxFaults = 1
    s1 = s1
    s2 = s2
    t1 = t1
    pool = pool
    mutex = mutex
    w1 = w1
    w2 = w2
    w3 = w3
INVARIANTS
    TakenIsRunOnce
    NoMessageAfterFailedTake
    OnlyDroppedLoansStay
    SingleWorkersKeepOrder
PROPERTIES
    EveryMessageIsHandled
CHECK_DEADLOCK FALSE
