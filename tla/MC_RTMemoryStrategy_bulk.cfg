SPECIFICATION FairSpec
CONSTANTS
    M = M
    R = R
    NodeM = NodeM
    NodeR = NodeR
    sub1 = sub1
    sub2 = sub2
    timer = timer
    service = service
    waitable = waitable
    Interrupt = Interrupt
    NULL = NULL
    EntitySeq <- BulkSeq
    KindOf <- BulkKind
    GroupOf <- BulkGroup
    NodeOf <- Nodes
    EntriesOf <- WaitableNeeds
    MutexGroups = {M}
    Fragile = {sub1, M}
    Threads = {1}
    Usages = {"bulk"}
INVARIANTS
    WaitSetMatchesHandles
    TakesWhatWasReported
PROPERTIES
    EveryArrivalIsTaken
