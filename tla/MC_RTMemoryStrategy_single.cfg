SPECIFICATION Spec
CONSTANTS
    M = M
    R = R
    NodeM = NodeM
    NodeR = NodeR
    sub1 = sub1
    sub2 = sub2
    timer = timer
    service = service
    waitable = waitable
    Interrupt = Interrupt
    NULL = NULL
    EntitySeq <- SingleSeq
    KindOf <- SingleKind
    GroupOf <- SingleGroup
    NodeOf <- Nodes
    EntriesOf <- WaitableNeeds
    MutexGroups = {M}
    Fragile = {sub1, NodeR}
    Threads = {1, 2}
    Usages = {"single"}
INVARIANTS
    ExclusiveGroupsRunAlone
