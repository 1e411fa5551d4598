SPECIFICATION FairSpec
CONSTANTS
    Nodes = {n}
    Groups = {gr, gl}
    Callbacks = {rt, late}
    FirstGroups = {gr}
    FirstCallbacks = {rt}
    n = n
    gr = gr
    gl = gl
    rt = rt
    late = late
    Timers = {late}
    NodeOf <- MC_NodeOf
    GroupOf <- MC_GroupOf
    CallbackName <- MC_CallbackName
    Unnamed = Unnamed
    ThreadGroupOf <- MC_ThreadGroupOf
    OtherGroups = {gl}
    Spinners = {s1, s2}
    MaxSpins = 2
INVARIANTS
    NoGroupIsServedTwice
    NoGroupIsLost
    ListedCallbacksHaveWorkers
    OnlyLatecomersAreDropped
    WorkersAreStoppedBeforeDestruction
PROPERTIES
    SpinReturns
    DestructorReturns
