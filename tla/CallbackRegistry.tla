--------------------------- MODULE CallbackRegistry ---------------------------
(***************************************************************************)
(* CallbackRegistry: turns the user's chains of callbacks into thread      *)
(* groups with a priority and a number of threads.  One action is one      *)
(* chain, one call of a traversal, or one pass of                          *)
(* callback_threadgroup_allocation.  The order in which an unordered map   *)
(* or set is iterated is left open.                                        *)
(*                                                                         *)
(* The recursion of the two traversals is a stack of pending calls: a call *)
(* takes itself off and puts the calls it makes in its place.              *)
(***************************************************************************)
EXTENDS Integers, Sequences, FiniteSets

CONSTANTS
    Inputs,          \* what the registry may be built from (see Init)
    MutexGroups,     \* callback groups of type MutuallyExclusive
    UINT32_MAX,      \* the deadline of a callback without a deadline
    UINT16_MOD,      \* 2^16: num_threads wraps around here
    UINT8_MOD,       \* 2^8: in-degrees wrap around here
    MaxCalls         \* bound: calls of callback_threadgroup_allocation

FSE == INSTANCE FiniteSetsExt
SE  == INSTANCE SequencesExt
FN  == INSTANCE Functions

ASSUME BoundsAssumption ==
    /\ UINT32_MAX \in Nat
    /\ UINT16_MOD \in Nat \ {0}
    /\ UINT8_MOD \in Nat \ {0}
    /\ MaxCalls \in Nat

\* A userChain has at least one callback (ChainYamlParser::parse).
ASSUME InputsAssumption ==
    \A i \in Inputs :
        /\ DOMAIN i.group = DOMAIN i.name
        /\ \A c \in DOMAIN i.chains :
             /\ i.chains[c].callbacks \in
                  Seq({i.chains[c].callbacks[k] :
                         k \in DOMAIN i.chains[c].callbacks})
             /\ Len(i.chains[c].callbacks) >= 1
             /\ i.chains[c].deadline \in Nat /\ i.chains[c].period \in Nat \ {0}

VARIABLES
    input,          \* user_chains, and name and group of each entity
    phase,          \* where the registry is
    calls,          \* calls of callback_threadgroup_allocation
    retried,        \* some call came after one that threw
    chainsLeft,     \* chains the constructor has not read
    adjacency_list,
    callback_map,
    rootsLeft,      \* keys the loop over a map has not reached
    stack,          \* pending calls of the recursive traversal
    mutex_threadgroup_map,
    threadgroup_callback_map,
    threadgroup_adjacency_list,
    deadline_map,   \* deadline_to_threadgroup_id_map
    next_threadgroup_id,
    timing_export

graphVars == <<adjacency_list, callback_map>>
groupVars == <<mutex_threadgroup_map, threadgroup_callback_map,
               threadgroup_adjacency_list, next_threadgroup_id>>
loopVars  == <<rootsLeft, stack, deadline_map>>
callVars  == <<calls, retried>>
vars == <<input, phase, callVars, chainsLeft, graphVars, groupVars, loopVars,
          timing_export>>

-----------------------------------------------------------------------------
(***************************************************************************)
(* Maps                                                                    *)
(***************************************************************************)

EmptyMap == [x \in {} |-> x]

\* m[k] = v
Put(m, k, v) == [x \in DOMAIN m \cup {k} |-> IF x = k THEN v ELSE m[x]]

\* m[k], which operator[] default-constructs when it is missing
Get(m, k, default) == IF k \in DOMAIN m THEN m[k] ELSE default

\* CallbackAdjacencyInfo_{}; of the deadlines only the set matters, and of
\* the periods only whether there is a first one.
NoAdjacency == [outgoing |-> {}, indegree |-> 0, deadlines |-> {},
                periods |-> << >>, min_deadline |-> UINT32_MAX]

\* ThreadGroupAdjacencyInfo_{}
NoEdges == [outgoing |-> {}, incoming |-> {}]

NoExport == [handles |-> EmptyMap, groups |-> EmptyMap]

Init ==
    /\ input \in Inputs
    /\ phase = "register"
    /\ calls = 0
    /\ retried = FALSE
    /\ chainsLeft = DOMAIN input.chains
    /\ adjacency_list = EmptyMap
    /\ callback_map = EmptyMap
    /\ rootsLeft = {}
    /\ stack = << >>
    /\ mutex_threadgroup_map = EmptyMap
    /\ threadgroup_callback_map = EmptyMap
    /\ threadgroup_adjacency_list = EmptyMap
    /\ deadline_map = EmptyMap
    /\ next_threadgroup_id = 1
    /\ timing_export = NoExport

-----------------------------------------------------------------------------
(***************************************************************************)
(* The constructor                                                         *)
(***************************************************************************)

Entities == DOMAIN input.name

\* register_callback_entity for every pre-registered entity; of several
\* entities with the same name, the one that comes first is kept.
RegisterEntities ==
    /\ phase = "register"
    /\ LET Names == {input.name[e] : e \in Entities}
       IN \E kept \in {f \in [Names -> Entities] :
                         \A n \in Names : input.name[f[n]] = n} :
            callback_map' = [n \in Names |->
                [entity |-> kept[n], group |-> input.group[kept[n]],
                 threadgroup_id |-> 0]]
    /\ phase' = "chains"
    /\ UNCHANGED <<input, callVars, chainsLeft, adjacency_list, groupVars,
                   loopVars, timing_export>>

\* The positions of callback cb in the sequence s.
Positions(s, cb) == {i \in DOMAIN s : s[i] = cb}

\* What a chain of two or more callbacks adds to the entry of cb.
WithChain(adj, chain, cb) ==
    LET s  == chain.callbacks
        at == Positions(s, cb)
    IN [outgoing     |-> adj.outgoing \cup {s[i + 1] : i \in at \ {Len(s)}},
        indegree     |-> (adj.indegree + Cardinality(at \ {1})) % UINT8_MOD,
        deadlines    |-> adj.deadlines \cup {chain.deadline},
        periods      |-> Append(adj.periods, chain.period),
        min_deadline |-> IF chain.deadline < adj.min_deadline
                           THEN chain.deadline ELSE adj.min_deadline]

\* Mutant: only the timing is reset.
ResetTimingOnly(adj) == [adj EXCEPT !.deadlines = {}, !.periods = << >>]

\* A chain of one callback resets the entry of that callback.
Reset(adj) == NoAdjacency

\* One chain of the user.
AddChain(c) ==
    /\ phase = "chains" /\ c \in chainsLeft
    /\ LET chain    == input.chains[c]
           s        == chain.callbacks
           Used     == {s[i] : i \in DOMAIN s}
           entry(x) == Get(adjacency_list, x, NoAdjacency)
       IN adjacency_list' =
            [cb \in DOMAIN adjacency_list \cup Used |->
               IF cb \notin Used THEN adjacency_list[cb]
               ELSE IF Len(s) < 2 THEN Reset(entry(cb))
               ELSE WithChain(entry(cb), chain, cb)]
    /\ chainsLeft' = chainsLeft \ {c}
    /\ UNCHANGED <<input, phase, callVars, callback_map, groupVars, loopVars,
                   timing_export>>

Constructed ==
    /\ phase = "chains" /\ chainsLeft = {}
    /\ phase' = "built"
    /\ UNCHANGED <<input, callVars, chainsLeft, graphVars, groupVars, loopVars,
                   timing_export>>

-----------------------------------------------------------------------------
(***************************************************************************)
(* callback_threadgroup_allocation, first part:                            *)
(* recursive_callback_traversal from each callback without predecessor     *)
(***************************************************************************)

\* The call; it may come again after it returned or threw.
Allocate ==
    /\ phase \in {"built", "exported", "threw"}
    /\ calls < MaxCalls
    /\ calls' = calls + 1
    /\ retried' = (retried \/ phase = "threw")
    /\ deadline_map' = EmptyMap
    /\ rootsLeft' = {cb \in DOMAIN adjacency_list :
                       adjacency_list[cb].indegree = 0}
    /\ stack' = << >>
    /\ phase' = "callbacks"
    /\ UNCHANGED <<input, chainsLeft, graphVars, groupVars, timing_export>>

CallbackCall(cb, tg, prev) == [callback |-> cb, threadgroup_id |-> tg,
                               prev_threadgroup_id |-> prev]

StartAtRoot(cb) ==
    /\ phase = "callbacks" /\ stack = << >>
    /\ cb \in rootsLeft
    /\ rootsLeft' = rootsLeft \ {cb}
    /\ stack' = <<CallbackCall(cb, 0, 0)>>
    /\ UNCHANGED <<input, phase, callVars, chainsLeft, graphVars, groupVars,
                   deadline_map, timing_export>>

\* "Callback not found in callback map"
CallbackNotFound ==
    /\ phase = "callbacks" /\ stack # << >>
    /\ Head(stack).callback \notin DOMAIN callback_map
    /\ phase' = "threw"
    /\ UNCHANGED <<input, callVars, chainsLeft, graphVars, groupVars, loopVars,
                   timing_export>>

AlreadyVisited ==
    /\ phase = "callbacks" /\ stack # << >>
    /\ Head(stack).callback \in DOMAIN callback_map
    /\ callback_map[Head(stack).callback].threadgroup_id # 0
    /\ stack' = Tail(stack)
    /\ UNCHANGED <<input, phase, callVars, chainsLeft, graphVars, groupVars,
                   rootsLeft, deadline_map, timing_export>>

\* A new entry of threadgroup_callback_map_: callbacks[0] is first_callback
\* (the rest of the list is only printed).
ThreadGroupInfo(cb, isMutex) ==
    [first_callback |-> cb, fixed_priority |-> 0, num_threads |-> 1,
     is_mutex_group |-> isMutex]

\* Mutant: each edge is also entered in the other direction.
AddEdgeBothWays(from, to) ==
    LET ends  == {from, to}
        other == [i \in ends |-> IF i = from THEN to ELSE from]
    IN [i \in DOMAIN threadgroup_adjacency_list \cup ends |->
          LET old == Get(threadgroup_adjacency_list, i, NoEdges)
          IN IF i \notin ends THEN old
             ELSE [outgoing |-> old.outgoing \cup {other[i]},
                   incoming |-> old.incoming \cup
                                  (IF i = to THEN {from} ELSE {})]]

AddEdge(from, to) ==
    LET withOut == Put(threadgroup_adjacency_list, from,
                       [Get(threadgroup_adjacency_list, from, NoEdges)
                          EXCEPT !.outgoing = @ \cup {to}])
    IN Put(withOut, to, [Get(withOut, to, NoEdges)
                           EXCEPT !.incoming = @ \cup {from}])

\* Mutant: only the first successor is visited, wherever it leads.
CallsOfFirstSuccessor(order, tg, prev) ==
    IF order = << >> THEN << >>
    ELSE <<IF adjacency_list[order[1]].indegree = 1
             THEN CallbackCall(order[1], tg, prev)
             ELSE CallbackCall(order[1], 0, tg)>>

\* The calls a visited callback makes, its successors being iterated in the
\* given order: the first one only, in the same thread group, if that has no
\* other predecessor, else each one in a new thread group.
CallsOfSuccessors(order, tg, prev) ==
    IF order = << >> THEN << >>
    ELSE IF adjacency_list[order[1]].indegree = 1
      THEN <<CallbackCall(order[1], tg, prev)>>
      ELSE [i \in DOMAIN order |-> CallbackCall(order[i], 0, tg)]

\* Mutant: a mutually exclusive callback inside a chain stays in the thread
\* group of the chain.
OpensGroupAtHead(call, isMutex) == call.threadgroup_id = 0

\* "First callback in new threadgroup or mutually exclusive callback group"
OpensGroup(call, isMutex) == call.threadgroup_id = 0 \/ isMutex

KnownMutexGroup(group) ==
    group \in MutexGroups /\ group \in DOMAIN mutex_threadgroup_map

\* generate_threadgroup_id is called for a group that is not known yet.
DrawId(opens, known) ==
    IF opens /\ ~known THEN next_threadgroup_id + 1 ELSE next_threadgroup_id

VisitCallback ==
    /\ phase = "callbacks" /\ stack # << >>
    /\ Head(stack).callback \in DOMAIN callback_map
    /\ callback_map[Head(stack).callback].threadgroup_id = 0
    /\ LET call    == Head(stack)
           cb      == call.callback
           prev    == call.prev_threadgroup_id
           group   == callback_map[cb].group
           isMutex == group \in MutexGroups
           opens   == OpensGroup(call, isMutex)
           known   == KnownMutexGroup(group)
           new     == IF known THEN mutex_threadgroup_map[group]
                               ELSE next_threadgroup_id
           mine    == IF opens THEN new ELSE call.threadgroup_id
           rest    == IF call.threadgroup_id = 0 THEN new
                                                 ELSE call.threadgroup_id
           due     == adjacency_list[cb].min_deadline
       IN /\ callback_map' = [callback_map EXCEPT ![cb].threadgroup_id = mine]
          /\ next_threadgroup_id' = DrawId(opens, known)
          /\ mutex_threadgroup_map' = IF opens /\ isMutex
                                        THEN Put(mutex_threadgroup_map, group,
                                                 new)
                                        ELSE mutex_threadgroup_map
          /\ threadgroup_callback_map' =
               IF opens /\ ~known
                 THEN Put(threadgroup_callback_map, new,
                          ThreadGroupInfo(cb, isMutex))
                 ELSE threadgroup_callback_map
          /\ deadline_map' = IF opens
                               THEN Put(deadline_map, due,
                                        Append(Get(deadline_map, due, << >>),
                                               new))
                               ELSE deadline_map
          /\ threadgroup_adjacency_list' =
               IF call.threadgroup_id = 0 /\ prev # 0
                 THEN AddEdge(prev, new) ELSE threadgroup_adjacency_list
          /\ \E order \in SE!SetToSeqs(adjacency_list[cb].outgoing) :
               stack' = CallsOfSuccessors(order, rest, prev) \o Tail(stack)
    /\ UNCHANGED <<input, phase, callVars, chainsLeft, adjacency_list,
                   rootsLeft, timing_export>>

-----------------------------------------------------------------------------
(***************************************************************************)
(* Second part: fixed priorities                                           *)
(***************************************************************************)

\* Where the thread groups are in the map: under a deadline, at a position.
DeadlineEntries ==
    UNION {{d} \X DOMAIN deadline_map[d] : d \in DOMAIN deadline_map}
GroupAt(e) == deadline_map[e[1]][e[2]]

\* The order in which the entries are met.
EntryBefore(e, f) == e[1] < f[1] \/ (e[1] = f[1] /\ e[2] < f[2])

\* Mutant: whether a group has its priority already is not asked.
EveryEntry == DeadlineEntries

\* A group gets its priority at its first entry, if it has none yet.
FreshEntries ==
    {e \in DeadlineEntries :
        /\ threadgroup_callback_map[GroupAt(e)].fixed_priority = 0
        /\ \A f \in DeadlineEntries : EntryBefore(f, e) => GroupAt(f) # GroupAt(e)}

\* The value of fixed_priority_counter there, which is a uint16_t.  (A group
\* that is given 0 after a wrap is not looked at again.)
Rank(e) ==
    Cardinality({f \in FreshEntries : f = e \/ EntryBefore(f, e)}) % UINT16_MOD

AssignPriorities ==
    /\ phase = "callbacks" /\ stack = << >> /\ rootsLeft = {}
    /\ threadgroup_callback_map' =
         [id \in DOMAIN threadgroup_callback_map |->
            IF \E e \in FreshEntries : GroupAt(e) = id
              THEN [threadgroup_callback_map[id] EXCEPT !.fixed_priority =
                      Rank(CHOOSE e \in FreshEntries : GroupAt(e) = id)]
              ELSE threadgroup_callback_map[id]]
    /\ phase' = "threads"
    /\ rootsLeft' = DOMAIN threadgroup_adjacency_list
    /\ UNCHANGED <<input, callVars, chainsLeft, graphVars,
                   mutex_threadgroup_map, threadgroup_adjacency_list,
                   next_threadgroup_id, stack, deadline_map, timing_export>>

-----------------------------------------------------------------------------
(***************************************************************************)
(* Third part: recursive_threadgroup_traversal from each thread group that *)
(* is not a mutex group and has no predecessor                             *)
(***************************************************************************)

ThreadCall(id, depth) == [threadgroup_id |-> id, depth |-> depth]

HasNoPredecessor(id) ==
    Cardinality(threadgroup_adjacency_list[id].incoming) % UINT8_MOD = 0

IsThreadRoot(id) ==
    HasNoPredecessor(id) /\ ~threadgroup_callback_map[id].is_mutex_group

StartAtThreadGroup(id) ==
    /\ phase = "threads" /\ stack = << >>
    /\ id \in rootsLeft
    /\ rootsLeft' = rootsLeft \ {id}
    /\ stack' = IF IsThreadRoot(id) THEN <<ThreadCall(id, 1)>> ELSE << >>
    /\ UNCHANGED <<input, phase, callVars, chainsLeft, graphVars, groupVars,
                   deadline_map, timing_export>>

\* A root has a thread for each period that its longest deadline spans.  The
\* quotient of two integers is rounded down before std::ceil sees it.
RootThreads(id) ==
    LET adj == adjacency_list[threadgroup_callback_map[id].first_callback]
    IN (FSE!Max(adj.deadlines) \div Head(adj.periods)) % UINT16_MOD

\* The thread counts of a set of groups, together.
Threads(ids) ==
    FN!SumFunction([p \in ids |-> threadgroup_callback_map[p].num_threads])

\* Mutant: the count is not reset before the sum.
ThreadsOfPredecessorsNoReset(id) ==
    (threadgroup_callback_map[id].num_threads
       + Threads(threadgroup_adjacency_list[id].incoming \ {id})) % UINT16_MOD

\* The group's own count was set to 0 before the sum.
ThreadsOfPredecessors(id) ==
    Threads(threadgroup_adjacency_list[id].incoming \ {id}) % UINT16_MOD

NumThreads(id) ==
    IF HasNoPredecessor(id) THEN RootThreads(id) ELSE ThreadsOfPredecessors(id)

VisitThreadGroup ==
    /\ phase = "threads" /\ stack # << >>
    /\ Head(stack).depth <= Cardinality(DOMAIN threadgroup_callback_map)
    /\ LET id    == Head(stack).threadgroup_id
           depth == Head(stack).depth
       IN /\ threadgroup_callback_map' =
               [threadgroup_callback_map EXCEPT ![id].num_threads =
                  NumThreads(id)]
          /\ \E order \in SE!SetToSeqs(threadgroup_adjacency_list[id].outgoing) :
               stack' = [i \in DOMAIN order |-> ThreadCall(order[i], depth + 1)]
                          \o Tail(stack)
    /\ UNCHANGED <<input, phase, callVars, chainsLeft, graphVars,
                   mutex_threadgroup_map, threadgroup_adjacency_list,
                   next_threadgroup_id, rootsLeft, deadline_map, timing_export>>

\* A call nested deeper than there are thread groups is on a cycle: the
\* recursion does not end before the thread's stack does.
StackOverflow ==
    /\ phase = "threads" /\ stack # << >>
    /\ Head(stack).depth > Cardinality(DOMAIN threadgroup_callback_map)
    /\ phase' = "overflow"
    /\ UNCHANGED <<input, callVars, chainsLeft, graphVars, groupVars, loopVars,
                   timing_export>>

-----------------------------------------------------------------------------
(***************************************************************************)
(* export_timing_information                                               *)
(***************************************************************************)

\* Mutant: the check is missing.
UnassignedNone == {}

Unassigned == {n \in DOMAIN callback_map : callback_map[n].threadgroup_id = 0}

AllocationOver == phase = "threads" /\ stack = << >> /\ rootsLeft = {}

\* "Callback ... has not been assigned to any threadgroup"
ExportThrows ==
    /\ AllocationOver
    /\ Unassigned # {}
    /\ phase' = "threw"
    /\ UNCHANGED <<input, callVars, chainsLeft, graphVars, groupVars, loopVars,
                   timing_export>>

ExportTimingInformation ==
    /\ AllocationOver
    /\ Unassigned = {}
    /\ timing_export' =
         [handles |-> [e \in {callback_map[n].entity : n \in DOMAIN callback_map}
                         |-> callback_map[input.name[e]].threadgroup_id],
          groups  |-> [id \in DOMAIN threadgroup_callback_map |->
              [priority |-> threadgroup_callback_map[id].fixed_priority,
               number_of_threads |-> threadgroup_callback_map[id].num_threads,
               is_mutex_group |-> threadgroup_callback_map[id].is_mutex_group]]]
    /\ adjacency_list' = EmptyMap
    /\ threadgroup_adjacency_list' = EmptyMap
    /\ mutex_threadgroup_map' = EmptyMap
    /\ callback_map' = EmptyMap
    /\ threadgroup_callback_map' = EmptyMap
    /\ next_threadgroup_id' = 1
    /\ deadline_map' = EmptyMap
    /\ phase' = "exported"
    /\ UNCHANGED <<input, callVars, chainsLeft, rootsLeft, stack>>

-----------------------------------------------------------------------------
Step ==
    \/ RegisterEntities
    \/ \E c \in chainsLeft : AddChain(c)
    \/ Constructed
    \/ Allocate
    \/ \E cb \in rootsLeft : StartAtRoot(cb)
    \/ CallbackNotFound \/ AlreadyVisited \/ VisitCallback
    \/ AssignPriorities
    \/ \E id \in rootsLeft : StartAtThreadGroup(id)
    \/ VisitThreadGroup \/ StackOverflow
    \/ ExportThrows \/ ExportTimingInformation

\* Nobody calls the registry again, or the process is dead.
Finished ==
    /\ phase = "overflow" \/ (phase \in {"exported", "threw"} /\ calls = MaxCalls)
    /\ UNCHANGED vars

Next == Step \/ Finished

Spec == Init /\ [][Next]_vars

\* The registry is sequential code: it goes on until it returns or throws.
FairSpec == Spec /\ WF_vars(Step)

-----------------------------------------------------------------------------
(***************************************************************************)
(* Properties                                                              *)
(***************************************************************************)

Assigned == {n \in DOMAIN callback_map : callback_map[n].threadgroup_id # 0}

\* Mutual exclusion survives the allocation: two callbacks of one mutually
\* exclusive callback group are in the same thread group, which has a single
\* thread, and callbacks of two such groups never share one, wherever in the
\* chains recursive_callback_traversal meets them.
MutexCallbacksShareTheirThread ==
    \A m, n \in Assigned :
        callback_map[m].group \in MutexGroups
          /\ callback_map[n].group \in MutexGroups
        => /\ callback_map[m].group = callback_map[n].group
                <=> callback_map[m].threadgroup_id = callback_map[n].threadgroup_id
           /\ threadgroup_callback_map[callback_map[m].threadgroup_id].is_mutex_group

\* The most urgent deadline of the entries of a thread group.
Urgency(id) ==
    FSE!Min({d \in DOMAIN deadline_map : id \in SE!ToSet(deadline_map[d])})

\* Unless an earlier call threw, the priorities are 1, 2, ... without a gap or
\* a tie, and monotonic in the deadlines, although a mutex group may be entered
\* under several deadlines (callback_threadgroup_allocation).  Which end is the
\* urgent one is left open: see the README.
PrioritiesFollowDeadlines ==
    phase = "threads" /\ ~retried =>
        LET tgs   == DOMAIN threadgroup_callback_map
            fp(i) == threadgroup_callback_map[i].fixed_priority
        IN /\ {fp(i) : i \in tgs} = 1..Cardinality(tgs)
           /\ \/ \A i, j \in tgs : Urgency(i) < Urgency(j) => fp(i) < fp(j)
              \/ \A i, j \in tgs : Urgency(i) < Urgency(j) => fp(i) > fp(j)

\* A path leads from m to n: whatever contains m and, with a node, those it
\* has edges to contains n.
Connected(G, m, n) ==
    \A S \in SUBSET G.node :
        m \in S /\ (\A e \in G.edge : e[1] \in S => e[2] \in S) => n \in S

ThreadGroupGraph ==
    [node |-> DOMAIN threadgroup_adjacency_list,
     edge |-> UNION {{<<i, o>> : o \in threadgroup_adjacency_list[i].outgoing} :
                       i \in DOMAIN threadgroup_adjacency_list}]

\* When recursive_threadgroup_traversal is through, the count of each group it
\* reaches is the sum of its predecessors' final counts, in whatever order the
\* predecessors were visited and revisited.
ThreadCountsBalance ==
    AllocationOver =>
        \A r, id \in DOMAIN threadgroup_adjacency_list :
           IsThreadRoot(r) /\ Connected(ThreadGroupGraph, r, id) =>
             threadgroup_callback_map[id].num_threads =
               IF id = r THEN RootThreads(id)
               ELSE Threads(threadgroup_adjacency_list[id].incoming) % UINT16_MOD

\* recursive_threadgroup_traversal reads periods[0] and the maximum of
\* deadlines only where there are some, although chains of one callback reset
\* the entry of a callback.
RootsHaveTiming ==
    \A id \in DOMAIN threadgroup_adjacency_list :
        IsThreadRoot(id) =>
          LET adj == adjacency_list[threadgroup_callback_map[id].first_callback]
          IN adj.periods # << >> /\ adj.deadlines # {}

\* The recursion over thread groups runs away only if a mutex group is its own
\* successor, directly or through others.
OverflowNeedsMutexFeedback ==
    phase = "overflow" =>
        \E e \in ThreadGroupGraph.edge :
            /\ threadgroup_callback_map[e[1]].is_mutex_group
            /\ Connected(ThreadGroupGraph, e[2], e[1])

\* What the user's chains say: the callbacks in them, the distinct successors
\* of cb, and the chain positions of cb that have another one before them.
ChainCallbacks == UNION {SE!ToSet(input.chains[c].callbacks) :
                           c \in DOMAIN input.chains}
ChainSuccessors(cb) ==
    UNION {LET s == input.chains[c].callbacks
           IN {s[i + 1] : i \in Positions(s, cb) \ {Len(s)}} :
             c \in DOMAIN input.chains}
ChainPredecessions(cb) ==
    UNION {{c} \X (Positions(input.chains[c].callbacks, cb) \ {1}) :
             c \in DOMAIN input.chains}
ChainIndegree(cb) == Cardinality(ChainPredecessions(cb))

ChainGraph ==
    [node |-> ChainCallbacks,
     edge |-> {e \in ChainCallbacks \X ChainCallbacks :
                 e[2] \in ChainSuccessors(e[1])}]

\* Chains of two or more callbacks over exactly the registered callbacks, no
\* cycle, and where a callback has several successors each of them has other
\* predecessors, too.
WellFormed ==
    /\ \A c \in DOMAIN input.chains : Len(input.chains[c].callbacks) >= 2
    /\ ChainCallbacks = {input.name[e] : e \in Entities}
    /\ \A e \in ChainGraph.edge : ~Connected(ChainGraph, e[2], e[1])
    /\ \A cb \in ChainCallbacks : Cardinality(ChainSuccessors(cb)) > 1 =>
         \A next \in ChainSuccessors(cb) : ChainIndegree(next) > 1

\* A well-formed set of chains is allocated: neither traversal throws, no
\* callback is left without a thread group.
WellFormedChainsAreAllocated == phase = "threw" => ~WellFormed

\* What the executor is given is closed: each handle leads to an exported
\* thread group ("Unknown thread group id" is not thrown when its bundles are
\* dispatched) and, unless an earlier call threw, to one with a priority.
ExportIsClosed ==
    \A e \in DOMAIN timing_export.handles :
        LET id == timing_export.handles[e]
        IN /\ id \in DOMAIN timing_export.groups
           /\ ~retried => timing_export.groups[id].priority >= 1

\* Callbacks that may be in one thread group because their callback group is
\* mutually exclusive.
MayShare(a, b) ==
    a = b \/ \E e, f \in Entities :
               /\ input.name[e] = a /\ input.name[f] = b
               /\ input.group[e] = input.group[f]
               /\ input.group[e] \in MutexGroups

\* The traversal goes on from cb to next in the thread group it is in.
StaysInGroup(cb, next) ==
    /\ ChainSuccessors(cb) = {next} /\ ChainIndegree(next) = 1
    /\ \A c \in DOMAIN input.chains : input.chains[c].callbacks # <<next>>

\* The ways on, from a callback or one that may share its thread group.
Ways ==
    {w \in ChainCallbacks \X ChainCallbacks \X ChainCallbacks :
        MayShare(w[1], w[2]) /\ w[3] \in ChainSuccessors(w[2])}

\* None of them leaves a thread group and leads back to where it began.
NoFeedback ==
    LET G == [node |-> ChainCallbacks, edge |-> {<<w[1], w[3]>> : w \in Ways}]
    IN \A w \in Ways : StaysInGroup(w[2], w[3]) \/ ~Connected(G, w[3], w[1])

\* Both traversals recurse without asking where they have been, and still come
\* to an end, with an export or an exception, unless a mutex group feeds back
\* into itself.
AllocationEnds ==
    (phase = "callbacks" /\ NoFeedback) ~> (phase \in {"exported", "threw"})

-----------------------------------------------------------------------------
(***************************************************************************)
(* What a comment of the code says, and the code does not do               *)
(***************************************************************************)

\* "Calculate number of threads for each threadgroup"
\* (callback_threadgroup_allocation): the calculation comes to a result.
ThreadCountsAreCalculated == phase # "overflow"
=============================================================================
