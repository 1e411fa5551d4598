------------------------ MODULE CallbackRegistry_proofs ------------------------
(***************************************************************************)
(* The allocation keeps mutually exclusive callback groups exclusive,      *)
(* gives priorities in the order of the deadlines, exports a closed set of *)
(* thread groups, times its roots, sums the threads of the others, runs    *)
(* away only on mutex feedback and leaves no callback of a well-formed set *)
(* of chains out, for every set of chains, every grouping of the callbacks *)
(* and every number of calls of the registry.  ChainYamlParser gives it    *)
(* valid chains and stores them up to the fault.                           *)
(***************************************************************************)
EXTENDS CallbackRegistry, ChainYamlParser, FiniteSetTheorems, TLAPS

USE BoundsAssumption

-----------------------------------------------------------------------------
(***************************************************************************)
(* The inductive invariant                                                 *)
(***************************************************************************)

\* The entries of the two maps are records with these fields.
EntriesOK ==
    /\ \A n \in DOMAIN callback_map :
         callback_map[n] = [entity |-> callback_map[n].entity,
                            group |-> callback_map[n].group,
                            threadgroup_id |-> callback_map[n].threadgroup_id]
    /\ \A id \in DOMAIN threadgroup_callback_map :
         threadgroup_callback_map[id] =
           [first_callback |-> threadgroup_callback_map[id].first_callback,
            fixed_priority |-> threadgroup_callback_map[id].fixed_priority,
            num_threads |-> threadgroup_callback_map[id].num_threads,
            is_mutex_group |-> threadgroup_callback_map[id].is_mutex_group]

\* Fresh ids are fresh.
IdsOK ==
    /\ next_threadgroup_id \in Nat \ {0}
    /\ DOMAIN threadgroup_callback_map = 1..(next_threadgroup_id - 1)

\* mutex_threadgroup_map_ gives each mutually exclusive group a one-thread
\* group of its own, and its callbacks that were visited are there.
MutexMapOK ==
    /\ \A g \in DOMAIN mutex_threadgroup_map :
         /\ mutex_threadgroup_map[g] \in DOMAIN threadgroup_callback_map
         /\ threadgroup_callback_map[mutex_threadgroup_map[g]].is_mutex_group
    /\ \A g, h \in DOMAIN mutex_threadgroup_map :
         mutex_threadgroup_map[g] = mutex_threadgroup_map[h] => g = h
    /\ \A n \in Assigned : callback_map[n].group \in MutexGroups =>
         /\ callback_map[n].group \in DOMAIN mutex_threadgroup_map
         /\ callback_map[n].threadgroup_id
              = mutex_threadgroup_map[callback_map[n].group]

MutexInv == EntriesOK /\ IdsOK /\ MutexMapOK

\* The invariant gives the property.
LEMMA MutexInvSuffices == MutexInv => MutexCallbacksShareTheirThread
  BY DEF MutexInv, MutexMapOK, MutexCallbacksShareTheirThread

\* The registry starts with empty maps.
LEMMA MutexInit == Init => MutexInv
  BY DEF Init, MutexInv, EntriesOK, IdsOK, MutexMapOK, EmptyMap, Assigned

-----------------------------------------------------------------------------
(***************************************************************************)
(* The steps                                                               *)
(***************************************************************************)

\* A step that changes no more of the thread groups than their priority and
\* their number of threads keeps the invariant.
LEMMA SameGroups ==
    ASSUME MutexInv,
           UNCHANGED <<callback_map, mutex_threadgroup_map, next_threadgroup_id>>,
           DOMAIN threadgroup_callback_map' = DOMAIN threadgroup_callback_map,
           \A id \in DOMAIN threadgroup_callback_map :
             \E p, t : threadgroup_callback_map'[id] =
               [first_callback |-> threadgroup_callback_map[id].first_callback,
                fixed_priority |-> p, num_threads |-> t,
                is_mutex_group |-> threadgroup_callback_map[id].is_mutex_group]
    PROVE  MutexInv'
  <1>1. \A id \in DOMAIN threadgroup_callback_map :
          threadgroup_callback_map'[id].is_mutex_group
            = threadgroup_callback_map[id].is_mutex_group
    OBVIOUS
  <1>2. EntriesOK'
    BY DEF MutexInv, EntriesOK
  <1>3. IdsOK'
    BY DEF MutexInv, IdsOK
  <1>4. MutexMapOK'
    BY <1>1 DEF MutexInv, MutexMapOK, Assigned
  <1> QED  BY <1>2, <1>3, <1>4 DEF MutexInv

\* Visiting a callback: a mutually exclusive one goes to the thread group of
\* its callback group, which is opened under a fresh id if there is none.
LEMMA VisitKeepsExclusion == MutexInv /\ VisitCallback => MutexInv'
  <1> SUFFICES ASSUME MutexInv, VisitCallback PROVE MutexInv'
    OBVIOUS
  <1> DEFINE call    == Head(stack)
             cb      == call.callback
             group   == callback_map[cb].group
             isMutex == group \in MutexGroups
             opens   == OpensGroup(call, isMutex)
             known   == KnownMutexGroup(group)
             new     == IF known THEN mutex_threadgroup_map[group]
                                 ELSE next_threadgroup_id
             mine    == IF opens THEN new ELSE call.threadgroup_id
  <1>1. /\ cb \in DOMAIN callback_map
        /\ callback_map' = [callback_map EXCEPT ![cb].threadgroup_id = mine]
        /\ next_threadgroup_id' = IF opens /\ ~known
                                    THEN next_threadgroup_id + 1
                                    ELSE next_threadgroup_id
        /\ mutex_threadgroup_map' = IF opens /\ isMutex
                                      THEN Put(mutex_threadgroup_map, group, new)
                                      ELSE mutex_threadgroup_map
        /\ threadgroup_callback_map' =
             IF opens /\ ~known
               THEN Put(threadgroup_callback_map, new,
                        ThreadGroupInfo(cb, isMutex))
               ELSE threadgroup_callback_map
    BY DEF VisitCallback, DrawId
  <1>2. /\ isMutex => opens
        /\ known <=> isMutex /\ group \in DOMAIN mutex_threadgroup_map
    BY DEF OpensGroup, KnownMutexGroup
  <1> HIDE DEF call, opens, known
  <1>3. /\ EntriesOK /\ IdsOK /\ MutexMapOK
        /\ next_threadgroup_id \in Nat \ {0}
        /\ next_threadgroup_id \notin DOMAIN threadgroup_callback_map
    BY DEF MutexInv, IdsOK
  \* The entries of callback_map_ but for that of cb stay as they are.
  <1>4. /\ DOMAIN callback_map' = DOMAIN callback_map
        /\ \A n \in DOMAIN callback_map \ {cb} :
             callback_map'[n] = callback_map[n]
        /\ callback_map'[cb] = [entity |-> callback_map[cb].entity,
                                group |-> group, threadgroup_id |-> mine]
    BY <1>1, <1>3 DEF EntriesOK
  \* The thread groups there were stay as they are.
  <1>5. /\ DOMAIN threadgroup_callback_map \subseteq
             DOMAIN threadgroup_callback_map'
        /\ \A id \in DOMAIN threadgroup_callback_map :
             threadgroup_callback_map'[id] = threadgroup_callback_map[id]
        /\ opens /\ ~known =>
             /\ DOMAIN threadgroup_callback_map' =
                  DOMAIN threadgroup_callback_map \cup {next_threadgroup_id}
             /\ threadgroup_callback_map'[next_threadgroup_id]
                  = ThreadGroupInfo(cb, isMutex)
    BY <1>1, <1>3 DEF Put
  <1>6. EntriesOK'
    <2>1. \A n \in DOMAIN callback_map' :
            callback_map'[n] = [entity |-> callback_map'[n].entity,
                                group |-> callback_map'[n].group,
                                threadgroup_id |-> callback_map'[n].threadgroup_id]
      BY <1>3, <1>4 DEF EntriesOK
    <2>2. \A id \in DOMAIN threadgroup_callback_map' :
            threadgroup_callback_map'[id] =
              [first_callback |-> threadgroup_callback_map'[id].first_callback,
               fixed_priority |-> threadgroup_callback_map'[id].fixed_priority,
               num_threads |-> threadgroup_callback_map'[id].num_threads,
               is_mutex_group |-> threadgroup_callback_map'[id].is_mutex_group]
      BY <1>1, <1>3, <1>5 DEF EntriesOK, ThreadGroupInfo
    <2> QED  BY <2>1, <2>2 DEF EntriesOK
  <1>7. IdsOK'
    <2>1. CASE opens /\ ~known
      <3>1. /\ next_threadgroup_id' = next_threadgroup_id + 1
            /\ DOMAIN threadgroup_callback_map'
                 = 1..(next_threadgroup_id - 1) \cup {next_threadgroup_id}
        BY <1>1, <1>3, <1>5, <2>1 DEF IdsOK
      <3>2. 1..(next_threadgroup_id - 1) \cup {next_threadgroup_id}
              = 1..(next_threadgroup_id + 1 - 1)
        BY <1>3
      <3> QED  BY <1>3, <3>1, <3>2 DEF IdsOK
    <2>2. CASE ~(opens /\ ~known)
      BY <1>1, <1>3, <2>2 DEF IdsOK
    <2> QED  BY <2>1, <2>2
  <1>8. MutexMapOK'
    <2>1. CASE ~isMutex
      <3>1. mutex_threadgroup_map' = mutex_threadgroup_map
        BY <1>1, <2>1
      <3>2. \A n \in Assigned' : callback_map'[n].group \in MutexGroups =>
              n \in Assigned /\ callback_map'[n] = callback_map[n]
        BY <1>4, <2>1 DEF Assigned
      <3> QED  BY <1>3, <1>5, <3>1, <3>2 DEF MutexMapOK
    <2>2. CASE isMutex
      <3>1. /\ opens /\ mine = new
            /\ DOMAIN mutex_threadgroup_map'
                 = DOMAIN mutex_threadgroup_map \cup {group}
            /\ mutex_threadgroup_map'[group] = new
            /\ \A g \in DOMAIN mutex_threadgroup_map \ {group} :
                 mutex_threadgroup_map'[g] = mutex_threadgroup_map[g]
        BY <1>1, <1>2, <2>2 DEF Put
      <3>2. \A n \in Assigned' \ {cb} :
              n \in Assigned /\ callback_map'[n] = callback_map[n]
        BY <1>4 DEF Assigned
      <3>3. /\ new \in DOMAIN threadgroup_callback_map'
            /\ threadgroup_callback_map'[new].is_mutex_group
        <4>1. CASE known
          <5>1. /\ new \in DOMAIN threadgroup_callback_map
                /\ threadgroup_callback_map[new].is_mutex_group
            BY <1>2, <1>3, <4>1 DEF MutexMapOK
          <5> QED  BY <1>5, <5>1
        <4>2. CASE ~known
          <5>1. new = next_threadgroup_id
            BY <4>2
          <5>2. ThreadGroupInfo(cb, isMutex).is_mutex_group = isMutex
            BY DEF ThreadGroupInfo
          <5>3. threadgroup_callback_map'[new] = ThreadGroupInfo(cb, isMutex)
            BY <1>5, <3>1, <4>2, <5>1
          <5> QED  BY <1>5, <2>2, <3>1, <4>2, <5>1, <5>2, <5>3
        <4> QED  BY <4>1, <4>2
      <3>4. \A g \in DOMAIN mutex_threadgroup_map :
              mutex_threadgroup_map[g] = new => g = group
        BY <1>2, <1>3, <2>2 DEF MutexMapOK
      <3>5. \A g \in DOMAIN mutex_threadgroup_map :
              known => (g = group => mutex_threadgroup_map[g] = new)
        BY <1>2
      <3> HIDE DEF new, mine
      <3>6. \A g \in DOMAIN mutex_threadgroup_map' :
              /\ mutex_threadgroup_map'[g] \in DOMAIN threadgroup_callback_map'
              /\ threadgroup_callback_map'[mutex_threadgroup_map'[g]].is_mutex_group
        BY <1>3, <1>5, <3>1, <3>3 DEF MutexMapOK
      <3>7. \A g, h \in DOMAIN mutex_threadgroup_map' :
              mutex_threadgroup_map'[g] = mutex_threadgroup_map'[h] => g = h
        BY <1>3, <3>1, <3>4 DEF MutexMapOK
      <3>8. \A n \in Assigned' : callback_map'[n].group \in MutexGroups =>
              /\ callback_map'[n].group \in DOMAIN mutex_threadgroup_map'
              /\ callback_map'[n].threadgroup_id
                   = mutex_threadgroup_map'[callback_map'[n].group]
        <4> SUFFICES ASSUME NEW n \in Assigned',
                            callback_map'[n].group \in MutexGroups
                     PROVE  /\ callback_map'[n].group
                                 \in DOMAIN mutex_threadgroup_map'
                            /\ callback_map'[n].threadgroup_id
                                 = mutex_threadgroup_map'[callback_map'[n].group]
          OBVIOUS
        <4>1. CASE n = cb
          BY <1>4, <3>1, <4>1
        <4>2. CASE n # cb
          <5>1. /\ n \in Assigned /\ callback_map'[n] = callback_map[n]
                /\ callback_map[n].group \in DOMAIN mutex_threadgroup_map
                /\ callback_map[n].threadgroup_id
                     = mutex_threadgroup_map[callback_map[n].group]
            BY <1>3, <3>2, <4>2 DEF MutexMapOK
          <5>2. CASE callback_map[n].group = group
            <6>1. known
              BY <1>2, <2>2, <5>1, <5>2
            <6> QED  BY <3>1, <3>5, <5>1, <5>2, <6>1
          <5>3. CASE callback_map[n].group # group
            BY <3>1, <5>1, <5>3
          <5> QED  BY <5>2, <5>3
        <4> QED  BY <4>1, <4>2
      <3> QED  BY <3>6, <3>7, <3>8 DEF MutexMapOK
    <2> QED  BY <2>1, <2>2
  <1> QED  BY <1>6, <1>7, <1>8 DEF MutexInv

\* Every step keeps the invariant.
LEMMA MutexStep == MutexInv /\ [Next]_vars => MutexInv'
  <1> SUFFICES ASSUME MutexInv, [Next]_vars PROVE MutexInv'
    OBVIOUS
  <1> USE DEF groupVars, graphVars
  <1>1. CASE UNCHANGED <<callback_map, groupVars>>
    BY <1>1 DEF MutexInv, EntriesOK, IdsOK, MutexMapOK, Assigned
  <1>2. CASE RegisterEntities
    <2>1. /\ UNCHANGED groupVars
          /\ \A n \in DOMAIN callback_map' :
               \E e, g : callback_map'[n] =
                 [entity |-> e, group |-> g, threadgroup_id |-> 0]
      <3> DEFINE Names == {input.name[e] : e \in Entities}
      <3>1. PICK kept \in [Names -> Entities] :
              callback_map' = [n \in Names |->
                [entity |-> kept[n], group |-> input.group[kept[n]],
                 threadgroup_id |-> 0]]
        BY <1>2, Zenon DEF RegisterEntities
      <3> HIDE DEF Names
      <3>2. DOMAIN callback_map' = Names
        BY <3>1
      <3>3. \A n \in Names : callback_map'[n] =
              [entity |-> kept[n], group |-> input.group[kept[n]],
               threadgroup_id |-> 0]
        BY <3>1
      <3>4. UNCHANGED groupVars
        BY <1>2 DEF RegisterEntities
      <3> QED  BY <3>2, <3>3, <3>4
    <2>2. Assigned' = {}
      BY <2>1 DEF Assigned
    <2> QED  BY <2>1, <2>2 DEF MutexInv, EntriesOK, IdsOK, MutexMapOK
  <1>3. ASSUME NEW c \in chainsLeft, AddChain(c) PROVE MutexInv'
    BY <1>1, <1>3 DEF AddChain
  <1>4. CASE Constructed \/ Allocate
    BY <1>1, <1>4 DEF Constructed, Allocate
  <1>5. ASSUME NEW cb \in rootsLeft, StartAtRoot(cb) PROVE MutexInv'
    BY <1>1, <1>5 DEF StartAtRoot
  <1>6. CASE CallbackNotFound \/ AlreadyVisited
    BY <1>1, <1>6 DEF CallbackNotFound, AlreadyVisited
  <1>7. CASE VisitCallback
    BY <1>7, VisitKeepsExclusion
  <1>8. CASE AssignPriorities
    <2>1. /\ UNCHANGED <<callback_map, mutex_threadgroup_map,
                         next_threadgroup_id>>
          /\ DOMAIN threadgroup_callback_map' = DOMAIN threadgroup_callback_map
          /\ \A id \in DOMAIN threadgroup_callback_map :
               \/ threadgroup_callback_map'[id] = threadgroup_callback_map[id]
               \/ \E p : threadgroup_callback_map'[id] =
                     [threadgroup_callback_map[id] EXCEPT !.fixed_priority = p]
      BY <1>8, Zenon DEF AssignPriorities
    <2>2. \A id \in DOMAIN threadgroup_callback_map :
             \E p, t : threadgroup_callback_map'[id] =
               [first_callback |-> threadgroup_callback_map[id].first_callback,
                fixed_priority |-> p, num_threads |-> t,
                is_mutex_group |-> threadgroup_callback_map[id].is_mutex_group]
      BY <2>1 DEF MutexInv, EntriesOK
    <2> QED  BY <2>1, <2>2, SameGroups
  <1>9. ASSUME NEW id \in rootsLeft, StartAtThreadGroup(id) PROVE MutexInv'
    BY <1>1, <1>9 DEF StartAtThreadGroup
  <1>10. CASE VisitThreadGroup
    <2>1. PICK i, t : threadgroup_callback_map' =
            [threadgroup_callback_map EXCEPT ![i].num_threads = t]
      BY <1>10 DEF VisitThreadGroup
    <2>2. \A id \in DOMAIN threadgroup_callback_map :
             \E p, u : threadgroup_callback_map'[id] =
               [first_callback |-> threadgroup_callback_map[id].first_callback,
                fixed_priority |-> p, num_threads |-> u,
                is_mutex_group |-> threadgroup_callback_map[id].is_mutex_group]
      <3> SUFFICES ASSUME NEW id \in DOMAIN threadgroup_callback_map
                   PROVE  \E p, u : threadgroup_callback_map'[id] =
                 [first_callback |-> threadgroup_callback_map[id].first_callback,
                  fixed_priority |-> p, num_threads |-> u,
                  is_mutex_group |-> threadgroup_callback_map[id].is_mutex_group]
        OBVIOUS
      <3>1. threadgroup_callback_map[id] =
              [first_callback |-> threadgroup_callback_map[id].first_callback,
               fixed_priority |-> threadgroup_callback_map[id].fixed_priority,
               num_threads |-> threadgroup_callback_map[id].num_threads,
               is_mutex_group |-> threadgroup_callback_map[id].is_mutex_group]
        BY DEF MutexInv, EntriesOK
      <3>2. CASE id # i
        BY <2>1, <3>1, <3>2
      <3>3. CASE id = i
        <4>1. threadgroup_callback_map'[id] =
                [threadgroup_callback_map[id] EXCEPT !.num_threads = t]
          BY <2>1, <3>3
        <4>2. threadgroup_callback_map'[id] =
                [first_callback |-> threadgroup_callback_map[id].first_callback,
                 fixed_priority |-> threadgroup_callback_map[id].fixed_priority,
                 num_threads |-> t,
                 is_mutex_group |-> threadgroup_callback_map[id].is_mutex_group]
          BY <3>1, <4>1
        <4> QED  BY <4>2
      <3> QED  BY <3>2, <3>3
    <2> QED  BY <1>10, <2>1, <2>2, SameGroups DEF VisitThreadGroup
  <1>11. CASE StackOverflow \/ ExportThrows
    BY <1>1, <1>11 DEF StackOverflow, ExportThrows
  <1>12. CASE ExportTimingInformation
    BY <1>12 DEF ExportTimingInformation, MutexInv, EntriesOK, IdsOK,
                 MutexMapOK, EmptyMap, Assigned
  <1>13. CASE UNCHANGED vars
    BY <1>1, <1>13 DEF vars
  <1> QED
    BY <1>2, <1>3, <1>4, <1>5, <1>6, <1>7, <1>8, <1>9, <1>10, <1>11, <1>12,
       <1>13 DEF Next, Step, Finished

\* Mutual exclusion survives the allocation, whatever the chains are, in
\* whatever order maps and sets are iterated, and also when the registry is
\* asked again after it threw.
THEOREM ExclusionSurvivesAllocation == Spec => []MutexCallbacksShareTheirThread
  <1>1. Init => MutexInv
    BY MutexInit
  <1>2. MutexInv /\ [Next]_vars => MutexInv'
    BY MutexStep
  <1>3. MutexInv => MutexCallbacksShareTheirThread
    BY MutexInvSuffices
  <1> QED  BY <1>1, <1>2, <1>3, PTL DEF Spec

-----------------------------------------------------------------------------
(***************************************************************************)
(* What the traversal relies on                                            *)
(***************************************************************************)

\* The chains have been entered as a graph on the callbacks they use; whoever
\* has a successor has a deadline and a period.
AdjacencyOK ==
    \A cb \in DOMAIN adjacency_list :
        /\ adjacency_list[cb].outgoing \subseteq DOMAIN adjacency_list
        /\ IsFiniteSet(adjacency_list[cb].outgoing)
        /\ adjacency_list[cb].min_deadline \in Nat
        /\ adjacency_list[cb].periods \in Seq(Nat)
        /\ adjacency_list[cb].outgoing # {} =>
              /\ adjacency_list[cb].deadlines # {}
              /\ adjacency_list[cb].periods # << >>

\* Every callback is registered under the name of its entity.
NamesOK ==
    /\ input \in Inputs /\ chainsLeft \subseteq DOMAIN input.chains
    /\ \A n \in DOMAIN callback_map : input.name[callback_map[n].entity] = n

\* Ids that were drawn, and 0 for none.
Ids == 0..(next_threadgroup_id - 1)

Calls == [callback : DOMAIN adjacency_list, threadgroup_id : Ids,
          prev_threadgroup_id : Ids]

PendingOK ==
    phase = "callbacks" => stack \in Seq(Calls)
                           /\ rootsLeft \subseteq DOMAIN adjacency_list

AssignedOK == \A n \in DOMAIN callback_map : callback_map[n].threadgroup_id \in Ids

\* There are thread groups only while an allocation is in progress, or after
\* one that threw.
StartsEmpty ==
    phase \in {"register", "chains", "built", "exported"} =>
        next_threadgroup_id = 1

TraversalInv == AdjacencyOK /\ NamesOK /\ PendingOK /\ AssignedOK /\ StartsEmpty

\* A first call finds each thread group somewhere under the deadlines, and
\* none with a priority.
DeadlinesOK ==
    phase = "callbacks" =>
        /\ DOMAIN deadline_map \subseteq Nat
        /\ \A d \in DOMAIN deadline_map :
              deadline_map[d] \in Seq(1..(next_threadgroup_id - 1))
        /\ ~retried => \A id \in DOMAIN threadgroup_callback_map :
              /\ threadgroup_callback_map[id].fixed_priority = 0
              /\ \E e \in DeadlineEntries : GroupAt(e) = id

\* A thread group that is not a mutex group goes on after its first callback.
Continues(id) ==
    ~threadgroup_callback_map[id].is_mutex_group =>
        adjacency_list[threadgroup_callback_map[id].first_callback].outgoing # {}

EdgesOK ==
    /\ \A id \in DOMAIN threadgroup_callback_map :
         threadgroup_callback_map[id].first_callback \in DOMAIN adjacency_list
    /\ phase = "callbacks" => \A i \in DOMAIN stack :
         /\ stack[i].threadgroup_id # 0 => Continues(stack[i].threadgroup_id)
         /\ stack[i].prev_threadgroup_id # 0 =>
              Continues(stack[i].prev_threadgroup_id)
    /\ DOMAIN threadgroup_adjacency_list \subseteq DOMAIN threadgroup_callback_map
    /\ \A id \in DOMAIN threadgroup_adjacency_list :
         /\ threadgroup_adjacency_list[id] =
              [outgoing |-> threadgroup_adjacency_list[id].outgoing,
               incoming |-> threadgroup_adjacency_list[id].incoming]
         /\ threadgroup_adjacency_list[id].incoming
              \subseteq DOMAIN threadgroup_callback_map
         /\ threadgroup_adjacency_list[id].incoming = {} =>
              threadgroup_adjacency_list[id].outgoing # {}
         /\ threadgroup_adjacency_list[id].outgoing # {} => Continues(id)

-----------------------------------------------------------------------------
(***************************************************************************)
(* The order of the entries                                                *)
(***************************************************************************)

Places == Nat \X Nat

LEMMA LeastNatural ==
    ASSUME NEW S \in SUBSET Nat, S # {}
    PROVE  \E x \in S : \A y \in S : x <= y
  <1>1. PICK x \in S : \A y \in S : ~(<<y, x>> \in OpToRel(<, Nat))
    BY NatLessThanWellFounded, WFMin, Zenon
  <1>2. ASSUME NEW y \in S, y < x PROVE <<y, x>> \in OpToRel(<, Nat)
    BY <1>2 DEF OpToRel
  <1>3. \A y \in S : ~(y < x)
    BY <1>1, <1>2, Zenon
  <1>4. \A y \in S : x <= y
    BY <1>3
  <1> QED  BY <1>4

LEMMA EntriesAreOrdered ==
    /\ \A e \in Places : ~EntryBefore(e, e)
    /\ \A e, f \in Places : EntryBefore(e, f) \/ e = f \/ EntryBefore(f, e)
    /\ \A e, f, g \in Places :
         EntryBefore(e, f) /\ EntryBefore(f, g) => EntryBefore(e, g)
  BY DEF Places, EntryBefore

LEMMA FirstEntry ==
    ASSUME NEW S \in SUBSET Places, S # {}
    PROVE  \E e \in S : \A f \in S : f = e \/ EntryBefore(e, f)
  <1> DEFINE D == {e[1] : e \in S}
  <1>1. D \in SUBSET Nat /\ D # {}
    BY DEF Places
  <1>2. PICK d \in D : \A c \in D : d <= c
    BY <1>1, LeastNatural
  <1> DEFINE K == {k \in Nat : <<d, k>> \in S}
  <1>3. K \in SUBSET Nat /\ K # {}
    BY DEF Places
  <1>4. PICK k \in K : \A l \in K : k <= l
    BY <1>3, LeastNatural
  <1>5. ASSUME NEW f \in S PROVE f = <<d, k>> \/ EntryBefore(<<d, k>>, f)
    <2>1. /\ f \in Nat \X Nat /\ f = <<f[1], f[2]>>
          /\ d \in Nat /\ d <= f[1]
          /\ f[1] = d => k <= f[2]
          /\ k \in Nat
      BY <1>1, <1>2, <1>4 DEF Places
    <2> QED  BY <2>1 DEF EntryBefore
  <1> QED  BY <1>5

\* Counting what is not after it numbers the elements of a finite set of
\* places from 1 without a gap, in their order.
LEMMA RanksAreDense ==
    ASSUME NEW F \in SUBSET Places, IsFiniteSet(F),
           NEW r, r = [e \in F |->
                         Cardinality({f \in F : f = e \/ EntryBefore(f, e)})]
    PROVE  /\ Cardinality(F) \in Nat
           /\ r \in [F -> 1..Cardinality(F)]
           /\ \A e, f \in F : EntryBefore(e, f) => r[e] < r[f]
           /\ \A k \in 1..Cardinality(F) : \E e \in F : r[e] = k
  <1> DEFINE Upto(e) == {f \in F : f = e \/ EntryBefore(f, e)}
  <1>1. \A e \in F : r[e] = Cardinality(Upto(e))
    OBVIOUS
  <1>2. Cardinality(F) \in Nat
    BY FS_CardinalityType
  <1>3. ASSUME NEW e \in F
        PROVE  /\ IsFiniteSet(Upto(e))
               /\ Cardinality(Upto(e)) \in 1..Cardinality(F)
    <2>1. /\ IsFiniteSet(Upto(e)) /\ Cardinality(Upto(e)) <= Cardinality(F)
      BY FS_Subset
    <2>2. Cardinality(Upto(e)) \in Nat /\ Cardinality(Upto(e)) # 0
      BY <2>1, FS_CardinalityType, FS_EmptySet
    <2> QED  BY <1>2, <2>1, <2>2
  <1>4. ASSUME NEW e \in F, NEW f \in F, EntryBefore(e, f)
        PROVE  Cardinality(Upto(e)) < Cardinality(Upto(f))
    <2>1. Upto(e) \in SUBSET Upto(f) /\ f \in Upto(f) /\ f \notin Upto(e)
      BY <1>4, EntriesAreOrdered
    <2>2. /\ Cardinality(Upto(e)) <= Cardinality(Upto(f))
          /\ Cardinality(Upto(f)) # Cardinality(Upto(e))
      BY <1>3, <2>1, FS_Subset
    <2> QED  BY <1>2, <1>3, <2>2
  <1>5. r \in [F -> 1..Cardinality(F)]
    BY <1>1, <1>3
  <1>6. \A e, f \in F : EntryBefore(e, f) => r[e] < r[f]
    BY <1>1, <1>4
  <1>7. \A e, f \in F : r[e] = r[f] => e = f
    <2>1. \A e \in F : r[e] \in Nat
      BY <1>2, <1>5
    <2>2. \A e, f \in F : e = f \/ EntryBefore(e, f) \/ EntryBefore(f, e)
      BY EntriesAreOrdered
    <2> QED  BY <1>6, <2>1, <2>2
  <1>8. r \in Injection(F, 1..Cardinality(F))
    BY <1>5, <1>7 DEF Injection, IsInjective
  <1>9. /\ IsFiniteSet(1..Cardinality(F))
        /\ Cardinality(1..Cardinality(F)) = Cardinality(F)
    BY <1>2, FS_Interval
  <1>10. r \in Surjection(F, 1..Cardinality(F))
    BY <1>8, <1>9, FS_Injection
  <1> QED
    BY <1>2, <1>5, <1>6, <1>10 DEF Surjection

-----------------------------------------------------------------------------
(***************************************************************************)
(* Priorities                                                              *)
(***************************************************************************)

\* A place under the deadlines, and what is there.
LEMMA EntriesArePlaces ==
    ASSUME MutexInv, phase = "callbacks", DeadlinesOK
    PROVE  /\ DeadlineEntries \in SUBSET Places
           /\ \A e \in DeadlineEntries :
                GroupAt(e) \in DOMAIN threadgroup_callback_map
           /\ \A d \in DOMAIN deadline_map : \A k \in DOMAIN deadline_map[d] :
                <<d, k>> \in DeadlineEntries
           /\ \A e \in DeadlineEntries :
                e[1] \in DOMAIN deadline_map /\ e[2] \in DOMAIN deadline_map[e[1]]
  <1>1. /\ DOMAIN deadline_map \subseteq Nat
        /\ \A d \in DOMAIN deadline_map :
              deadline_map[d] \in Seq(DOMAIN threadgroup_callback_map)
    BY DEF DeadlinesOK, MutexInv, IdsOK
  <1>2. \A d \in DOMAIN deadline_map : \A k \in DOMAIN deadline_map[d] :
           k \in Nat /\ deadline_map[d][k] \in DOMAIN threadgroup_callback_map
    BY <1>1
  <1>3. \A e \in DeadlineEntries : \E d \in DOMAIN deadline_map :
           \E k \in DOMAIN deadline_map[d] : e = <<d, k>>
    BY DEF DeadlineEntries
  <1>4. \A d \in DOMAIN deadline_map : \A k \in DOMAIN deadline_map[d] :
           <<d, k>> \in DeadlineEntries
    BY DEF DeadlineEntries
  <1> QED  BY <1>1, <1>2, <1>3, <1>4 DEF Places, GroupAt

\* In a first call the fresh entries are those where a group comes first, and
\* there are as many as groups.
LEMMA FreshEntriesCount ==
    ASSUME MutexInv, phase = "callbacks", DeadlinesOK, ~retried
    PROVE  /\ FreshEntries \in SUBSET Places
           /\ \A id \in DOMAIN threadgroup_callback_map :
                \E e \in FreshEntries : GroupAt(e) = id
           /\ \A e \in FreshEntries : \A f \in DeadlineEntries :
                GroupAt(e) = GroupAt(f) => f = e \/ EntryBefore(e, f)
           /\ IsFiniteSet(FreshEntries)
           /\ Cardinality(FreshEntries) = next_threadgroup_id - 1
  <1> DEFINE tgs == DOMAIN threadgroup_callback_map
  <1>1. /\ DeadlineEntries \in SUBSET Places
        /\ \A e \in DeadlineEntries : GroupAt(e) \in tgs
    BY EntriesArePlaces
  <1>2. FreshEntries \in SUBSET DeadlineEntries
    BY DEF FreshEntries
  <1>3. ASSUME NEW id \in tgs
        PROVE  \E e \in FreshEntries : GroupAt(e) = id
    <2> DEFINE S == {e \in DeadlineEntries : GroupAt(e) = id}
    <2>1. S \in SUBSET Places /\ S # {}
      BY <1>1 DEF DeadlinesOK
    <2>2. PICK e \in S : \A f \in S : f = e \/ EntryBefore(e, f)
      BY <2>1, FirstEntry
    <2>3. ASSUME NEW f \in DeadlineEntries, EntryBefore(f, e)
          PROVE  GroupAt(f) # GroupAt(e)
      BY <1>1, <2>2, <2>3, EntriesAreOrdered
    <2>4. threadgroup_callback_map[GroupAt(e)].fixed_priority = 0
      BY DEF DeadlinesOK
    <2> QED  BY <2>3, <2>4 DEF FreshEntries
  <1>4. ASSUME NEW e \in FreshEntries, NEW f \in DeadlineEntries,
               GroupAt(e) = GroupAt(f)
        PROVE  f = e \/ EntryBefore(e, f)
    BY <1>1, <1>2, <1>4, EntriesAreOrdered DEF FreshEntries
  <1> DEFINE groupOf == [e \in FreshEntries |-> GroupAt(e)]
  <1>5. \A e, f \in FreshEntries : GroupAt(e) = GroupAt(f) => e = f
    BY <1>1, <1>2, <1>4, EntriesAreOrdered
  <1>6. groupOf \in Injection(FreshEntries, tgs)
    BY <1>1, <1>2, <1>5 DEF Injection, IsInjective
  <1>7. groupOf \in Surjection(FreshEntries, tgs)
    BY <1>1, <1>2, <1>3 DEF Surjection
  <1>8. /\ IsFiniteSet(tgs) /\ Cardinality(tgs) = next_threadgroup_id - 1
    BY FS_Interval DEF MutexInv, IdsOK
  <1> HIDE DEF groupOf
  <1>9. /\ IsFiniteSet(FreshEntries)
        /\ Cardinality(FreshEntries) = Cardinality(tgs)
    BY <1>6, <1>7, <1>8, FS_Injection
  <1> QED  BY <1>1, <1>2, <1>3, <1>4, <1>8, <1>9

\* A group's most urgent deadline is that of its fresh entry.
LEMMA FreshEntriesAreUrgent ==
    ASSUME MutexInv, phase = "callbacks", DeadlinesOK, ~retried,
           NEW e \in FreshEntries
    PROVE  Urgency(GroupAt(e)) = e[1]
  <1> DEFINE id == GroupAt(e)
             D == {d \in DOMAIN deadline_map : id \in SE!ToSet(deadline_map[d])}
  <1>1. /\ e \in DeadlineEntries /\ e \in Places
        /\ \A f \in DeadlineEntries : id = GroupAt(f) => f = e \/ EntryBefore(e, f)
    BY FreshEntriesCount DEF FreshEntries
  <1>2. D \subseteq Nat
    BY DEF DeadlinesOK
  <1>3. e[1] \in D
    BY <1>1, EntriesArePlaces DEF GroupAt, SE!ToSet
  <1>4. ASSUME NEW d \in D PROVE e[1] <= d
    <2>1. PICK k \in DOMAIN deadline_map[d] : deadline_map[d][k] = id
      BY DEF SE!ToSet
    <2>2. /\ <<d, k>> \in DeadlineEntries /\ <<d, k>> \in Places
          /\ GroupAt(<<d, k>>) = id
      BY <2>1, EntriesArePlaces DEF GroupAt
    <2>3. <<d, k>> = e \/ EntryBefore(e, <<d, k>>)
      BY <1>1, <2>2
    <2> QED  BY <1>1, <2>2, <2>3 DEF EntryBefore, Places
  <1> HIDE DEF D, id
  <1>5. e[1] = CHOOSE x \in D : \A y \in D : x =< y
    <2>1. ASSUME NEW x \in D, \A y \in D : x =< y PROVE x = e[1]
      <3>1. x \in Nat /\ e[1] \in Nat /\ x <= e[1] /\ e[1] <= x
        BY <1>2, <1>3, <1>4, <2>1
      <3> QED  BY <3>1
    <2> QED  BY <1>3, <1>4, <2>1
  <1> QED  BY <1>5 DEF Urgency, FSE!Min, D, id

\* The pass over the deadlines gives the priorities 1, 2, ... in their order.
LEMMA PrioritiesAreAssigned ==
    ASSUME MutexInv, DeadlinesOK, AssignPriorities,
           next_threadgroup_id <= UINT16_MOD
    PROVE  PrioritiesFollowDeadlines'
  <1> SUFFICES ASSUME ~retried PROVE PrioritiesFollowDeadlines'
    BY DEF AssignPriorities, PrioritiesFollowDeadlines, callVars
  <1> DEFINE tgs == DOMAIN threadgroup_callback_map
             F == FreshEntries
             r == [e \in F |->
                     Cardinality({f \in F : f = e \/ EntryBefore(f, e)})]
             n == next_threadgroup_id - 1
             fp(i) == threadgroup_callback_map'[i].fixed_priority
  <1>1. /\ phase = "callbacks" /\ UNCHANGED <<deadline_map, retried>>
        /\ DOMAIN threadgroup_callback_map' = tgs
        /\ \A id \in tgs : threadgroup_callback_map'[id] =
              IF \E e \in F : GroupAt(e) = id
                THEN [threadgroup_callback_map[id] EXCEPT !.fixed_priority =
                        Rank(CHOOSE e \in F : GroupAt(e) = id)]
                ELSE threadgroup_callback_map[id]
    BY DEF AssignPriorities, callVars
  <1>2. /\ n \in Nat /\ tgs = 1..n /\ n < UINT16_MOD
        /\ IsFiniteSet(tgs) /\ Cardinality(tgs) = n
    BY FS_Interval DEF MutexInv, IdsOK
  <1>3. /\ F \in SUBSET Places /\ IsFiniteSet(F) /\ Cardinality(F) = n
        /\ \A id \in tgs : \E e \in F : GroupAt(e) = id
        /\ \A e \in F : GroupAt(e) \in tgs
        /\ \A e, f \in F : GroupAt(e) = GroupAt(f) => e = f
    <2>1. F \subseteq DeadlineEntries
      BY DEF FreshEntries
    <2> QED
      BY <1>1, <2>1, FreshEntriesCount, EntriesArePlaces, EntriesAreOrdered
  <1>4. /\ r \in [F -> 1..n]
        /\ \A e, f \in F : EntryBefore(e, f) => r[e] < r[f]
        /\ \A k \in 1..n : \E e \in F : r[e] = k
    <2>1. r = [e \in F |-> Cardinality({f \in F : f = e \/ EntryBefore(f, e)})]
      OBVIOUS
    <2> HIDE DEF r, F, n
    <2> QED  BY <1>3, <2>1, RanksAreDense
  <1>5. \A e \in F : Rank(e) = r[e]
    <2>1. \A e \in F : r[e] \in 1..n
      BY <1>4
    <2>2. \A e \in F : Rank(e) = r[e] % UINT16_MOD
      BY DEF Rank
    <2> HIDE DEF r
    <2>3. \A x \in 1..n : x % UINT16_MOD = x
      BY <1>2
    <2> QED  BY <2>1, <2>2, <2>3
  <1> HIDE DEF r, F, n
  <1>6. ASSUME NEW e \in F PROVE fp(GroupAt(e)) = r[e]
    <2> DEFINE id == GroupAt(e)
    <2>1. id \in tgs /\ (CHOOSE f \in F : GroupAt(f) = id) = e
      BY <1>3
    <2>2. threadgroup_callback_map'[id] =
            [threadgroup_callback_map[id] EXCEPT !.fixed_priority = Rank(e)]
      BY <1>1, <2>1
    <2>3. threadgroup_callback_map[id] =
            [first_callback |-> threadgroup_callback_map[id].first_callback,
             fixed_priority |-> threadgroup_callback_map[id].fixed_priority,
             num_threads |-> threadgroup_callback_map[id].num_threads,
             is_mutex_group |-> threadgroup_callback_map[id].is_mutex_group]
      BY <2>1 DEF MutexInv, EntriesOK
    <2> QED  BY <1>5, <2>2, <2>3
  <1>7. {fp(i) : i \in tgs} = 1..Cardinality(tgs)
    <2>1. \A i \in tgs : fp(i) \in 1..n
      BY <1>3, <1>4, <1>6
    <2>2. \A k \in 1..n : \E i \in tgs : fp(i) = k
      BY <1>3, <1>4, <1>6
    <2> QED  BY <1>2, <2>1, <2>2
  <1>8. ASSUME NEW i \in tgs, NEW j \in tgs, Urgency(i) < Urgency(j)
        PROVE  fp(i) < fp(j)
    <2>1. PICK e \in F, f \in F : GroupAt(e) = i /\ GroupAt(f) = j
      BY <1>3
    <2>2. e[1] < f[1]
      BY <1>1, <1>8, <2>1, FreshEntriesAreUrgent DEF F
    <2>3. EntryBefore(e, f)
      BY <2>2 DEF EntryBefore
    <2> QED  BY <1>4, <1>6, <2>1, <2>3
  <1>9. \A i : Urgency(i)' = Urgency(i)
    BY <1>1 DEF Urgency
  <1> QED
    BY <1>1, <1>7, <1>8, <1>9 DEF PrioritiesFollowDeadlines

-----------------------------------------------------------------------------
(***************************************************************************)
(* A visit of recursive_callback_traversal                                 *)
(***************************************************************************)

\* What VisitCallback looks at.
Call  == Head(stack)
Cb    == Call.callback
Known == KnownMutexGroup(callback_map[Cb].group)
Opens == OpensGroup(Call, callback_map[Cb].group \in MutexGroups)
New   == IF Known THEN mutex_threadgroup_map[callback_map[Cb].group]
                  ELSE next_threadgroup_id
Rest  == IF Call.threadgroup_id = 0 THEN New ELSE Call.threadgroup_id
Due   == adjacency_list[Cb].min_deadline

\* The calls that a visited callback makes go to its successors, with its own
\* thread group or none, and with its own or its predecessor's before.
LEMMA CallsToSuccessors ==
    ASSUME NEW S, IsFiniteSet(S), NEW order \in SE!SetToSeqs(S),
           NEW tg, NEW prev
    PROVE  /\ CallsOfSuccessors(order, tg, prev) \in
                Seq([callback : S, threadgroup_id : {0, tg},
                     prev_threadgroup_id : {prev, tg}])
           /\ CallsOfSuccessors(order, tg, prev) # << >> => S # {}
  <1> DEFINE m == Cardinality(S)
             C == [callback : S, threadgroup_id : {0, tg},
                   prev_threadgroup_id : {prev, tg}]
  <1>1. m \in Nat /\ order \in [1..m -> S]
    <2>1. m \in Nat
      BY FS_CardinalityType
    <2>2. SE!Cardinality(S) = Cardinality(S)
      BY Zenon DEF SE!Cardinality, Cardinality
    <2>3. order \in [1..SE!Cardinality(S) -> S]
      BY Zenon DEF SE!SetToSeqs
    <2> QED  BY <2>1, <2>2, <2>3
  <1> HIDE DEF m
  <1>2. order \in Seq(S) /\ Len(order) = m
    BY <1>1
  <1>3. CASE order = << >>
    BY <1>3 DEF CallsOfSuccessors
  <1>4. CASE order # << >>
    <2>1. order[1] \in S /\ S # {}
      BY <1>2, <1>4
    <2>2. CASE adjacency_list[order[1]].indegree = 1
      <3>1. CallsOfSuccessors(order, tg, prev) = <<CallbackCall(order[1], tg, prev)>>
        BY <1>4, <2>2 DEF CallsOfSuccessors
      <3>2. CallbackCall(order[1], tg, prev) \in C
        BY <2>1 DEF CallbackCall
      <3> QED  BY <2>1, <3>1, <3>2
    <2>3. CASE adjacency_list[order[1]].indegree # 1
      <3>1. CallsOfSuccessors(order, tg, prev)
              = [i \in 1..m |-> CallbackCall(order[i], 0, tg)]
        BY <1>1, <1>4, <2>3 DEF CallsOfSuccessors
      <3>2. \A i \in 1..m : CallbackCall(order[i], 0, tg) \in C
        BY <1>1 DEF CallbackCall
      <3>3. [i \in 1..m |-> CallbackCall(order[i], 0, tg)] \in [1..m -> C]
        BY <3>2
      <3> QED  BY <1>1, <2>1, <3>1, <3>3
    <2> QED  BY <2>2, <2>3
  <1> QED  BY <1>3, <1>4

LEMMA VisitReads ==
    ASSUME MutexInv, TraversalInv, VisitCallback
    PROVE  /\ stack \in Seq(Calls) /\ stack # << >> /\ Tail(stack) \in Seq(Calls)
           /\ Call \in Calls /\ Cb \in DOMAIN adjacency_list
           /\ Cb \in DOMAIN callback_map
           /\ next_threadgroup_id \in Nat \ {0}
           /\ DOMAIN threadgroup_callback_map = 1..(next_threadgroup_id - 1)
           /\ Known => /\ New \in 1..(next_threadgroup_id - 1)
                       /\ threadgroup_callback_map[New].is_mutex_group
           /\ ~Known => New = next_threadgroup_id
           /\ Call.threadgroup_id = 0 => Opens
           /\ next_threadgroup_id' = IF Opens /\ ~Known
                                       THEN next_threadgroup_id + 1
                                       ELSE next_threadgroup_id
  <1>1. stack \in Seq(Calls) /\ stack # << >>
    BY DEF VisitCallback, TraversalInv, PendingOK
  <1>2. Call \in Calls /\ Tail(stack) \in Seq(Calls)
    BY <1>1 DEF Call
  <1>3. Cb \in DOMAIN adjacency_list
    BY <1>2 DEF Cb, Calls
  <1>4. /\ next_threadgroup_id \in Nat \ {0}
        /\ DOMAIN threadgroup_callback_map = 1..(next_threadgroup_id - 1)
    BY DEF MutexInv, IdsOK
  <1>5. Known => /\ New \in 1..(next_threadgroup_id - 1)
                 /\ threadgroup_callback_map[New].is_mutex_group
    BY <1>4 DEF MutexInv, MutexMapOK, Known, New, KnownMutexGroup
  <1>6. ~Known => New = next_threadgroup_id
    BY DEF New
  <1>7. Call.threadgroup_id = 0 => Opens
    BY DEF Opens, OpensGroup
  <1>8. /\ Cb \in DOMAIN callback_map
        /\ next_threadgroup_id' = IF Opens /\ ~Known
                                    THEN next_threadgroup_id + 1
                                    ELSE next_threadgroup_id
    BY DEF VisitCallback, DrawId, Cb, Call, Opens, Known
  <1> QED  BY <1>1, <1>2, <1>3, <1>4, <1>5, <1>6, <1>7, <1>8

LEMMA VisitWrites ==
    ASSUME MutexInv, TraversalInv, VisitCallback
    PROVE  /\ UNCHANGED <<input, phase, retried, chainsLeft, adjacency_list,
                          rootsLeft, timing_export>>
           /\ callback_map' = [callback_map EXCEPT ![Cb].threadgroup_id =
                 IF Opens THEN New ELSE Call.threadgroup_id]
           /\ threadgroup_callback_map' =
                IF Opens /\ ~Known
                  THEN Put(threadgroup_callback_map, New,
                           ThreadGroupInfo(Cb,
                             callback_map[Cb].group \in MutexGroups))
                  ELSE threadgroup_callback_map
           /\ deadline_map' =
                IF Opens THEN Put(deadline_map, Due,
                                  Append(Get(deadline_map, Due, << >>), New))
                         ELSE deadline_map
           /\ threadgroup_adjacency_list' =
                IF Call.threadgroup_id = 0 /\ Call.prev_threadgroup_id # 0
                  THEN AddEdge(Call.prev_threadgroup_id, New)
                  ELSE threadgroup_adjacency_list
           /\ \E order \in SE!SetToSeqs(adjacency_list[Cb].outgoing) :
                stack' = CallsOfSuccessors(order, Rest, Call.prev_threadgroup_id)
                           \o Tail(stack)
  BY DEF VisitCallback, callVars, Call, Cb, Known, Opens, New, Rest, Due

\* Where the traversal goes on.
LEMMA VisitPushes ==
    ASSUME MutexInv, TraversalInv, VisitCallback
    PROVE  \E C \in Seq([callback : DOMAIN adjacency_list,
                         threadgroup_id : {0, Rest},
                         prev_threadgroup_id : {Call.prev_threadgroup_id, Rest}]) :
              /\ stack' = C \o Tail(stack)
              /\ C # << >> => adjacency_list[Cb].outgoing # {}
  <1> DEFINE S == adjacency_list[Cb].outgoing
  <1>1. IsFiniteSet(S) /\ S \subseteq DOMAIN adjacency_list
    BY VisitReads DEF TraversalInv, AdjacencyOK
  <1>2. PICK order \in SE!SetToSeqs(S) :
          stack' = CallsOfSuccessors(order, Rest, Call.prev_threadgroup_id)
                     \o Tail(stack)
    BY VisitWrites
  <1> DEFINE C == CallsOfSuccessors(order, Rest, Call.prev_threadgroup_id)
             T == [callback : S, threadgroup_id : {0, Rest},
                   prev_threadgroup_id : {Call.prev_threadgroup_id, Rest}]
             U == [callback : DOMAIN adjacency_list, threadgroup_id : {0, Rest},
                   prev_threadgroup_id : {Call.prev_threadgroup_id, Rest}]
  <1>3. C \in Seq(T) /\ (C # << >> => S # {})
    BY <1>1, CallsToSuccessors
  <1>4. T \subseteq U
    BY <1>1
  <1> HIDE DEF C, T, U
  <1>5. C \in Seq(U)
    BY <1>3, <1>4
  <1> QED  BY <1>2, <1>3, <1>5 DEF C, U

LEMMA LargerSeq ==
    ASSUME NEW S, NEW T, S \subseteq T, NEW s \in Seq(S)
    PROVE  s \in Seq(T)
  <1>1. Len(s) \in Nat /\ s \in [1..Len(s) -> S]
    OBVIOUS
  <1>2. s \in [1..Len(s) -> T]
    BY <1>1
  <1> QED  BY <1>1, <1>2

LEMMA EmptySeq == \A S : << >> \in Seq(S)
  OBVIOUS

\* The ids that a visit uses have been drawn when it is over.
LEMMA VisitIds ==
    ASSUME MutexInv, TraversalInv, VisitCallback
    PROVE  /\ Ids \subseteq Ids' /\ Calls \subseteq Calls'
           /\ Opens => New \in 1..(next_threadgroup_id' - 1)
           /\ Call.threadgroup_id \in Ids /\ Call.prev_threadgroup_id \in Ids
           /\ Rest \in Ids'
  <1>1. /\ next_threadgroup_id \in Nat \ {0}
        /\ next_threadgroup_id' \in {next_threadgroup_id, next_threadgroup_id + 1}
        /\ Opens /\ ~Known => next_threadgroup_id' = next_threadgroup_id + 1
        /\ Known => New \in 1..(next_threadgroup_id - 1)
        /\ ~Known => New = next_threadgroup_id
        /\ Call.threadgroup_id = 0 => Opens
    BY VisitReads
  <1>2. Ids \subseteq Ids'
    <2>1. PICK m, n : m = next_threadgroup_id /\ n = next_threadgroup_id'
      OBVIOUS
    <2>2. m \in Nat \ {0} /\ n \in {m, m + 1}
      BY <1>1, <2>1
    <2>3. 0..(m - 1) \subseteq 0..(n - 1)
      BY <2>2
    <2> QED  BY <2>1, <2>3 DEF Ids
  <1>3. Calls \subseteq Calls'
    BY <1>2, VisitWrites DEF Calls
  <1>4. Opens => New \in 1..(next_threadgroup_id' - 1)
    BY <1>1
  <1>5. Call.threadgroup_id \in Ids /\ Call.prev_threadgroup_id \in Ids
    BY VisitReads DEF Calls
  <1>6. Rest \in Ids'
    <2>1. CASE Call.threadgroup_id = 0
      BY <1>1, <1>4, <2>1 DEF Rest, Ids
    <2>2. CASE Call.threadgroup_id # 0
      BY <1>2, <1>5, <2>2 DEF Rest
    <2> QED  BY <2>1, <2>2
  <1> QED  BY <1>2, <1>3, <1>4, <1>5, <1>6

LEMMA VisitKeepsTraversal ==
    ASSUME MutexInv, TraversalInv, VisitCallback
    PROVE  TraversalInv'
  <1>1. AdjacencyOK'
    BY VisitWrites DEF TraversalInv, AdjacencyOK
  <1>2. /\ DOMAIN callback_map' = DOMAIN callback_map
        /\ \A n \in DOMAIN callback_map :
             /\ callback_map'[n].entity = callback_map[n].entity
             /\ callback_map'[n].threadgroup_id
                  \in {callback_map[n].threadgroup_id, Call.threadgroup_id}
                        \cup (IF Opens THEN {New} ELSE {})
    <2>1. callback_map[Cb] = [entity |-> callback_map[Cb].entity,
                              group |-> callback_map[Cb].group,
                              threadgroup_id |-> callback_map[Cb].threadgroup_id]
      BY VisitReads DEF MutexInv, EntriesOK
    <2> DEFINE mine == IF Opens THEN New ELSE Call.threadgroup_id
    <2>2. /\ Cb \in DOMAIN callback_map
          /\ callback_map' = [callback_map EXCEPT ![Cb].threadgroup_id = mine]
          /\ mine \in {Call.threadgroup_id} \cup (IF Opens THEN {New} ELSE {})
      BY VisitReads, VisitWrites
    <2> HIDE DEF mine
    <2>3. /\ DOMAIN callback_map' = DOMAIN callback_map
          /\ \A n \in DOMAIN callback_map : n # Cb =>
                callback_map'[n] = callback_map[n]
          /\ callback_map'[Cb].entity = callback_map[Cb].entity
          /\ callback_map'[Cb].threadgroup_id = mine
      BY <2>1, <2>2
    <2> QED  BY <2>2, <2>3
  <1>3. NamesOK'
    BY <1>2, VisitWrites DEF TraversalInv, NamesOK
  <1>4. AssignedOK'
    <2>1. (IF Opens THEN {New} ELSE {}) \subseteq Ids'
      BY VisitIds DEF Ids
    <2> QED  BY <1>2, <2>1, VisitIds DEF TraversalInv, AssignedOK
  <1>5. PendingOK'
    <2>1. PICK C \in Seq([callback : DOMAIN adjacency_list,
                          threadgroup_id : {0, Rest},
                          prev_threadgroup_id : {Call.prev_threadgroup_id, Rest}]) :
             stack' = C \o Tail(stack)
      BY VisitPushes
    <2>2. 0 \in Ids' /\ Call.prev_threadgroup_id \in Ids' /\ Rest \in Ids'
      BY VisitIds, VisitReads DEF Ids
    <2>3. [callback : DOMAIN adjacency_list, threadgroup_id : {0, Rest},
           prev_threadgroup_id : {Call.prev_threadgroup_id, Rest}] \subseteq Calls'
      BY <2>2, VisitWrites DEF Calls
    <2>4. C \in Seq(Calls') /\ Tail(stack) \in Seq(Calls')
      BY <2>1, <2>3, VisitReads, VisitIds, LargerSeq
    <2>5. stack' \in Seq(Calls')
      BY <2>1, <2>4
    <2>6. rootsLeft' \subseteq DOMAIN adjacency_list'
      BY VisitWrites DEF TraversalInv, PendingOK, VisitCallback
    <2> QED  BY <2>5, <2>6 DEF PendingOK
  <1>6. StartsEmpty'
    BY VisitWrites DEF VisitCallback, StartsEmpty
  <1> QED  BY <1>1, <1>3, <1>4, <1>5, <1>6 DEF TraversalInv

\* A thread group that a visit opens is entered under its deadline.
LEMMA VisitKeepsDeadlines ==
    ASSUME MutexInv, TraversalInv, DeadlinesOK, VisitCallback
    PROVE  DeadlinesOK'
  <1>1. /\ phase = "callbacks" /\ next_threadgroup_id \in Nat \ {0}
        /\ DOMAIN threadgroup_callback_map = 1..(next_threadgroup_id - 1)
        /\ DOMAIN deadline_map \subseteq Nat
        /\ \A d \in DOMAIN deadline_map :
             deadline_map[d] \in Seq(1..(next_threadgroup_id - 1))
    BY VisitReads DEF VisitCallback, DeadlinesOK
  <1>2. 1..(next_threadgroup_id - 1) \subseteq 1..(next_threadgroup_id' - 1)
    BY <1>1, VisitReads
  <1>5. \A d \in DOMAIN deadline_map :
           deadline_map[d] \in Seq(1..(next_threadgroup_id' - 1))
    BY <1>1, <1>2, LargerSeq, Zenon
  <1>3. CASE ~Opens
    BY <1>1, <1>3, VisitReads, VisitWrites
       DEF DeadlinesOK, DeadlineEntries, GroupAt
  <1>4. CASE Opens
    <2> DEFINE old == Get(deadline_map, Due, << >>)
    <2>1. Due \in Nat
      BY VisitReads DEF TraversalInv, AdjacencyOK, Due
    <2>2. old \in Seq(1..(next_threadgroup_id' - 1))
      <3>1. CASE Due \in DOMAIN deadline_map
        BY <1>5, <3>1 DEF Get
      <3>2. CASE Due \notin DOMAIN deadline_map
        <4>1. old = << >>
          BY <3>2 DEF Get
        <4> QED  BY <4>1, EmptySeq
      <3> QED  BY <3>1, <3>2
    <2>3. /\ Append(old, New) \in Seq(1..(next_threadgroup_id' - 1))
          /\ \A k \in DOMAIN old : k \in DOMAIN Append(old, New)
                                   /\ Append(old, New)[k] = old[k]
          /\ Len(old) + 1 \in DOMAIN Append(old, New)
          /\ Append(old, New)[Len(old) + 1] = New
      <3>1. New \in 1..(next_threadgroup_id' - 1)
        BY <1>4, VisitIds
      <3> HIDE DEF old
      <3> QED  BY <2>2, <3>1
    <2>4. /\ DOMAIN deadline_map' = DOMAIN deadline_map \cup {Due}
          /\ deadline_map'[Due] = Append(old, New)
          /\ \A d \in DOMAIN deadline_map \ {Due} : deadline_map'[d] = deadline_map[d]
          /\ Due \in DOMAIN deadline_map => deadline_map[Due] = old
      BY <1>4, VisitWrites DEF Put, Get
    <2> HIDE DEF old
    <2>5. DOMAIN deadline_map' \subseteq Nat
      BY <1>1, <2>1, <2>4
    <2>6. \A d \in DOMAIN deadline_map' :
             deadline_map'[d] \in Seq(1..(next_threadgroup_id' - 1))
      BY <1>5, <2>3, <2>4
    <2>7. \A d \in DOMAIN deadline_map' : \A k \in DOMAIN deadline_map'[d] :
             <<d, k>> \in DeadlineEntries'
      BY DEF DeadlineEntries
    <2>8. ASSUME NEW e \in DeadlineEntries
          PROVE  e \in DeadlineEntries' /\ GroupAt(e)' = GroupAt(e)
      <3>1. PICK d \in DOMAIN deadline_map :
              \E k \in DOMAIN deadline_map[d] : e = <<d, k>>
        BY DEF DeadlineEntries
      <3>2. PICK k \in DOMAIN deadline_map[d] : e = <<d, k>>
        BY <3>1
      <3>3. /\ d \in DOMAIN deadline_map' /\ k \in DOMAIN deadline_map'[d]
            /\ deadline_map'[d][k] = deadline_map[d][k]
        BY <2>3, <2>4
      <3> QED  BY <2>7, <3>2, <3>3 DEF GroupAt
    <2>9. \E e \in DeadlineEntries' : GroupAt(e)' = New
      <3>1. PICK d, k : d = Due /\ k = Len(old) + 1
        OBVIOUS
      <3>2. <<d, k>> \in DeadlineEntries' /\ deadline_map'[d][k] = New
        BY <2>3, <2>4, <2>7, <3>1
      <3>3. GroupAt(<<d, k>>)' = New
        BY <3>2 DEF GroupAt
      <3> QED  BY <3>2, <3>3
    <2>10. ASSUME ~retried, NEW id \in DOMAIN threadgroup_callback_map'
           PROVE  /\ threadgroup_callback_map'[id].fixed_priority = 0
                  /\ \E e \in DeadlineEntries' : GroupAt(e)' = id
      <3>1. CASE id \in DOMAIN threadgroup_callback_map
        <4>1. threadgroup_callback_map'[id] = threadgroup_callback_map[id]
          BY <1>1, <3>1, VisitReads, VisitWrites DEF Put
        <4>2. threadgroup_callback_map[id].fixed_priority = 0
          BY <1>1, <2>10, <3>1 DEF DeadlinesOK
        <4>3. PICK e \in DeadlineEntries : GroupAt(e) = id
          BY <1>1, <2>10, <3>1 DEF DeadlinesOK
        <4> QED  BY <2>8, <4>1, <4>2, <4>3
      <3>2. CASE id \notin DOMAIN threadgroup_callback_map
        <4>1. /\ id = New
              /\ threadgroup_callback_map'[id] =
                   ThreadGroupInfo(Cb, callback_map[Cb].group \in MutexGroups)
          BY <3>2, VisitWrites DEF Put
        <4> QED  BY <2>9, <4>1 DEF ThreadGroupInfo
      <3> QED  BY <3>1, <3>2
    <2> QED
      BY <2>5, <2>6, <2>10, VisitWrites DEF DeadlinesOK
  <1> QED  BY <1>3, <1>4

\* What entering an edge changes.
EntersEdge(from, to) ==
    /\ DOMAIN threadgroup_adjacency_list' =
         DOMAIN threadgroup_adjacency_list \cup {from, to}
    /\ \A id \in DOMAIN threadgroup_adjacency_list' :
         threadgroup_adjacency_list'[id] =
           [outgoing |-> Get(threadgroup_adjacency_list, id, NoEdges).outgoing
                           \cup (IF id = from THEN {to} ELSE {}),
            incoming |-> Get(threadgroup_adjacency_list, id, NoEdges).incoming
                           \cup (IF id = to THEN {from} ELSE {})]

LEMMA EdgeEntered ==
    ASSUME NEW from, NEW to,
           \A id \in DOMAIN threadgroup_adjacency_list :
             threadgroup_adjacency_list[id] =
               [outgoing |-> threadgroup_adjacency_list[id].outgoing,
                incoming |-> threadgroup_adjacency_list[id].incoming],
           threadgroup_adjacency_list' = AddEdge(from, to)
    PROVE  EntersEdge(from, to)
  <1> DEFINE A == threadgroup_adjacency_list
             B == Put(A, from, [Get(A, from, NoEdges)
                                  EXCEPT !.outgoing = @ \cup {to}])
             old(id) == Get(A, id, NoEdges)
  <1>1. \A id : old(id) = [outgoing |-> old(id).outgoing,
                           incoming |-> old(id).incoming]
    BY DEF Get, NoEdges
  <1>2. \A id \in DOMAIN A : A[id] = old(id)
    BY DEF Get
  <1>3. threadgroup_adjacency_list' =
          Put(B, to, [Get(B, to, NoEdges) EXCEPT !.incoming = @ \cup {from}])
    BY DEF AddEdge
  <1> HIDE DEF old
  <1>4. /\ DOMAIN B = DOMAIN A \cup {from}
        /\ \A id \in DOMAIN A \ {from} : B[id] = old(id)
        /\ B[from] = [outgoing |-> old(from).outgoing \cup {to},
                      incoming |-> old(from).incoming]
    <2>1. B = Put(A, from, [old(from) EXCEPT !.outgoing = @ \cup {to}])
      BY DEF old
    <2>2. [old(from) EXCEPT !.outgoing = @ \cup {to}] =
            [outgoing |-> old(from).outgoing \cup {to},
             incoming |-> old(from).incoming]
      BY <1>1
    <2> HIDE DEF A, B
    <2> QED  BY <1>2, <2>1, <2>2 DEF Put
  <1> HIDE DEF B
  <1>5. Get(B, to, NoEdges) =
          [outgoing |-> old(to).outgoing \cup (IF to = from THEN {to} ELSE {}),
           incoming |-> old(to).incoming]
    <2>1. CASE to = from
      BY <1>4, <2>1 DEF Get
    <2>2. CASE to # from
      <3>1. Get(B, to, NoEdges) = old(to)
        BY <1>4, <2>2 DEF Get, old
      <3>2. old(to) = [outgoing |-> old(to).outgoing \cup {},
                       incoming |-> old(to).incoming]
        BY <1>1
      <3> QED  BY <2>2, <3>1, <3>2
    <2> QED  BY <2>1, <2>2
  <1>6. [Get(B, to, NoEdges) EXCEPT !.incoming = @ \cup {from}] =
          [outgoing |-> old(to).outgoing \cup (IF to = from THEN {to} ELSE {}),
           incoming |-> old(to).incoming \cup {from}]
    BY <1>5
  <1>7. /\ DOMAIN threadgroup_adjacency_list' = DOMAIN B \cup {to}
        /\ \A id \in DOMAIN B \ {to} : threadgroup_adjacency_list'[id] = B[id]
        /\ threadgroup_adjacency_list'[to] =
             [outgoing |-> old(to).outgoing \cup (IF to = from THEN {to} ELSE {}),
              incoming |-> old(to).incoming \cup {from}]
    BY <1>3, <1>6 DEF Put
  <1>8. DOMAIN threadgroup_adjacency_list' = DOMAIN A \cup {from, to}
    BY <1>4, <1>7
  <1>9. ASSUME NEW id \in DOMAIN A \cup {from, to}
        PROVE  threadgroup_adjacency_list'[id] =
                 [outgoing |-> old(id).outgoing
                                 \cup (IF id = from THEN {to} ELSE {}),
                  incoming |-> old(id).incoming
                                 \cup (IF id = to THEN {from} ELSE {})]
    <2>1. CASE id = to
      BY <1>7, <2>1
    <2>2. CASE id # to /\ id = from
      <3>1. threadgroup_adjacency_list'[id] =
              [outgoing |-> old(id).outgoing \cup {to},
               incoming |-> old(id).incoming]
        BY <1>4, <1>7, <2>2
      <3>2. old(id).incoming = old(id).incoming \cup {}
        OBVIOUS
      <3> QED  BY <2>2, <3>1, <3>2
    <2>3. CASE id # to /\ id # from
      <3>1. threadgroup_adjacency_list'[id] = old(id)
        BY <1>4, <1>7, <2>3
      <3>2. /\ old(id).incoming = old(id).incoming \cup {}
            /\ old(id).outgoing = old(id).outgoing \cup {}
        OBVIOUS
      <3> QED  BY <1>1, <2>3, <3>1, <3>2
    <2> QED  BY <2>1, <2>2, <2>3
  <1> QED  BY <1>8, <1>9 DEF old, EntersEdge

LEMMA VisitKeepsEdges ==
    ASSUME MutexInv, TraversalInv, EdgesOK, VisitCallback
    PROVE  EdgesOK'
  <1> DEFINE tgs == DOMAIN threadgroup_callback_map
             prev == Call.prev_threadgroup_id
  <1>1. /\ phase = "callbacks" /\ phase' = phase
        /\ next_threadgroup_id \in Nat \ {0} /\ tgs = 1..(next_threadgroup_id - 1)
        /\ adjacency_list' = adjacency_list
    BY VisitReads, VisitWrites DEF VisitCallback
  \* Thread groups that are there stay as they are.
  <1>2. /\ tgs \subseteq DOMAIN threadgroup_callback_map'
        /\ \A id \in tgs :
             threadgroup_callback_map'[id] = threadgroup_callback_map[id]
        /\ \A id \in DOMAIN threadgroup_callback_map' \ tgs :
             /\ id = New /\ Opens /\ ~Known
             /\ threadgroup_callback_map'[id].first_callback = Cb
    <2>1. ThreadGroupInfo(Cb, callback_map[Cb].group \in MutexGroups).first_callback
            = Cb
      BY DEF ThreadGroupInfo
    <2> QED  BY <1>1, <2>1, VisitReads, VisitWrites DEF Put
  <1>3. Opens => New \in DOMAIN threadgroup_callback_map'
    BY <1>1, <1>2, VisitReads, VisitWrites DEF Put
  <1>4. ASSUME NEW id \in tgs, Continues(id) PROVE Continues(id)'
    BY <1>1, <1>2, <1>4 DEF Continues
  <1>5. \A id \in DOMAIN threadgroup_callback_map' :
          threadgroup_callback_map'[id].first_callback \in DOMAIN adjacency_list'
    BY <1>1, <1>2, VisitReads DEF EdgesOK
  \* The group that the visited callback belongs to goes on.
  <1>6. ASSUME adjacency_list[Cb].outgoing # {}, Rest # 0
        PROVE  \A id : id = Rest => Continues(id)'
    <2>1. CASE Call.threadgroup_id # 0
      <3>1. Rest = Call.threadgroup_id /\ Rest \in tgs
        BY <1>1, <2>1, VisitIds DEF Rest, Ids
      <3>2. \A id : id = Rest => Continues(id)
        BY <1>1, <2>1, <3>1, VisitReads DEF EdgesOK, Call
      <3> QED  BY <1>4, <3>1, <3>2
    <2>2. CASE Call.threadgroup_id = 0 /\ Known
      <3>1. Rest = New /\ New \in tgs /\ threadgroup_callback_map[New].is_mutex_group
        BY <1>1, <2>2, VisitReads DEF Rest
      <3> QED  BY <1>2, <3>1 DEF Continues
    <2>3. CASE Call.threadgroup_id = 0 /\ ~Known
      <3>1. Rest = New /\ New \in DOMAIN threadgroup_callback_map' \ tgs
        BY <1>1, <1>3, <2>3, VisitReads DEF Rest
      <3> QED  BY <1>1, <1>2, <1>6, <3>1 DEF Continues
    <2> QED  BY <2>1, <2>2, <2>3
  <1>7. prev # 0 => prev \in tgs /\ \A id : id = prev => Continues(id)'
    <2>1. prev # 0 => prev \in tgs
      BY <1>1, VisitIds DEF Ids
    <2>2. prev # 0 => \A id : id = prev => Continues(id)
      BY <1>1, VisitReads DEF EdgesOK, Call
    <2> QED  BY <1>4, <2>1, <2>2
  <1>8. ASSUME NEW i \in DOMAIN stack'
        PROVE  /\ stack'[i].threadgroup_id # 0 =>
                    Continues(stack[i].threadgroup_id)'
               /\ stack'[i].prev_threadgroup_id # 0 =>
                    Continues(stack[i].prev_threadgroup_id)'
    <2>1. PICK C \in Seq([callback : DOMAIN adjacency_list,
                          threadgroup_id : {0, Rest},
                          prev_threadgroup_id : {prev, Rest}]) :
             /\ stack' = C \o Tail(stack)
             /\ C # << >> => adjacency_list[Cb].outgoing # {}
      BY VisitPushes
    <2>2. PICK call : call = stack'[i]
      OBVIOUS
    <2>3. \/ i \in DOMAIN C /\ call = C[i]
          \/ \E j \in DOMAIN stack : call = stack[j]
      <3>1. stack \in Seq(Calls) /\ stack # << >>
        BY VisitReads
      <3>2. /\ Tail(stack) \in Seq(Calls) /\ Len(Tail(stack)) = Len(stack) - 1
            /\ \A k \in 1..Len(Tail(stack)) :
                 Tail(stack)[k] = stack[k + 1] /\ k + 1 \in DOMAIN stack
        BY <3>1
      <3>3. CASE i \in DOMAIN C
        BY <2>1, <2>2, <3>2, <3>3
      <3>4. CASE i \notin DOMAIN C
        <4>1. /\ i - Len(C) \in 1..Len(Tail(stack))
              /\ stack'[i] = Tail(stack)[i - Len(C)]
          BY <2>1, <3>2, <3>4
        <4> QED  BY <2>2, <3>2, <4>1
      <3> QED  BY <3>3, <3>4
    <2>4. /\ \A id : id = call.threadgroup_id /\ id # 0 => Continues(id)'
          /\ \A id : id = call.prev_threadgroup_id /\ id # 0 => Continues(id)'
      <3>1. CASE i \in DOMAIN C /\ call = C[i]
        <4>1. /\ call.threadgroup_id \in {0, Rest}
              /\ call.prev_threadgroup_id \in {prev, Rest}
              /\ adjacency_list[Cb].outgoing # {}
          <5> DEFINE T == [callback : DOMAIN adjacency_list,
                           threadgroup_id : {0, Rest},
                           prev_threadgroup_id : {prev, Rest}]
          <5>1. call \in T
            <6>1. C \in Seq(T)
              BY <2>1
            <6> HIDE DEF T
            <6> QED  BY <3>1, <6>1
          <5>2. C # << >>
            BY <3>1
          <5> QED  BY <2>1, <5>1, <5>2
        <4> QED  BY <1>6, <1>7, <4>1
      <3>2. ASSUME NEW j \in DOMAIN stack, call = stack[j]
            PROVE  /\ \A id : id = call.threadgroup_id /\ id # 0 => Continues(id)'
                   /\ \A id : id = call.prev_threadgroup_id /\ id # 0
                                => Continues(id)'
        <4>1. /\ call.threadgroup_id \in Ids /\ call.prev_threadgroup_id \in Ids
          <5>1. call \in Calls
            BY <3>2, VisitReads
          <5> QED  BY <5>1 DEF Calls
        <4>2. \A id \in Ids : id # 0 => id \in tgs
          BY <1>1 DEF Ids
        <4>3. /\ \A id : id = call.threadgroup_id /\ id # 0 => Continues(id)
              /\ \A id : id = call.prev_threadgroup_id /\ id # 0 => Continues(id)
          BY <1>1, <3>2 DEF EdgesOK
        <4> QED  BY <1>4, <4>1, <4>2, <4>3
      <3> QED  BY <2>3, <3>1, <3>2
    <2> QED  BY <2>2, <2>4
  <1>9. ASSUME NEW id \in DOMAIN threadgroup_adjacency_list
        PROVE  /\ id \in tgs
               /\ threadgroup_adjacency_list[id] =
                    [outgoing |-> threadgroup_adjacency_list[id].outgoing,
                     incoming |-> threadgroup_adjacency_list[id].incoming]
               /\ threadgroup_adjacency_list[id].incoming \subseteq tgs
               /\ threadgroup_adjacency_list[id].incoming = {} =>
                    threadgroup_adjacency_list[id].outgoing # {}
               /\ threadgroup_adjacency_list[id].outgoing # {} => Continues(id)'
    BY <1>4 DEF EdgesOK
  <1> DEFINE Fine(id) ==
        /\ id \in DOMAIN threadgroup_callback_map'
        /\ threadgroup_adjacency_list'[id] =
             [outgoing |-> threadgroup_adjacency_list'[id].outgoing,
              incoming |-> threadgroup_adjacency_list'[id].incoming]
        /\ threadgroup_adjacency_list'[id].incoming
             \subseteq DOMAIN threadgroup_callback_map'
        /\ threadgroup_adjacency_list'[id].incoming = {} =>
             threadgroup_adjacency_list'[id].outgoing # {}
        /\ threadgroup_adjacency_list'[id].outgoing # {} => Continues(id)'
  <1>10. \A id \in DOMAIN threadgroup_adjacency_list' : Fine(id)
    <2>1. CASE threadgroup_adjacency_list' = threadgroup_adjacency_list
      BY <1>2, <1>9, <2>1
    <2>2. CASE /\ Call.threadgroup_id = 0 /\ prev # 0
               /\ threadgroup_adjacency_list' = AddEdge(prev, New)
      <3>1. PICK from, to : from = prev /\ to = New
        OBVIOUS
      <3>2. /\ from \in tgs /\ to \in DOMAIN threadgroup_callback_map'
            /\ Continues(from)'
        BY <1>3, <1>7, <2>2, <3>1, VisitReads
      <3>3. EntersEdge(from, to)
        <4>1. /\ threadgroup_adjacency_list' = AddEdge(from, to)
              /\ \A id \in DOMAIN threadgroup_adjacency_list :
                   threadgroup_adjacency_list[id] =
                     [outgoing |-> threadgroup_adjacency_list[id].outgoing,
                      incoming |-> threadgroup_adjacency_list[id].incoming]
          BY <1>9, <2>2, <3>1
        <4> QED  BY <4>1, EdgeEntered
      <3>5. DOMAIN threadgroup_adjacency_list' =
              DOMAIN threadgroup_adjacency_list \cup {from, to}
        BY <3>3 DEF EntersEdge
      <3>4. ASSUME NEW id \in DOMAIN threadgroup_adjacency_list' PROVE Fine(id)
        <4> DEFINE old == Get(threadgroup_adjacency_list, id, NoEdges)
                   now == threadgroup_adjacency_list'[id]
        <4>1. /\ old.incoming \subseteq tgs
              /\ old.outgoing # {} => Continues(id)'
              /\ old.incoming = {} /\ old.outgoing = {} => id \in {from, to}
          <5>1. CASE id \in DOMAIN threadgroup_adjacency_list
            BY <1>9, <5>1 DEF Get
          <5>2. CASE id \notin DOMAIN threadgroup_adjacency_list
            BY <3>5, <5>2 DEF Get, NoEdges
          <5> QED  BY <5>1, <5>2
        <4>2. id \in DOMAIN threadgroup_callback_map'
          BY <1>2, <1>9, <3>2, <3>5
        <4> HIDE DEF old
        <4>3. /\ now = [outgoing |-> now.outgoing, incoming |-> now.incoming]
              /\ now.outgoing = old.outgoing \cup (IF id = from THEN {to} ELSE {})
              /\ now.incoming = old.incoming \cup (IF id = to THEN {from} ELSE {})
          <5> DEFINE o == old.outgoing \cup (IF id = from THEN {to} ELSE {})
                     i == old.incoming \cup (IF id = to THEN {from} ELSE {})
          <5>1. now = [outgoing |-> o, incoming |-> i]
            BY <3>3, Zenon DEF old, EntersEdge
          <5> HIDE DEF o, i, now
          <5>2. /\ now = [outgoing |-> now.outgoing, incoming |-> now.incoming]
                /\ now.outgoing = o /\ now.incoming = i
            BY <5>1
          <5> QED  BY <5>2 DEF o, i
        <4> HIDE DEF now
        <4>4. /\ now.incoming \subseteq DOMAIN threadgroup_callback_map'
              /\ now.incoming = {} => now.outgoing # {}
              /\ now.outgoing # {} => Continues(id)'
          BY <1>2, <3>2, <4>1, <4>3
        <4> QED  BY <4>2, <4>3, <4>4 DEF now
      <3> QED  BY <3>4
    <2> QED  BY <2>1, <2>2, VisitWrites
  <1> QED  BY <1>1, <1>5, <1>8, <1>10 DEF EdgesOK

-----------------------------------------------------------------------------
(***************************************************************************)
(* The other steps                                                         *)
(***************************************************************************)

RegistryInv == MutexInv /\ TraversalInv /\ DeadlinesOK /\ EdgesOK

LEMMA RegistryInit == Init => RegistryInv
  <1> SUFFICES ASSUME Init PROVE RegistryInv
    OBVIOUS
  <1>1. /\ DOMAIN adjacency_list = {} /\ DOMAIN callback_map = {}
        /\ DOMAIN threadgroup_callback_map = {}
        /\ DOMAIN threadgroup_adjacency_list = {}
        /\ phase = "register" /\ next_threadgroup_id = 1
        /\ input \in Inputs /\ chainsLeft = DOMAIN input.chains
    BY DEF Init, EmptyMap
  <1>2. TraversalInv
    BY <1>1 DEF TraversalInv, AdjacencyOK, NamesOK, PendingOK, AssignedOK,
                StartsEmpty
  <1>3. DeadlinesOK /\ EdgesOK
    BY <1>1 DEF DeadlinesOK, EdgesOK
  <1> QED  BY <1>2, <1>3, MutexInit DEF RegistryInv

\* A chain is entered as edges between the callbacks it uses, and gives each
\* of them a deadline and a period.
LEMMA ChainKeepsAdjacency ==
    ASSUME TraversalInv, NEW c, AddChain(c)
    PROVE  AdjacencyOK'
  <1> DEFINE chain == input.chains[c]
             s     == chain.callbacks
             Used  == {s[i] : i \in DOMAIN s}
             entry(x) == Get(adjacency_list, x, NoAdjacency)
  <1>1. /\ c \in DOMAIN input.chains /\ input \in Inputs
        /\ adjacency_list' =
             [cb \in DOMAIN adjacency_list \cup Used |->
               IF cb \notin Used THEN adjacency_list[cb]
               ELSE IF Len(s) < 2 THEN Reset(entry(cb))
               ELSE WithChain(entry(cb), chain, cb)]
    BY DEF AddChain, TraversalInv, NamesOK
  <1>2. /\ s \in Seq(Used) /\ chain.deadline \in Nat /\ chain.period \in Nat
    BY <1>1, InputsAssumption
  <1> HIDE DEF chain, s, Used
  <1>3. DOMAIN adjacency_list' = DOMAIN adjacency_list \cup Used
    BY <1>1
  <1>4. ASSUME NEW x
        PROVE  /\ entry(x).outgoing \subseteq DOMAIN adjacency_list
               /\ IsFiniteSet(entry(x).outgoing)
               /\ entry(x).min_deadline \in Nat
               /\ entry(x).periods \in Seq(Nat)
    <2>1. CASE x \in DOMAIN adjacency_list
      BY <2>1 DEF TraversalInv, AdjacencyOK, Get
    <2>2. CASE x \notin DOMAIN adjacency_list
      BY <2>2, FS_EmptySet, EmptySeq DEF Get, NoAdjacency
    <2> QED  BY <2>1, <2>2
  <1> HIDE DEF entry
  <1> DEFINE Fine(a) ==
        /\ a.outgoing \subseteq DOMAIN adjacency_list'
        /\ IsFiniteSet(a.outgoing)
        /\ a.min_deadline \in Nat
        /\ a.periods \in Seq(Nat)
        /\ a.outgoing # {} => a.deadlines # {} /\ a.periods # << >>
  <1>5. ASSUME NEW cb \in DOMAIN adjacency_list'
        PROVE  Fine(adjacency_list'[cb])
    <2>1. CASE cb \notin Used
      <3>1. cb \in DOMAIN adjacency_list
            /\ adjacency_list'[cb] = adjacency_list[cb]
        BY <1>1, <1>3, <2>1
      <3> QED  BY <1>3, <3>1 DEF TraversalInv, AdjacencyOK
    <2>2. CASE cb \in Used /\ Len(s) < 2
      <3>1. adjacency_list'[cb] = NoAdjacency
        BY <1>1, <2>2 DEF Reset
      <3> QED  BY <3>1, FS_EmptySet, EmptySeq DEF NoAdjacency
    <2>3. CASE cb \in Used /\ ~(Len(s) < 2)
      <3> DEFINE places == Positions(s, cb)
                 after == {s[i + 1] : i \in places \ {Len(s)}}
                 due == IF chain.deadline < entry(cb).min_deadline
                          THEN chain.deadline ELSE entry(cb).min_deadline
                 now == adjacency_list'[cb]
      <3>1. now = WithChain(entry(cb), chain, cb)
        BY <1>1, <2>3
      <3>2. /\ now.outgoing = entry(cb).outgoing \cup after
            /\ now.deadlines = entry(cb).deadlines \cup {chain.deadline}
            /\ now.periods = Append(entry(cb).periods, chain.period)
            /\ now.min_deadline = due
        <4> DEFINE o == entry(cb).outgoing \cup after
                   e == entry(cb).deadlines \cup {chain.deadline}
                   p == Append(entry(cb).periods, chain.period)
                   n == (entry(cb).indegree + Cardinality(places \ {1})) % UINT8_MOD
        <4>1. now = [outgoing |-> o, indegree |-> n, deadlines |-> e,
                     periods |-> p, min_deadline |-> due]
          BY <3>1 DEF WithChain, s
        <4> HIDE DEF now, o, e, p, n, due
        <4>2. /\ now.outgoing = o /\ now.deadlines = e /\ now.periods = p
              /\ now.min_deadline = due
          BY <4>1
        <4> QED  BY <4>2 DEF o, e, p
      <3>3. due \in Nat
        BY <1>2, <1>4
      <3>4. /\ Append(entry(cb).periods, chain.period) \in Seq(Nat)
            /\ Append(entry(cb).periods, chain.period) # << >>
        BY <1>2, <1>4
      <3>5. after \subseteq Used
        <4>1. \A i \in places \ {Len(s)} : i \in DOMAIN s /\ i # Len(s)
          BY DEF Positions
        <4>2. \A i \in DOMAIN s : i # Len(s) => i + 1 \in DOMAIN s
          BY <1>2
        <4>3. \A i \in DOMAIN s : s[i] \in Used
          BY <1>2
        <4> QED  BY <4>1, <4>2, <4>3
      <3>6. IsFiniteSet(after)
        <4>1. IsFiniteSet(1..Len(s)) /\ s \in Surjection(1..Len(s), Used)
          <5>1. Len(s) \in Nat /\ s \in [1..Len(s) -> Used]
            BY <1>2
          <5>2. \A x \in Used : \E i \in 1..Len(s) : s[i] = x
            BY <1>2 DEF Used
          <5> QED  BY <5>1, <5>2, FS_Interval DEF Surjection
        <4>2. IsFiniteSet(Used)
          BY <4>1, FS_Surjection
        <4> QED  BY <3>5, <4>2, FS_Subset
      <3> HIDE DEF after, due, now, places
      <3>7. IsFiniteSet(entry(cb).outgoing \cup after)
        BY <1>4, <3>6, FS_Union
      <3> QED
        BY <1>3, <1>4, <3>2, <3>3, <3>4, <3>5, <3>7 DEF now
    <2> QED  BY <2>1, <2>2, <2>3
  <1> QED  BY <1>5 DEF AdjacencyOK

\* The edges are fine after a step that changes no more than priorities,
\* numbers of threads and pending calls.
LEMMA SameEdges ==
    ASSUME EdgesOK, UNCHANGED <<adjacency_list, threadgroup_adjacency_list>>,
           DOMAIN threadgroup_callback_map' = DOMAIN threadgroup_callback_map,
           \A id \in DOMAIN threadgroup_callback_map :
             /\ threadgroup_callback_map'[id].first_callback
                  = threadgroup_callback_map[id].first_callback
             /\ threadgroup_callback_map'[id].is_mutex_group
                  = threadgroup_callback_map[id].is_mutex_group,
           PendingOK, IdsOK,
           phase' = "callbacks" => \A i \in DOMAIN stack' :
             \/ stack'[i].threadgroup_id = 0 /\ stack'[i].prev_threadgroup_id = 0
             \/ phase = "callbacks" /\ \E j \in DOMAIN stack : stack'[i] = stack[j]
    PROVE  EdgesOK'
  <1> DEFINE tgs == DOMAIN threadgroup_callback_map
  <1>1. ASSUME NEW id \in tgs, Continues(id) PROVE Continues(id)'
    BY <1>1 DEF Continues
  <1>2. \A id \in tgs :
          threadgroup_callback_map'[id].first_callback \in DOMAIN adjacency_list'
    BY DEF EdgesOK
  <1>3. ASSUME phase' = "callbacks", NEW i \in DOMAIN stack'
        PROVE  /\ stack'[i].threadgroup_id # 0 =>
                    Continues(stack[i].threadgroup_id)'
               /\ stack'[i].prev_threadgroup_id # 0 =>
                    Continues(stack[i].prev_threadgroup_id)'
    <2>1. PICK call : call = stack'[i]
      OBVIOUS
    <2>2. CASE call.threadgroup_id = 0 /\ call.prev_threadgroup_id = 0
      BY <2>1, <2>2
    <2>3. ASSUME phase = "callbacks", NEW j \in DOMAIN stack, call = stack[j]
          PROVE  /\ \A id : id = call.threadgroup_id /\ id # 0 => Continues(id)'
                 /\ \A id : id = call.prev_threadgroup_id /\ id # 0
                              => Continues(id)'
      <3>1. call \in Calls
        BY <2>3 DEF PendingOK
      <3>2. call.threadgroup_id \in Ids /\ call.prev_threadgroup_id \in Ids
        BY <3>1 DEF Calls
      <3>3. \A id \in Ids : id # 0 => id \in tgs
        BY DEF Ids, IdsOK
      <3>4. /\ \A id : id = call.threadgroup_id /\ id # 0 => Continues(id)
            /\ \A id : id = call.prev_threadgroup_id /\ id # 0 => Continues(id)
        BY <2>3 DEF EdgesOK
      <3> QED  BY <1>1, <3>2, <3>3, <3>4
    <2> QED  BY <1>3, <2>1, <2>2, <2>3
  <1>4. \A id \in DOMAIN threadgroup_adjacency_list :
          threadgroup_adjacency_list[id].outgoing # {} => Continues(id)'
    BY <1>1 DEF EdgesOK
  <1> QED  BY <1>2, <1>3, <1>4 DEF EdgesOK

\* The second and the third part change priorities and numbers of threads.
OnlyCounts ==
    /\ DOMAIN threadgroup_callback_map' = DOMAIN threadgroup_callback_map
    /\ \A id \in DOMAIN threadgroup_callback_map :
         /\ threadgroup_callback_map'[id].first_callback
              = threadgroup_callback_map[id].first_callback
         /\ threadgroup_callback_map'[id].is_mutex_group
              = threadgroup_callback_map[id].is_mutex_group

LEMMA CountsOnly ==
    ASSUME MutexInv, AssignPriorities \/ VisitThreadGroup
    PROVE  OnlyCounts /\ (VisitThreadGroup =>
             \A id \in DOMAIN threadgroup_callback_map :
               threadgroup_callback_map'[id].fixed_priority
                 = threadgroup_callback_map[id].fixed_priority)
  <1> DEFINE tgs == DOMAIN threadgroup_callback_map
  <1>1. \A id \in tgs : threadgroup_callback_map[id] =
          [first_callback |-> threadgroup_callback_map[id].first_callback,
           fixed_priority |-> threadgroup_callback_map[id].fixed_priority,
           num_threads |-> threadgroup_callback_map[id].num_threads,
           is_mutex_group |-> threadgroup_callback_map[id].is_mutex_group]
    BY DEF MutexInv, EntriesOK
  <1>2. CASE VisitThreadGroup
    <2>1. PICK i, t : threadgroup_callback_map' =
            [threadgroup_callback_map EXCEPT ![i].num_threads = t]
      BY <1>2 DEF VisitThreadGroup
    <2> QED  BY <1>1, <2>1 DEF OnlyCounts
  <1>3. CASE AssignPriorities
    <2>1. /\ DOMAIN threadgroup_callback_map' = tgs
          /\ \A id \in tgs :
               \/ threadgroup_callback_map'[id] = threadgroup_callback_map[id]
               \/ \E p : threadgroup_callback_map'[id] =
                     [threadgroup_callback_map[id] EXCEPT !.fixed_priority = p]
      BY <1>3, Zenon DEF AssignPriorities
    <2>2. OnlyCounts
      BY <1>1, <2>1 DEF OnlyCounts
    <2>3. ~VisitThreadGroup
      BY <1>3 DEF AssignPriorities, VisitThreadGroup
    <2> QED  BY <2>2, <2>3
  <1> QED  BY <1>2, <1>3

\* The invariant holds after a step that changes no more than the progress of
\* the allocation.
LEMMA SameMaps ==
    ASSUME RegistryInv, MutexInv',
           UNCHANGED <<input, chainsLeft, adjacency_list, callback_map,
                       threadgroup_callback_map, threadgroup_adjacency_list,
                       next_threadgroup_id>>,
           PendingOK', StartsEmpty', DeadlinesOK',
           phase' = "callbacks" => \A i \in DOMAIN stack' :
             \/ stack'[i].threadgroup_id = 0 /\ stack'[i].prev_threadgroup_id = 0
             \/ phase = "callbacks" /\ \E j \in DOMAIN stack : stack'[i] = stack[j]
    PROVE  RegistryInv'
  <1>1. EdgesOK'
    BY SameEdges DEF RegistryInv, TraversalInv, MutexInv
  <1>2. AdjacencyOK' /\ NamesOK' /\ AssignedOK'
    BY DEF RegistryInv, TraversalInv, AdjacencyOK, NamesOK, AssignedOK, Ids
  <1> QED  BY <1>1, <1>2 DEF RegistryInv, TraversalInv

\* The same for a step within the traversal of the callbacks.
LEMMA SamePhase ==
    ASSUME RegistryInv, MutexInv', phase = "callbacks", phase' = phase,
           UNCHANGED <<input, chainsLeft, adjacency_list, callback_map, retried,
                       threadgroup_callback_map, threadgroup_adjacency_list,
                       next_threadgroup_id, deadline_map>>,
           stack' \in Seq(Calls), rootsLeft' \subseteq rootsLeft,
           \A i \in DOMAIN stack' :
             \/ stack'[i].threadgroup_id = 0 /\ stack'[i].prev_threadgroup_id = 0
             \/ \E j \in DOMAIN stack : stack'[i] = stack[j]
    PROVE  RegistryInv'
  <1>1. PendingOK'
    BY DEF RegistryInv, TraversalInv, PendingOK, Calls, Ids
  <1>2. StartsEmpty'
    BY DEF StartsEmpty
  <1>3. DeadlinesOK'
    BY DEF RegistryInv, DeadlinesOK, DeadlineEntries, GroupAt
  <1> QED  BY <1>1, <1>2, <1>3, SameMaps

LEMMA RegistryStep == RegistryInv /\ [Next]_vars => RegistryInv'
  <1> SUFFICES ASSUME RegistryInv, [Next]_vars PROVE RegistryInv'
    OBVIOUS
  <1>1. MutexInv'
    BY MutexStep DEF RegistryInv
  <1> USE DEF groupVars, graphVars, loopVars, callVars
  <1>2. /\ next_threadgroup_id \in Nat \ {0}
        /\ DOMAIN threadgroup_callback_map = 1..(next_threadgroup_id - 1)
        /\ next_threadgroup_id = 1 => DOMAIN threadgroup_callback_map = {}
        /\ DOMAIN threadgroup_adjacency_list
             \subseteq DOMAIN threadgroup_callback_map
    BY DEF RegistryInv, MutexInv, IdsOK, EdgesOK
  <1>3. ASSUME phase' # "callbacks",
               phase' \in {"register", "chains", "built", "exported"} =>
                 next_threadgroup_id' = 1
        PROVE  PendingOK' /\ StartsEmpty' /\ DeadlinesOK'
    BY <1>3 DEF PendingOK, StartsEmpty, DeadlinesOK
  <1>4. CASE RegisterEntities
    <2>1. /\ UNCHANGED <<input, chainsLeft, adjacency_list,
                         threadgroup_callback_map, threadgroup_adjacency_list,
                         next_threadgroup_id>>
          /\ phase = "register" /\ phase' = "chains"
      BY <1>4 DEF RegisterEntities
    <2>2. \A n \in DOMAIN callback_map' :
            /\ input.name[callback_map'[n].entity] = n
            /\ callback_map'[n].threadgroup_id = 0
      <3> DEFINE Names == {input.name[e] : e \in Entities}
      <3>1. PICK kept \in {f \in [Names -> Entities] :
                             \A n \in Names : input.name[f[n]] = n} :
              callback_map' = [n \in Names |->
                [entity |-> kept[n], group |-> input.group[kept[n]],
                 threadgroup_id |-> 0]]
        BY <1>4, Zenon DEF RegisterEntities
      <3>2. \A n \in Names : input.name[kept[n]] = n
        BY <3>1
      <3> HIDE DEF Names
      <3>3. DOMAIN callback_map' = Names
        BY <3>1
      <3>4. \A n \in Names : callback_map'[n] =
              [entity |-> kept[n], group |-> input.group[kept[n]],
               threadgroup_id |-> 0]
        BY <3>1
      <3>5. \A n \in Names : callback_map'[n].entity = kept[n]
                             /\ callback_map'[n].threadgroup_id = 0
        <4> SUFFICES ASSUME NEW n \in Names
                     PROVE  callback_map'[n].entity = kept[n]
                            /\ callback_map'[n].threadgroup_id = 0
          OBVIOUS
        <4>1. PICK e, g : callback_map'[n] =
                [entity |-> e, group |-> g, threadgroup_id |-> 0] /\ e = kept[n]
          BY <3>4
        <4> QED  BY <4>1
      <3> QED  BY <3>2, <3>3, <3>5
    <2>3. next_threadgroup_id' = 1
      BY <2>1 DEF RegistryInv, TraversalInv, StartsEmpty
    <2>4. PendingOK' /\ StartsEmpty' /\ DeadlinesOK'
      BY <1>3, <2>1, <2>3
    <2>5. AdjacencyOK' /\ NamesOK'
      BY <2>1, <2>2 DEF RegistryInv, TraversalInv, AdjacencyOK, NamesOK
    <2>6. AssignedOK'
      BY <2>2, <2>3 DEF AssignedOK, Ids
    <2>7. EdgesOK'
      BY <1>2, <2>1, SameEdges DEF RegistryInv, TraversalInv, MutexInv
    <2> QED
      BY <1>1, <2>4, <2>5, <2>6, <2>7 DEF RegistryInv, TraversalInv
  <1>5. ASSUME NEW c \in chainsLeft, AddChain(c) PROVE RegistryInv'
    <2>1. /\ UNCHANGED <<input, phase, callback_map, threadgroup_callback_map,
                         threadgroup_adjacency_list, next_threadgroup_id>>
          /\ phase = "chains" /\ chainsLeft' \subseteq chainsLeft
      BY <1>5 DEF AddChain
    <2>2. AdjacencyOK'
      BY <1>5, ChainKeepsAdjacency DEF RegistryInv
    <2>3. NamesOK' /\ AssignedOK'
      BY <2>1 DEF RegistryInv, TraversalInv, NamesOK, AssignedOK, Ids
    <2>4. next_threadgroup_id' = 1
      BY <2>1 DEF RegistryInv, TraversalInv, StartsEmpty
    <2>5. PendingOK' /\ StartsEmpty' /\ DeadlinesOK'
      BY <1>3, <2>1, <2>4
    <2>6. EdgesOK'
      BY <1>2, <2>1, <2>4 DEF EdgesOK
    <2> QED
      BY <1>1, <2>2, <2>3, <2>5, <2>6 DEF RegistryInv, TraversalInv
  <1>6. CASE Constructed
    <2>1. phase' = "built" /\ next_threadgroup_id' = 1
      BY <1>6 DEF Constructed, RegistryInv, TraversalInv, StartsEmpty
    <2>2. PendingOK' /\ StartsEmpty' /\ DeadlinesOK'
      BY <1>3, <2>1
    <2> QED  BY <1>1, <1>6, <2>1, <2>2, SameMaps DEF Constructed
  <1>7. CASE Allocate
    <2>1. /\ phase' = "callbacks" /\ stack' = << >> /\ deadline_map' = EmptyMap
          /\ rootsLeft' \subseteq DOMAIN adjacency_list'
          /\ UNCHANGED <<input, chainsLeft, adjacency_list, callback_map,
                         threadgroup_callback_map, threadgroup_adjacency_list,
                         next_threadgroup_id>>
      BY <1>7 DEF Allocate
    <2>2. PendingOK'
      BY <2>1, EmptySeq DEF PendingOK
    <2>3. StartsEmpty'
      BY <2>1 DEF StartsEmpty
    <2>4. ~retried' => DOMAIN threadgroup_callback_map' = {}
      BY <1>2, <1>7 DEF Allocate, RegistryInv, TraversalInv, StartsEmpty
    <2>5. DeadlinesOK'
      BY <2>1, <2>4 DEF DeadlinesOK, EmptyMap
    <2> QED  BY <1>1, <2>1, <2>2, <2>3, <2>5, SameMaps
  <1>8. ASSUME NEW cb \in rootsLeft, StartAtRoot(cb) PROVE RegistryInv'
    <2>1. /\ phase = "callbacks" /\ phase' = phase
          /\ stack' = <<CallbackCall(cb, 0, 0)>> /\ rootsLeft' \subseteq rootsLeft
          /\ UNCHANGED <<input, chainsLeft, adjacency_list, callback_map, retried,
                         threadgroup_callback_map, threadgroup_adjacency_list,
                         next_threadgroup_id, deadline_map>>
      BY <1>8 DEF StartAtRoot
    <2>2. CallbackCall(cb, 0, 0) \in Calls
      BY <1>2, <2>1 DEF RegistryInv, TraversalInv, PendingOK, CallbackCall,
                        Calls, Ids
    <2>3. /\ CallbackCall(cb, 0, 0).threadgroup_id = 0
          /\ CallbackCall(cb, 0, 0).prev_threadgroup_id = 0
      BY DEF CallbackCall
    <2>4. stack' \in Seq(Calls) /\ \A i \in DOMAIN stack' :
            stack'[i].threadgroup_id = 0 /\ stack'[i].prev_threadgroup_id = 0
      BY <2>1, <2>2, <2>3
    <2> QED  BY <1>1, <2>1, <2>4, SamePhase
  <1>9. CASE AlreadyVisited
    <2>1. /\ phase = "callbacks" /\ phase' = phase /\ stack # << >>
          /\ stack' = Tail(stack) /\ rootsLeft' \subseteq rootsLeft
          /\ UNCHANGED <<input, chainsLeft, adjacency_list, callback_map, retried,
                         threadgroup_callback_map, threadgroup_adjacency_list,
                         next_threadgroup_id, deadline_map>>
      BY <1>9 DEF AlreadyVisited
    <2>2. stack \in Seq(Calls)
      BY <2>1 DEF RegistryInv, TraversalInv, PendingOK
    <2>3. /\ stack' \in Seq(Calls)
          /\ \A i \in DOMAIN stack' : i + 1 \in DOMAIN stack
                                      /\ stack'[i] = stack[i + 1]
      BY <2>1, <2>2
    <2> QED  BY <1>1, <2>1, <2>3, SamePhase
  <1>10. CASE VisitCallback
    BY <1>1, <1>10, VisitKeepsTraversal, VisitKeepsDeadlines, VisitKeepsEdges
       DEF RegistryInv
  <1>11. CASE CallbackNotFound \/ StackOverflow \/ ExportThrows
    <2>1. /\ phase' \in {"threw", "overflow"}
          /\ UNCHANGED <<input, chainsLeft, adjacency_list, callback_map,
                         threadgroup_callback_map, threadgroup_adjacency_list,
                         next_threadgroup_id>>
      BY <1>11 DEF CallbackNotFound, StackOverflow, ExportThrows
    <2>2. PendingOK' /\ StartsEmpty' /\ DeadlinesOK'
      BY <1>3, <2>1
    <2> QED  BY <1>1, <2>1, <2>2, SameMaps
  <1>12. ASSUME NEW id \in rootsLeft, StartAtThreadGroup(id) PROVE RegistryInv'
    <2>1. /\ phase' = "threads"
          /\ UNCHANGED <<input, chainsLeft, adjacency_list, callback_map,
                         threadgroup_callback_map, threadgroup_adjacency_list,
                         next_threadgroup_id>>
      BY <1>12 DEF StartAtThreadGroup
    <2>2. PendingOK' /\ StartsEmpty' /\ DeadlinesOK'
      BY <1>3, <2>1
    <2> QED  BY <1>1, <2>1, <2>2, SameMaps
  <1>13. CASE AssignPriorities \/ VisitThreadGroup
    <2>1. /\ phase' = "threads"
          /\ UNCHANGED <<input, chainsLeft, adjacency_list, callback_map,
                         threadgroup_adjacency_list, next_threadgroup_id>>
      BY <1>13 DEF AssignPriorities, VisitThreadGroup
    <2>2. PendingOK' /\ StartsEmpty' /\ DeadlinesOK'
      BY <1>3, <2>1
    <2>3. AdjacencyOK' /\ NamesOK' /\ AssignedOK'
      BY <2>1 DEF RegistryInv, TraversalInv, AdjacencyOK, NamesOK, AssignedOK, Ids
    <2>4. OnlyCounts
      BY <1>13, CountsOnly DEF RegistryInv
    <2>5. EdgesOK'
      BY <2>1, <2>4, SameEdges
         DEF RegistryInv, TraversalInv, MutexInv, OnlyCounts
    <2> QED
      BY <1>1, <2>2, <2>3, <2>5 DEF RegistryInv, TraversalInv
  <1>14. CASE ExportTimingInformation
    <2>1. /\ phase' = "exported" /\ next_threadgroup_id' = 1
          /\ UNCHANGED <<input, chainsLeft>>
          /\ DOMAIN adjacency_list' = {} /\ DOMAIN callback_map' = {}
          /\ DOMAIN threadgroup_callback_map' = {}
          /\ DOMAIN threadgroup_adjacency_list' = {}
      BY <1>14 DEF ExportTimingInformation, EmptyMap
    <2>2. PendingOK' /\ StartsEmpty' /\ DeadlinesOK'
      BY <1>3, <2>1
    <2>3. AdjacencyOK' /\ NamesOK' /\ AssignedOK' /\ EdgesOK'
      BY <2>1 DEF RegistryInv, TraversalInv, AdjacencyOK, NamesOK, AssignedOK,
                  EdgesOK
    <2> QED  BY <1>1, <2>2, <2>3 DEF RegistryInv, TraversalInv
  <1>15. CASE UNCHANGED vars
    <2>1. UNCHANGED <<input, phase, retried, chainsLeft, adjacency_list,
                      callback_map, threadgroup_callback_map,
                      threadgroup_adjacency_list, next_threadgroup_id, stack,
                      rootsLeft, deadline_map>>
      BY <1>15 DEF vars
    <2>2. PendingOK' /\ StartsEmpty' /\ DeadlinesOK'
      BY <2>1 DEF RegistryInv, TraversalInv, PendingOK, StartsEmpty, Calls, Ids,
                  DeadlinesOK, DeadlineEntries, GroupAt
    <2> QED  BY <1>1, <2>1, <2>2, SameMaps
  <1> QED
    BY <1>4, <1>5, <1>6, <1>7, <1>8, <1>9, <1>10, <1>11, <1>12, <1>13, <1>14,
       <1>15 DEF Next, Step, Finished

-----------------------------------------------------------------------------
(***************************************************************************)
(* Timing of the roots                                                     *)
(***************************************************************************)

\* As long as the number of predecessors does not wrap around, a thread group
\* without one has a successor, hence a first callback with a successor.
LEMMA RootsHaveSuccessors ==
    RegistryInv /\ next_threadgroup_id <= UINT8_MOD => RootsHaveTiming
  <1> SUFFICES ASSUME RegistryInv, next_threadgroup_id <= UINT8_MOD,
                      NEW id \in DOMAIN threadgroup_adjacency_list,
                      IsThreadRoot(id)
               PROVE  LET adj == adjacency_list[
                            threadgroup_callback_map[id].first_callback]
                      IN adj.periods # << >> /\ adj.deadlines # {}
    BY DEF RootsHaveTiming
  <1> DEFINE predecessors == threadgroup_adjacency_list[id].incoming
             n == next_threadgroup_id - 1
             first == threadgroup_callback_map[id].first_callback
  <1>1. /\ n \in Nat /\ n < UINT8_MOD
        /\ predecessors \in SUBSET (1..n) /\ id \in 1..n
        /\ DOMAIN threadgroup_callback_map = 1..n
    BY DEF RegistryInv, MutexInv, IdsOK, EdgesOK
  <1>2. Cardinality(predecessors) % UINT8_MOD = 0 /\ ~threadgroup_callback_map[id].is_mutex_group
    BY DEF IsThreadRoot, HasNoPredecessor
  <1> HIDE DEF predecessors, n
  <1>3. /\ IsFiniteSet(predecessors) /\ Cardinality(predecessors) \in Nat
        /\ Cardinality(predecessors) <= n
    <2>1. IsFiniteSet(1..n) /\ Cardinality(1..n) = n
      BY <1>1, FS_Interval
    <2>2. IsFiniteSet(predecessors) /\ Cardinality(predecessors) <= Cardinality(1..n)
      BY <1>1, <2>1, FS_Subset
    <2> QED  BY <2>1, <2>2, FS_CardinalityType
  <1>4. Cardinality(predecessors) = 0
    <2>1. \A x \in Nat : x < UINT8_MOD => x % UINT8_MOD = x
      OBVIOUS
    <2>2. Cardinality(predecessors) < UINT8_MOD
      BY <1>1, <1>3
    <2> QED  BY <1>2, <1>3, <2>1, <2>2
  <1>5. predecessors = {}
    BY <1>3, <1>4, FS_EmptySet
  <1>6. Continues(id) /\ first \in DOMAIN adjacency_list
    BY <1>1, <1>5 DEF RegistryInv, EdgesOK, predecessors
  <1>7. adjacency_list[first].outgoing # {}
    BY <1>2, <1>6 DEF Continues
  <1> QED  BY <1>6, <1>7 DEF RegistryInv, TraversalInv, AdjacencyOK

\* recursive_threadgroup_traversal finds a period and a deadline at every
\* root, whatever the chains are and however often the registry is asked
\* again, unless there are more thread groups than its uint8_t count of
\* predecessors can tell from none.
THEOREM RootsAreTimed ==
    Spec => [](next_threadgroup_id <= UINT8_MOD => RootsHaveTiming)
  <1>1. RegistryInv => (next_threadgroup_id <= UINT8_MOD => RootsHaveTiming)
    BY RootsHaveSuccessors
  <1> QED  BY <1>1, RegistryInit, RegistryStep, PTL DEF Spec

-----------------------------------------------------------------------------
(***************************************************************************)
(* Priorities and the export                                               *)
(***************************************************************************)

\* The priorities stay as the pass over the deadlines has left them.
LEMMA PrioritiesStep ==
    ASSUME RegistryInv, PrioritiesFollowDeadlines, [Next]_vars,
           next_threadgroup_id <= UINT16_MOD
    PROVE  PrioritiesFollowDeadlines'
  <1> USE DEF groupVars, graphVars, loopVars, callVars
  <1>1. CASE AssignPriorities
    BY <1>1, PrioritiesAreAssigned DEF RegistryInv
  <1>2. ASSUME phase = "threads",
               UNCHANGED <<retried, deadline_map>>,
               DOMAIN threadgroup_callback_map' = DOMAIN threadgroup_callback_map,
               \A id \in DOMAIN threadgroup_callback_map :
                 threadgroup_callback_map'[id].fixed_priority
                   = threadgroup_callback_map[id].fixed_priority
        PROVE  PrioritiesFollowDeadlines'
    <2>1. \A id : Urgency(id)' = Urgency(id)
      BY <1>2 DEF Urgency
    <2> SUFFICES ASSUME ~retried PROVE PrioritiesFollowDeadlines'
      BY <1>2 DEF PrioritiesFollowDeadlines
    <2> DEFINE tgs == DOMAIN threadgroup_callback_map
               fp(i) == threadgroup_callback_map[i].fixed_priority
               now(i) == threadgroup_callback_map'[i].fixed_priority
    <2>2. /\ {fp(i) : i \in tgs} = 1..Cardinality(tgs)
          /\ \/ \A i, j \in tgs : Urgency(i) < Urgency(j) => fp(i) < fp(j)
             \/ \A i, j \in tgs : Urgency(i) < Urgency(j) => fp(i) > fp(j)
      BY <1>2 DEF PrioritiesFollowDeadlines
    <2>3. \A i \in tgs : now(i) = fp(i)
      BY <1>2
    <2>4. {now(i) : i \in tgs} = {fp(i) : i \in tgs}
      BY <2>3
    <2>5. \/ \A i, j \in tgs : Urgency(i)' < Urgency(j)' => now(i) < now(j)
          \/ \A i, j \in tgs : Urgency(i)' < Urgency(j)' => now(i) > now(j)
      BY <2>1, <2>2, <2>3
    <2> QED  BY <1>2, <2>2, <2>4, <2>5 DEF PrioritiesFollowDeadlines
  <1>3. CASE VisitThreadGroup
    BY <1>2, <1>3, CountsOnly DEF VisitThreadGroup, RegistryInv, OnlyCounts
  <1>4. ASSUME NEW id \in rootsLeft, StartAtThreadGroup(id)
        PROVE  PrioritiesFollowDeadlines'
    BY <1>2, <1>4 DEF StartAtThreadGroup
  <1>5. CASE UNCHANGED vars
    BY <1>2, <1>5 DEF vars, PrioritiesFollowDeadlines
  <1>6. CASE phase' # "threads"
    BY <1>6 DEF PrioritiesFollowDeadlines
  <1>7. \/ AssignPriorities \/ VisitThreadGroup \/ UNCHANGED vars
        \/ \E id \in rootsLeft : StartAtThreadGroup(id)
        \/ phase' # "threads"
    BY DEF Next, Step, Finished, RegisterEntities, AddChain, Constructed,
           Allocate, StartAtRoot, CallbackNotFound, AlreadyVisited,
           VisitCallback, StackOverflow, ExportThrows, ExportTimingInformation
  <1> QED  BY <1>1, <1>3, <1>4, <1>5, <1>6, <1>7

\* What is exported is closed.
LEMMA ExportStep ==
    ASSUME RegistryInv, PrioritiesFollowDeadlines, ExportIsClosed, [Next]_vars
    PROVE  ExportIsClosed'
  <1> USE DEF groupVars, graphVars, loopVars, callVars
  <1>1. CASE ExportTimingInformation
    <2> DEFINE cbs == {callback_map[n].entity : n \in DOMAIN callback_map}
               tgs == DOMAIN threadgroup_callback_map
    <2>1. /\ phase = "threads" /\ retried' = retried
          /\ \A n \in DOMAIN callback_map : callback_map[n].threadgroup_id # 0
          /\ DOMAIN timing_export'.handles = cbs
          /\ DOMAIN timing_export'.groups = tgs
          /\ \A e \in cbs : timing_export'.handles[e]
                              = callback_map[input.name[e]].threadgroup_id
          /\ \A id \in tgs : timing_export'.groups[id].priority
                               = threadgroup_callback_map[id].fixed_priority
      BY <1>1 DEF ExportTimingInformation, AllocationOver, Unassigned
    <2>2. \A e \in cbs : input.name[e] \in DOMAIN callback_map
      BY DEF RegistryInv, TraversalInv, NamesOK
    <2>3. \A n \in DOMAIN callback_map : callback_map[n].threadgroup_id \in tgs
      BY <2>1 DEF RegistryInv, TraversalInv, AssignedOK, Ids, MutexInv, IdsOK
    <2>4. \A e \in cbs : timing_export'.handles[e] \in tgs
      BY <2>1, <2>2, <2>3
    <2>5. ~retried => \A id \in tgs :
                        threadgroup_callback_map[id].fixed_priority >= 1
      <3> SUFFICES ASSUME ~retried, NEW id \in tgs
                   PROVE  threadgroup_callback_map[id].fixed_priority >= 1
        OBVIOUS
      <3>1. threadgroup_callback_map[id].fixed_priority
              \in {threadgroup_callback_map[i].fixed_priority : i \in tgs}
        OBVIOUS
      <3>2. {threadgroup_callback_map[i].fixed_priority : i \in tgs}
              = 1..Cardinality(tgs)
        BY <2>1 DEF PrioritiesFollowDeadlines
      <3>3. threadgroup_callback_map[id].fixed_priority \in 1..Cardinality(tgs)
        BY <3>1, <3>2
      <3> QED  BY <3>3
    <2> QED  BY <2>1, <2>4, <2>5 DEF ExportIsClosed
  <1>2. CASE timing_export' = timing_export /\ (~retried' => ~retried)
    BY <1>2 DEF ExportIsClosed
  <1>3. \/ ExportTimingInformation
        \/ /\ timing_export' = timing_export
           /\ ~retried' => ~retried
    BY DEF vars, Next, Step, Finished, RegisterEntities, AddChain, Constructed,
           Allocate, StartAtRoot, CallbackNotFound, AlreadyVisited,
           VisitCallback, AssignPriorities, StartAtThreadGroup,
           VisitThreadGroup, StackOverflow, ExportThrows
  <1> QED  BY <1>1, <1>2, <1>3

\* Both hold where nothing has been allocated yet.
LEMMA PrioritiesInit == Init => PrioritiesFollowDeadlines /\ ExportIsClosed
  BY DEF Init, PrioritiesFollowDeadlines, ExportIsClosed, NoExport, EmptyMap

\* Whatever the chains, the callback groups and the order of the iterations
\* are, callback_threadgroup_allocation gives the priorities 1, 2, ...,
\* monotonic in the deadlines, as long as fixed_priority_counter, a uint16_t,
\* does not wrap around.
THEOREM PrioritiesAreDense ==
    Spec /\ [](next_threadgroup_id <= UINT16_MOD) => []PrioritiesFollowDeadlines
  <1>1. RegistryInv /\ PrioritiesFollowDeadlines /\ [Next]_vars
          /\ next_threadgroup_id <= UINT16_MOD => PrioritiesFollowDeadlines'
    BY PrioritiesStep
  <1> QED
    BY <1>1, RegistryInit, RegistryStep, PrioritiesInit, PTL DEF Spec

\* export_timing_information hands the executor a closed set of thread groups
\* with priorities, under the same condition.
THEOREM ExportsAreClosed ==
    Spec /\ [](next_threadgroup_id <= UINT16_MOD) => []ExportIsClosed
  <1>1. RegistryInv /\ PrioritiesFollowDeadlines /\ ExportIsClosed /\ [Next]_vars
          => ExportIsClosed'
    BY ExportStep
  <1> QED
    BY <1>1, RegistryInit, RegistryStep, PrioritiesInit, PrioritiesAreDense, PTL
       DEF Spec

-----------------------------------------------------------------------------
(***************************************************************************)
(* Paths in finite graphs                                                  *)
(***************************************************************************)

\* The nodes from which a path leads to x.
Below(G, x) == {y \in G.node : Connected(G, y, x)}

\* A graph whose edges lead from nodes to nodes, of which there are finitely
\* many.
IsGraph(G) ==
    /\ IsFiniteSet(G.node)
    /\ \A e \in G.edge : e[1] \in G.node /\ e[2] \in G.node

\* The empty path leads from a node to itself.
LEMMA ConnectedItself == \A G, m : Connected(G, m, m)
  BY DEF Connected

\* An edge is a path.
LEMMA ConnectedByEdge ==
    ASSUME NEW G, IsGraph(G), NEW e \in G.edge, NEW n, Connected(G, e[2], n)
    PROVE  Connected(G, e[1], n)
  BY DEF Connected, IsGraph

\* A path goes on along an edge.
LEMMA ConnectedFurther ==
    ASSUME NEW G, NEW m, NEW e \in G.edge, Connected(G, m, e[1])
    PROVE  Connected(G, m, e[2])
  BY DEF Connected

\* Two paths make one.
LEMMA ConnectedOver ==
    ASSUME NEW G, NEW k, NEW m, NEW n, Connected(G, k, m), Connected(G, m, n)
    PROVE  Connected(G, k, n)
  BY DEF Connected

\* A path to another node begins with an edge.
LEMMA FirstEdge ==
    ASSUME NEW G, IsGraph(G), NEW m \in G.node, NEW n, n # m, Connected(G, m, n)
    PROVE  \E e \in G.edge : e[1] = m /\ Connected(G, e[2], n)
  <1> DEFINE after(x) == \E e \in G.edge : e[1] = m /\ Connected(G, e[2], x)
             S == {m} \cup {x \in G.node : after(x)}
  <1>1. ASSUME NEW d \in G.edge, d[1] \in S PROVE d[2] \in S
    <2>1. d[2] \in G.node
      BY DEF IsGraph
    <2>2. after(d[2])
      <3>1. CASE d[1] = m
        BY <3>1, ConnectedItself
      <3>2. CASE d[1] # m
        <4>1. PICK e \in G.edge : e[1] = m /\ Connected(G, e[2], d[1])
          BY <1>1, <3>2
        <4>2. Connected(G, e[2], d[2])
          BY <4>1, ConnectedFurther
        <4> QED  BY <4>1, <4>2
      <3> QED  BY <3>1, <3>2
    <2> QED  BY <2>1, <2>2
  <1>2. S \in SUBSET G.node /\ m \in S
    OBVIOUS
  <1>3. n \in S
    BY <1>1, <1>2 DEF Connected
  <1> QED  BY <1>3

\* Along an edge that is on no cycle, there are more and more nodes below.
LEMMA MoreBelow ==
    ASSUME NEW G, IsGraph(G), NEW e \in G.edge, ~Connected(G, e[2], e[1])
    PROVE  /\ Cardinality(Below(G, e[1])) \in Nat
           /\ Cardinality(Below(G, e[2])) \in Nat
           /\ Cardinality(Below(G, e[1])) < Cardinality(Below(G, e[2]))
  <1> DEFINE S == Below(G, e[1])
             T == Below(G, e[2])
  <1>1. e[2] \in T /\ e[2] \notin S
    BY ConnectedItself DEF Below, IsGraph
  <1>2. S \subseteq T
    BY ConnectedFurther DEF Below
  <1>3. IsFiniteSet(T)
    BY FS_Subset DEF IsGraph, Below
  <1>4. IsFiniteSet(S) /\ Cardinality(S) <= Cardinality(T) /\ Cardinality(S) # Cardinality(T)
    BY <1>1, <1>2, <1>3, FS_Subset
  <1> QED  BY <1>3, <1>4, FS_CardinalityType

\* In a graph without cycles a set of nodes each of which has a predecessor in
\* the set is empty.
LEMMA NoEndlessPath ==
    ASSUME NEW G, IsGraph(G), \A e \in G.edge : ~Connected(G, e[2], e[1]),
           NEW U \in SUBSET G.node,
           \A u \in U : \E e \in G.edge : e[1] \in U /\ e[2] = u
    PROVE  U = {}
  <1> SUFFICES ASSUME U # {} PROVE FALSE
    OBVIOUS
  <1> DEFINE size(u) == Cardinality(Below(G, u))
             sizes == {size(u) : u \in U}
  <1>1. \A u \in U : \E p \in U : size(p) \in Nat /\ size(u) \in Nat /\ size(p) < size(u)
    BY MoreBelow
  <1> HIDE DEF size
  <1>2. sizes \in SUBSET Nat /\ sizes # {}
    BY <1>1
  <1>3. PICK k \in sizes : \A n \in sizes : k <= n
    BY <1>2, LeastNatural
  <1>4. PICK u \in U : k = size(u)
    BY <1>3
  <1>5. PICK p \in U : size(p) \in Nat /\ size(u) \in Nat /\ size(p) < size(u)
    BY <1>1
  <1>6. k <= size(p)
    BY <1>3
  <1> QED  BY <1>4, <1>5, <1>6
-----------------------------------------------------------------------------
(***************************************************************************)
(* The inductive invariant of the third part                               *)
(***************************************************************************)

ThreadGroups == DOMAIN threadgroup_adjacency_list
Outgoing(id) == threadgroup_adjacency_list[id].outgoing
Incoming(id) == threadgroup_adjacency_list[id].incoming

\* The two directions of the edges agree, and an edge leads to a younger
\* thread group unless it leads to a mutex group.
ThreadGraphOK ==
    /\ \A i \in ThreadGroups :
         Outgoing(i) \subseteq ThreadGroups /\ Incoming(i) \subseteq ThreadGroups
    /\ \A i, o \in ThreadGroups :
         /\ o \in Outgoing(i) <=> i \in Incoming(o)
         /\ o \in Outgoing(i) =>
              i < o \/ threadgroup_callback_map[o].is_mutex_group

ThreadCalls == [threadgroup_id : ThreadGroups, depth : Nat \ {0}]

PendingGroups == {stack[k].threadgroup_id : k \in DOMAIN stack}

\* Once the groups of V were visited: the roots that were started and the
\* successors of visited groups were visited or are about to be, and the count
\* of a group that is not about to be visited agrees with its predecessors'.
Counted(V) ==
    /\ \A r \in ThreadGroups \ rootsLeft :
         IsThreadRoot(r) => r \in V \cup PendingGroups
    /\ \A v \in V :
         /\ Outgoing(v) \subseteq V \cup PendingGroups
         /\ v \notin PendingGroups =>
              /\ threadgroup_callback_map[v].num_threads = NumThreads(v)
              /\ v \notin Outgoing(v)

MutexFeedback ==
    \E e \in ThreadGroupGraph.edge :
        /\ threadgroup_callback_map[e[1]].is_mutex_group
        /\ Connected(ThreadGroupGraph, e[2], e[1])

\* Without feedback a call is not nested deeper than there are groups below.
CountsOK ==
    phase = "threads" =>
        /\ stack \in Seq(ThreadCalls) /\ rootsLeft \subseteq ThreadGroups
        /\ \E V \in SUBSET ThreadGroups : Counted(V)
        /\ ~MutexFeedback => \A k \in DOMAIN stack :
             stack[k].depth <=
               Cardinality(Below(ThreadGroupGraph, stack[k].threadgroup_id))

CountsInv == ThreadGraphOK /\ CountsOK /\ OverflowNeedsMutexFeedback

-----------------------------------------------------------------------------
(***************************************************************************)
(* The graph of the thread groups                                          *)
(***************************************************************************)

\* The thread groups and their edges are a finite graph.
LEMMA GraphOfGroups ==
    ASSUME RegistryInv, ThreadGraphOK
    PROVE  /\ IsGraph(ThreadGroupGraph) /\ ThreadGroupGraph.node = ThreadGroups
           /\ \A i \in ThreadGroups : \A o \in Outgoing(i) :
                <<i, o>> \in ThreadGroupGraph.edge
           /\ \A e \in ThreadGroupGraph.edge :
                /\ e[1] \in ThreadGroups /\ e[2] \in ThreadGroups
                /\ e[2] \in Outgoing(e[1])
  <1>1. /\ ThreadGroupGraph.node = ThreadGroups
        /\ ThreadGroupGraph.edge =
             UNION {{<<i, o>> : o \in Outgoing(i)} : i \in ThreadGroups}
    BY DEF ThreadGroupGraph, ThreadGroups, Outgoing
  <1>2. \A e \in ThreadGroupGraph.edge :
          /\ e[1] \in ThreadGroups /\ e[2] \in ThreadGroups
          /\ e[2] \in Outgoing(e[1])
    BY <1>1 DEF ThreadGraphOK
  <1>3. \A i \in ThreadGroups : \A o \in Outgoing(i) :
          <<i, o>> \in ThreadGroupGraph.edge
    BY <1>1
  <1>4. IsFiniteSet(ThreadGroups)
    <2>1. /\ ThreadGroups \subseteq 1..(next_threadgroup_id - 1)
          /\ next_threadgroup_id \in Nat \ {0}
      BY DEF RegistryInv, MutexInv, IdsOK, EdgesOK, ThreadGroups
    <2>2. IsFiniteSet(1..(next_threadgroup_id - 1))
      BY <2>1, FS_Interval
    <2> QED  BY <2>1, <2>2, FS_Subset
  <1> QED  BY <1>1, <1>2, <1>3, <1>4 DEF IsGraph

\* A visit of a callback enters at most one edge, from an older group to a new
\* one or to a mutex group.
LEMMA VisitKeepsThreadGraph ==
    ASSUME RegistryInv, ThreadGraphOK, VisitCallback
    PROVE  ThreadGraphOK'
  <1> DEFINE prev == Call.prev_threadgroup_id
             A == threadgroup_adjacency_list
  <1>1. /\ next_threadgroup_id \in Nat \ {0}
        /\ DOMAIN threadgroup_callback_map = 1..(next_threadgroup_id - 1)
        /\ ThreadGroups \subseteq DOMAIN threadgroup_callback_map
    BY VisitReads DEF RegistryInv, EdgesOK, ThreadGroups
  <1>2. \A id \in DOMAIN threadgroup_callback_map :
          threadgroup_callback_map'[id] = threadgroup_callback_map[id]
    BY <1>1, VisitReads, VisitWrites DEF Put, RegistryInv
  <1>3. CASE threadgroup_adjacency_list' = threadgroup_adjacency_list
    BY <1>1, <1>2, <1>3 DEF ThreadGraphOK, ThreadGroups, Outgoing, Incoming
  <1>4. CASE /\ Call.threadgroup_id = 0 /\ prev # 0
             /\ threadgroup_adjacency_list' = AddEdge(prev, New)
    <2>1. PICK from, to : from = prev /\ to = New
      OBVIOUS
    <2>2. EntersEdge(from, to)
      <3>1. \A id \in DOMAIN A : A[id] = [outgoing |-> A[id].outgoing,
                                          incoming |-> A[id].incoming]
        BY DEF RegistryInv, EdgesOK
      <3> QED  BY <1>4, <2>1, <3>1, EdgeEntered
    <2>3. from < to \/ threadgroup_callback_map'[to].is_mutex_group
      <3>1. from \in Nat /\ from < next_threadgroup_id
        BY <1>1, <2>1, VisitIds DEF RegistryInv, Ids
      <3> QED  BY <1>2, <2>1, <3>1, VisitReads DEF RegistryInv
    <2> DEFINE out(id) == Get(A, id, NoEdges).outgoing
               in(id)  == Get(A, id, NoEdges).incoming
    <2>4. ThreadGroups' = ThreadGroups \cup {from, to}
      BY <2>2 DEF EntersEdge, ThreadGroups
    <2>5. ASSUME NEW id \in ThreadGroups'
          PROVE  /\ Outgoing(id)' = out(id) \cup (IF id = from THEN {to} ELSE {})
                 /\ Incoming(id)' = in(id) \cup (IF id = to THEN {from} ELSE {})
      <3> DEFINE o == out(id) \cup (IF id = from THEN {to} ELSE {})
                 i == in(id) \cup (IF id = to THEN {from} ELSE {})
      <3>1. threadgroup_adjacency_list'[id] = [outgoing |-> o, incoming |-> i]
        BY <2>2, Zenon DEF EntersEdge, ThreadGroups
      <3> HIDE DEF o, i
      <3>2. /\ threadgroup_adjacency_list'[id].outgoing = o
            /\ threadgroup_adjacency_list'[id].incoming = i
        BY <3>1
      <3> QED  BY <3>2 DEF o, i, Outgoing, Incoming
    <2>6. ASSUME NEW id
          PROVE  /\ id \in ThreadGroups =>
                      out(id) = Outgoing(id) /\ in(id) = Incoming(id)
                 /\ id \notin ThreadGroups => out(id) = {} /\ in(id) = {}
      BY DEF Get, NoEdges, ThreadGroups, Outgoing, Incoming
    <2> HIDE DEF out, in
    <2>7. \A i \in ThreadGroups' : /\ Outgoing(i)' \subseteq ThreadGroups'
                                   /\ Incoming(i)' \subseteq ThreadGroups'
      BY <2>4, <2>5, <2>6 DEF ThreadGraphOK
    <2>8. ASSUME NEW i \in ThreadGroups', NEW o \in ThreadGroups'
          PROVE  o \in Outgoing(i)' <=> i \in Incoming(o)'
      <3>1. o \in out(i) <=> i \in in(o)
        <4>1. CASE i \in ThreadGroups /\ o \in ThreadGroups
          BY <2>6, <4>1 DEF ThreadGraphOK
        <4>2. CASE ~(i \in ThreadGroups /\ o \in ThreadGroups)
          BY <2>6, <4>2 DEF ThreadGraphOK
        <4> QED  BY <4>1, <4>2
      <3> QED  BY <2>5, <3>1
    <2>9. ASSUME NEW i \in ThreadGroups', NEW o \in ThreadGroups',
                 o \in Outgoing(i)'
          PROVE  i < o \/ threadgroup_callback_map'[o].is_mutex_group
      <3>1. CASE o \in out(i)
        <4>1. /\ i \in ThreadGroups /\ o \in ThreadGroups
              /\ o \in Outgoing(i)
          BY <2>6, <3>1 DEF ThreadGraphOK
        <4>2. i < o \/ threadgroup_callback_map[o].is_mutex_group
          BY <4>1 DEF ThreadGraphOK
        <4> QED  BY <1>1, <1>2, <4>1, <4>2
      <3>2. CASE i = from /\ o = to
        BY <2>3, <3>2
      <3> QED  BY <2>5, <2>9, <3>1, <3>2
    <2> QED  BY <2>7, <2>8, <2>9 DEF ThreadGraphOK
  <1> QED
    BY <1>3, <1>4, VisitWrites DEF RegistryInv

\* A cycle leads out of a mutex group: where no edge goes to one, the groups
\* get younger and younger.
LEMMA NoFeedbackNoCycle ==
    ASSUME RegistryInv, ThreadGraphOK, ~MutexFeedback,
           NEW e \in ThreadGroupGraph.edge
    PROVE  ~Connected(ThreadGroupGraph, e[2], e[1])
  <1> DEFINE G == ThreadGroupGraph
             a == e[1]
             b == e[2]
             IsMutex(x) == threadgroup_callback_map[x].is_mutex_group
             Back(x) == Connected(G, x, a)
             S == {y \in G.node : Connected(G, b, y) /\ (a < y \/ ~Back(y))}
  <1> SUFFICES ASSUME Back(b) PROVE FALSE
    OBVIOUS
  <1>1. /\ IsGraph(G) /\ G.node = ThreadGroups
        /\ \A d \in G.edge : /\ d[1] \in G.node /\ d[2] \in G.node
                             /\ d[1] < d[2] \/ IsMutex(d[2])
    BY GraphOfGroups DEF ThreadGraphOK
  <1>2. ThreadGroups \subseteq Nat
    BY DEF RegistryInv, MutexInv, IdsOK, EdgesOK, ThreadGroups
  <1>9. e \in G.edge
    OBVIOUS
  <1>3. \A d \in G.edge : IsMutex(d[1]) => ~Connected(G, d[2], d[1])
    BY DEF MutexFeedback
  <1> HIDE DEF G, IsMutex
  \* A mutex group that is reached from a's successor does not lead back.
  <1>4. ASSUME NEW x \in G.node, IsMutex(x), Connected(G, b, x) PROVE ~Back(x)
    <2> SUFFICES ASSUME Back(x) PROVE FALSE
      OBVIOUS
    <2>1. CASE x = a
      BY <1>3, <1>4, <1>9, <2>1
    <2>2. CASE x # a
      <3>1. PICK d \in G.edge : d[1] = x /\ Connected(G, d[2], a)
        BY <1>1, <2>2, FirstEdge
      <3>2. Connected(G, d[2], b)
        BY <3>1, ConnectedFurther DEF G
      <3>3. Connected(G, d[2], x)
        BY <1>4, <3>2, ConnectedOver
      <3> QED  BY <1>3, <1>4, <3>1, <3>3
    <2> QED  BY <2>1, <2>2
  <1>5. b \in S
    BY <1>1, <1>4, ConnectedItself DEF G
  <1>6. ASSUME NEW d \in G.edge, d[1] \in S PROVE d[2] \in S
    <2>1. d[2] \in G.node /\ Connected(G, b, d[2])
      BY <1>1, <1>6, ConnectedFurther
    <2>2. ~Back(d[1]) => ~Back(d[2])
      BY <1>1, ConnectedByEdge
    <2>3. a < d[1] /\ d[1] < d[2] => a < d[2]
      BY <1>1, <1>2 DEF G
    <2>4. IsMutex(d[2]) => ~Back(d[2])
      BY <1>4, <2>1
    <2> QED  BY <1>1, <1>6, <2>1, <2>2, <2>3, <2>4
  <1>7. a \in S
    <2>1. S \in SUBSET G.node
      OBVIOUS
    <2> HIDE DEF S
    <2> QED  BY <1>5, <1>6, <2>1 DEF Connected
  <1>8. ~(a < a)
    <2>1. a \in ThreadGroups
      BY <1>1, <1>9
    <2>2. \A x \in Nat : ~(x < x)
      OBVIOUS
    <2> QED  BY <1>2, <2>1, <2>2
  <1> QED  BY <1>7, <1>8, ConnectedItself

\* An enumeration of a finite set is a sequence of all its elements.
LEMMA Enumeration ==
    ASSUME NEW S, IsFiniteSet(S), NEW order \in SE!SetToSeqs(S)
    PROVE  /\ order \in Seq(S) /\ Len(order) = Cardinality(S)
           /\ \A x \in S : \E i \in DOMAIN order : order[i] = x
  <1> DEFINE m == Cardinality(S)
  <1>1. /\ order \in [1..m -> S] /\ m \in Nat
        /\ \A i, j \in 1..m : i # j => order[i] # order[j]
    <2>1. SE!Cardinality(S) = Cardinality(S)
      BY Zenon DEF SE!Cardinality, Cardinality
    <2>2. /\ order \in [1..SE!Cardinality(S) -> S]
          /\ \A i, j \in 1..SE!Cardinality(S) : i # j => order[i] # order[j]
      BY Zenon DEF SE!SetToSeqs
    <2> QED  BY <2>1, <2>2, FS_CardinalityType
  <1>2. order \in Injection(1..m, S)
    BY <1>1 DEF Injection, IsInjective
  <1>3. Cardinality(1..m) = m
    BY <1>1, FS_Interval
  <1>4. order \in Surjection(1..m, S)
    BY <1>2, <1>3, FS_Injection
  <1> HIDE DEF m
  <1> QED  BY <1>1, <1>4 DEF Surjection, m
-----------------------------------------------------------------------------
(***************************************************************************)
(* A visit of recursive_threadgroup_traversal                              *)
(***************************************************************************)

\* The pending calls but for the one that is made.
LaterGroups == {Tail(stack)[k].threadgroup_id : k \in DOMAIN Tail(stack)}

\* The visited group, and the calls it is visited in the place of.
LEMMA ThreadVisit ==
    ASSUME RegistryInv, ThreadGraphOK, CountsOK, VisitThreadGroup,
           NEW id, id = Head(stack).threadgroup_id,
           NEW depth, depth = Head(stack).depth
    PROVE  /\ id \in ThreadGroups /\ depth \in Nat \ {0}
           /\ PendingGroups = {id} \cup LaterGroups
           /\ stack' \in Seq(ThreadCalls)
           /\ PendingGroups' = Outgoing(id) \cup LaterGroups
           /\ \A k \in DOMAIN stack' :
                \/ \E o \in Outgoing(id) : stack'[k] = ThreadCall(o, depth + 1)
                \/ \E j \in DOMAIN stack : stack'[k] = stack[j]
           /\ \E j \in DOMAIN stack : stack[j].threadgroup_id = id
                                      /\ stack[j].depth = depth
  <1>1. stack \in Seq(ThreadCalls) /\ stack # << >>
    BY DEF CountsOK, VisitThreadGroup
  <1>2. /\ Head(stack) \in ThreadCalls /\ Head(stack) = stack[1]
        /\ 1 \in DOMAIN stack
        /\ Tail(stack) \in Seq(ThreadCalls)
        /\ Len(Tail(stack)) = Len(stack) - 1
        /\ \A k \in 1..Len(Tail(stack)) :
             Tail(stack)[k] = stack[k + 1] /\ k + 1 \in DOMAIN stack
        /\ \A j \in DOMAIN stack : j # 1 =>
             j - 1 \in 1..Len(Tail(stack)) /\ Tail(stack)[j - 1] = stack[j]
        /\ Len(Tail(stack)) \in Nat /\ DOMAIN Tail(stack) = 1..Len(Tail(stack))
    BY <1>1
  <1>3. id \in ThreadGroups /\ depth \in Nat \ {0}
    BY <1>2 DEF ThreadCalls
  <1>4. PendingGroups = {id} \cup LaterGroups
    <2>1. \A k \in DOMAIN Tail(stack) :
            Tail(stack)[k].threadgroup_id \in PendingGroups
      BY <1>2 DEF PendingGroups
    <2>2. id \in PendingGroups
      BY <1>2 DEF PendingGroups
    <2>3. \A j \in DOMAIN stack : stack[j].threadgroup_id \in {id} \cup LaterGroups
      BY <1>2 DEF LaterGroups
    <2> QED  BY <2>1, <2>2, <2>3 DEF PendingGroups, LaterGroups
  <1>5. IsFiniteSet(Outgoing(id)) /\ Outgoing(id) \subseteq ThreadGroups
    BY <1>3, GraphOfGroups, FS_Subset DEF ThreadGraphOK, IsGraph
  <1>6. PICK order \in SE!SetToSeqs(Outgoing(id)) :
          stack' = [i \in DOMAIN order |-> ThreadCall(order[i], depth + 1)]
                     \o Tail(stack)
    BY DEF VisitThreadGroup, Outgoing
  <1> DEFINE C == [i \in DOMAIN order |-> ThreadCall(order[i], depth + 1)]
             m == Len(order)
  <1>7. /\ m \in Nat /\ DOMAIN order = 1..m
        /\ \A i \in 1..m : order[i] \in Outgoing(id)
        /\ \A x \in Outgoing(id) : \E i \in 1..m : order[i] = x
    BY <1>5, Enumeration
  <1>8. \A o \in Outgoing(id) : /\ ThreadCall(o, depth + 1) \in ThreadCalls
                                /\ ThreadCall(o, depth + 1).threadgroup_id = o
    BY <1>3, <1>5 DEF ThreadCall, ThreadCalls
  <1>9. /\ C \in Seq(ThreadCalls) /\ Len(C) = m /\ DOMAIN C = 1..m
        /\ \A i \in 1..m : C[i] = ThreadCall(order[i], depth + 1)
    <2>1. C \in [1..m -> ThreadCalls]
      BY <1>7, <1>8
    <2> HIDE DEF m
    <2>2. C \in Seq(ThreadCalls) /\ Len(C) = m
      BY <1>7, <2>1
    <2> QED  BY <1>7, <2>2
  <1> HIDE DEF C, m
  <1>10. /\ stack' = C \o Tail(stack) /\ stack' \in Seq(ThreadCalls)
         /\ DOMAIN stack' = 1..(m + Len(Tail(stack)))
         /\ \A i \in 1..m : stack'[i] = C[i]
         /\ \A i \in 1..Len(Tail(stack)) : stack'[m + i] = Tail(stack)[i]
         /\ \A k \in DOMAIN stack' :
              k \in 1..m \/ \E i \in 1..Len(Tail(stack)) : k = m + i
    <2>1. stack' = C \o Tail(stack)
      BY <1>6 DEF C
    <2>2. stack' \in Seq(ThreadCalls) /\ Len(stack') = m + Len(Tail(stack))
      BY <1>2, <1>9, <2>1
    <2>3. DOMAIN stack' = 1..(m + Len(Tail(stack)))
      BY <2>2
    <2>4. /\ \A i \in 1..m : stack'[i] = C[i]
          /\ \A i \in 1..Len(Tail(stack)) : stack'[m + i] = Tail(stack)[i]
      BY <1>2, <1>7, <1>9, <2>1
    <2>5. \A k \in DOMAIN stack' :
            k \in 1..m \/ (k - m \in 1..Len(Tail(stack)) /\ k = m + (k - m))
      BY <1>2, <1>7, <2>3
    <2> QED  BY <2>1, <2>2, <2>3, <2>4, <2>5
  <1>11. \A k \in DOMAIN stack' :
           \/ \E o \in Outgoing(id) : stack'[k] = ThreadCall(o, depth + 1)
           \/ \E j \in DOMAIN stack : stack'[k] = stack[j]
    <2> SUFFICES ASSUME NEW k \in DOMAIN stack'
                 PROVE  \/ \E o \in Outgoing(id) :
                              stack'[k] = ThreadCall(o, depth + 1)
                        \/ \E j \in DOMAIN stack : stack'[k] = stack[j]
      OBVIOUS
    <2>1. CASE k \in 1..m
      BY <1>7, <1>9, <1>10, <2>1
    <2>2. ASSUME NEW i \in 1..Len(Tail(stack)), k = m + i
          PROVE  \E j \in DOMAIN stack : stack'[k] = stack[j]
      <3>1. i + 1 \in DOMAIN stack /\ Tail(stack)[i] = stack[i + 1]
        BY <1>2, <2>2
      <3> QED  BY <1>10, <2>2, <3>1
    <2> QED  BY <1>10, <2>1, <2>2
  <1>12. PendingGroups' = Outgoing(id) \cup LaterGroups
    <2>1. \A k \in DOMAIN stack' :
            stack'[k].threadgroup_id \in Outgoing(id) \cup LaterGroups
      <3> SUFFICES ASSUME NEW k \in DOMAIN stack'
                   PROVE  stack'[k].threadgroup_id \in Outgoing(id) \cup LaterGroups
        OBVIOUS
      <3>1. CASE k \in 1..m
        BY <1>7, <1>8, <1>9, <1>10, <3>1
      <3>2. ASSUME NEW i \in 1..Len(Tail(stack)), k = m + i
            PROVE  stack'[k].threadgroup_id \in LaterGroups
        BY <1>2, <1>10, <3>2 DEF LaterGroups
      <3> QED  BY <1>10, <3>1, <3>2
    <2>2. \A o \in Outgoing(id) : \E k \in DOMAIN stack' :
            stack'[k].threadgroup_id = o
      <3> SUFFICES ASSUME NEW o \in Outgoing(id)
                   PROVE  \E k \in DOMAIN stack' : stack'[k].threadgroup_id = o
        OBVIOUS
      <3>1. PICK i \in 1..m : order[i] = o
        BY <1>7
      <3>2. i \in DOMAIN stack'
        BY <1>2, <1>7, <1>10
      <3> QED  BY <1>8, <1>9, <1>10, <3>1, <3>2
    <2>3. \A g \in LaterGroups : \E k \in DOMAIN stack' :
            stack'[k].threadgroup_id = g
      <3> SUFFICES ASSUME NEW g \in LaterGroups
                   PROVE  \E k \in DOMAIN stack' : stack'[k].threadgroup_id = g
        OBVIOUS
      <3>1. PICK i \in 1..Len(Tail(stack)) : g = Tail(stack)[i].threadgroup_id
        BY <1>2 DEF LaterGroups
      <3>2. m + i \in DOMAIN stack'
        BY <1>2, <1>7, <1>10
      <3> QED  BY <1>10, <3>1, <3>2
    <2> QED  BY <2>1, <2>2, <2>3 DEF PendingGroups
  <1>13. stack[1].threadgroup_id = id /\ stack[1].depth = depth
    BY <1>2
  <1> QED  BY <1>2, <1>3, <1>4, <1>10, <1>11, <1>12, <1>13

\* Which groups are roots does not change while threads are counted, nor does
\* the count that a group ought to have, unless one of its predecessors' does.
LEMMA OtherCounts ==
    ASSUME RegistryInv, ThreadGraphOK, VisitThreadGroup,
           NEW id, id = Head(stack).threadgroup_id, id \in ThreadGroups
    PROVE  /\ threadgroup_callback_map'[id].num_threads = NumThreads(id)
           /\ \A v \in ThreadGroups \ {id} :
                threadgroup_callback_map'[v] = threadgroup_callback_map[v]
           /\ \A v \in ThreadGroups : IsThreadRoot(v)' = IsThreadRoot(v)
           /\ \A v \in ThreadGroups :
                v = id \/ v \notin Outgoing(id) => NumThreads(v)' = NumThreads(v)
  <1>1. /\ threadgroup_callback_map' =
             [threadgroup_callback_map EXCEPT ![id].num_threads = NumThreads(id)]
        /\ UNCHANGED <<adjacency_list, threadgroup_adjacency_list>>
    BY DEF VisitThreadGroup, graphVars
  <1>2. ThreadGroups \subseteq DOMAIN threadgroup_callback_map
    BY DEF RegistryInv, EdgesOK, ThreadGroups
  <1>3. /\ \A v \in ThreadGroups \ {id} :
             threadgroup_callback_map'[v] = threadgroup_callback_map[v]
        /\ threadgroup_callback_map'[id].num_threads = NumThreads(id)
        /\ threadgroup_callback_map'[id].first_callback
             = threadgroup_callback_map[id].first_callback
        /\ threadgroup_callback_map'[id].is_mutex_group
             = threadgroup_callback_map[id].is_mutex_group
    <2>1. threadgroup_callback_map[id] =
            [first_callback |-> threadgroup_callback_map[id].first_callback,
             fixed_priority |-> threadgroup_callback_map[id].fixed_priority,
             num_threads |-> threadgroup_callback_map[id].num_threads,
             is_mutex_group |-> threadgroup_callback_map[id].is_mutex_group]
      BY <1>2 DEF RegistryInv, MutexInv, EntriesOK
    <2> DEFINE n == NumThreads(id)
    <2>2. threadgroup_callback_map' =
             [threadgroup_callback_map EXCEPT ![id].num_threads = n]
      BY <1>1
    <2> HIDE DEF n
    <2>3. /\ \A v \in ThreadGroups \ {id} :
               threadgroup_callback_map'[v] = threadgroup_callback_map[v]
          /\ threadgroup_callback_map'[id].num_threads = n
          /\ threadgroup_callback_map'[id].first_callback
               = threadgroup_callback_map[id].first_callback
          /\ threadgroup_callback_map'[id].is_mutex_group
               = threadgroup_callback_map[id].is_mutex_group
      BY <1>2, <2>1, <2>2
    <2> QED  BY <2>3 DEF n
  <1>4. ASSUME NEW v \in ThreadGroups
        PROVE  /\ threadgroup_callback_map'[v].first_callback
                    = threadgroup_callback_map[v].first_callback
               /\ threadgroup_callback_map'[v].is_mutex_group
                    = threadgroup_callback_map[v].is_mutex_group
    BY <1>3
  <1>5. ASSUME NEW v \in ThreadGroups
        PROVE  /\ HasNoPredecessor(v)' = HasNoPredecessor(v)
               /\ IsThreadRoot(v)' = IsThreadRoot(v)
               /\ RootThreads(v)' = RootThreads(v)
    <2>1. HasNoPredecessor(v)' = HasNoPredecessor(v)
      BY <1>1 DEF HasNoPredecessor
    <2>2. IsThreadRoot(v)' = IsThreadRoot(v)
      BY <1>4, <2>1 DEF IsThreadRoot
    <2>3. RootThreads(v)' = RootThreads(v)
      BY <1>1, <1>4 DEF RootThreads
    <2> QED  BY <2>1, <2>2, <2>3
  <1>6. ASSUME NEW v \in ThreadGroups, v = id \/ v \notin Outgoing(id)
        PROVE  NumThreads(v)' = NumThreads(v)
    <2> DEFINE P == Incoming(v) \ {v}
    <2>1. P' = P
      BY <1>1 DEF Incoming
    <2>2. \A p \in P : p \in ThreadGroups \ {id}
      BY <1>6 DEF ThreadGraphOK
    <2>3. \A p \in P : threadgroup_callback_map'[p].num_threads
                         = threadgroup_callback_map[p].num_threads
      BY <1>3, <2>2
    <2> HIDE DEF P
    <2>4. Threads(P)' = Threads(P)
      <3>1. [p \in P' |-> threadgroup_callback_map'[p].num_threads]
              = [p \in P |-> threadgroup_callback_map[p].num_threads]
        BY <2>1, <2>3
      <3> QED  BY <3>1, Zenon DEF Threads
    <2>5. /\ ThreadsOfPredecessors(v) = Threads(P) % UINT16_MOD
          /\ ThreadsOfPredecessors(v)' = Threads(P)' % UINT16_MOD
      BY DEF ThreadsOfPredecessors, P, Incoming
    <2> QED  BY <1>5, <2>4, <2>5 DEF NumThreads
  <1> QED  BY <1>3, <1>5, <1>6

\* A visited group gets its count; its successors' may be stale now, and they
\* are called.
LEMMA VisitKeepsCounts ==
    ASSUME RegistryInv, ThreadGraphOK, CountsOK, VisitThreadGroup
    PROVE  ThreadGraphOK' /\ CountsOK'
  <1> DEFINE id == Head(stack).threadgroup_id
             depth == Head(stack).depth
             G == ThreadGroupGraph
  <1>1. /\ phase = "threads" /\ phase' = phase
        /\ UNCHANGED <<adjacency_list, threadgroup_adjacency_list, rootsLeft>>
    BY DEF VisitThreadGroup, graphVars
  <1>2. /\ id \in ThreadGroups /\ depth \in Nat \ {0}
        /\ PendingGroups = {id} \cup LaterGroups
        /\ stack' \in Seq(ThreadCalls)
        /\ PendingGroups' = Outgoing(id) \cup LaterGroups
        /\ \A k \in DOMAIN stack' :
             \/ \E o \in Outgoing(id) : stack'[k] = ThreadCall(o, depth + 1)
             \/ \E j \in DOMAIN stack : stack'[k] = stack[j]
        /\ \E j \in DOMAIN stack : stack[j].threadgroup_id = id
                                   /\ stack[j].depth = depth
    BY ThreadVisit
  <1>3. /\ threadgroup_callback_map'[id].num_threads = NumThreads(id)
        /\ \A v \in ThreadGroups \ {id} :
             threadgroup_callback_map'[v] = threadgroup_callback_map[v]
        /\ \A v \in ThreadGroups : IsThreadRoot(v)' = IsThreadRoot(v)
        /\ \A v \in ThreadGroups :
             v = id \/ v \notin Outgoing(id) => NumThreads(v)' = NumThreads(v)
    BY <1>2, OtherCounts
  <1> HIDE DEF id, depth
  <1>4. /\ ThreadGroups' = ThreadGroups /\ G' = G /\ ThreadCalls' = ThreadCalls
        /\ \A i : Outgoing(i)' = Outgoing(i) /\ Incoming(i)' = Incoming(i)
    BY <1>1 DEF ThreadGroups, ThreadGroupGraph, ThreadCalls, Outgoing, Incoming
  <1>5. \A i \in ThreadGroups : threadgroup_callback_map'[i].is_mutex_group
                                  = threadgroup_callback_map[i].is_mutex_group
    BY CountsOnly DEF RegistryInv, OnlyCounts, EdgesOK, ThreadGroups
  <1>6. ThreadGraphOK'
    BY <1>4, <1>5 DEF ThreadGraphOK
  <1>7. MutexFeedback' = MutexFeedback
    <2>1. \A e \in G.edge : e[1] \in ThreadGroups
      BY GraphOfGroups
    <2> QED  BY <1>4, <1>5, <2>1 DEF MutexFeedback
  <1>8. \E V \in SUBSET ThreadGroups' : Counted(V)'
    <2>1. PICK V \in SUBSET ThreadGroups : Counted(V)
      BY <1>1 DEF CountsOK
    <2>7. PICK W : W = V \cup {id}
      OBVIOUS
    <2>2. ASSUME NEW r \in ThreadGroups \ rootsLeft, IsThreadRoot(r)
          PROVE  r \in W \cup PendingGroups'
      BY <1>2, <2>7, <2>1, <2>2 DEF Counted
    <2>3. ASSUME NEW v \in W PROVE Outgoing(v) \subseteq W \cup PendingGroups'
      <3>1. CASE v = id
        BY <1>2, <2>7, <3>1
      <3>2. CASE v # id
        BY <1>2, <2>7, <2>1, <2>3, <3>2 DEF Counted
      <3> QED  BY <3>1, <3>2
    <2>4. ASSUME NEW v \in W, v \notin PendingGroups'
          PROVE  /\ threadgroup_callback_map'[v].num_threads = NumThreads(v)'
                 /\ v \notin Outgoing(v)
      <3>1. v \notin Outgoing(id) /\ v \notin LaterGroups /\ v \in ThreadGroups
        BY <1>2, <2>7, <2>1, <2>4
      <3>2. NumThreads(v)' = NumThreads(v)
        BY <1>3, <3>1
      <3>3. CASE v = id
        BY <1>3, <3>1, <3>2, <3>3
      <3>4. CASE v # id
        <4>1. v \in V /\ v \notin PendingGroups
          BY <1>2, <2>7, <2>4, <3>1, <3>4
        <4> QED  BY <1>3, <2>1, <3>1, <3>2, <3>4, <4>1 DEF Counted
      <3> QED  BY <3>3, <3>4
    <2>5. W \in SUBSET ThreadGroups'
      BY <1>2, <2>7, <1>4, <2>1
    <2>6. Counted(W)'
      <3>1. \A r \in ThreadGroups' \ rootsLeft' :
              IsThreadRoot(r)' => r \in W \cup PendingGroups'
        BY <1>1, <1>3, <1>4, <2>2
      <3>2. \A v \in W :
              /\ Outgoing(v)' \subseteq W \cup PendingGroups'
              /\ v \notin PendingGroups' =>
                   /\ threadgroup_callback_map'[v].num_threads = NumThreads(v)'
                   /\ v \notin Outgoing(v)'
        BY <1>4, <2>3, <2>4
      <3> QED  BY <3>1, <3>2 DEF Counted
    <2> QED  BY <2>5, <2>6
  <1>9. ASSUME ~MutexFeedback, NEW k \in DOMAIN stack'
        PROVE  stack'[k].depth <= Cardinality(Below(G, stack'[k].threadgroup_id))
    <2>1. \A j \in DOMAIN stack :
            stack[j].depth <= Cardinality(Below(G, stack[j].threadgroup_id))
      BY <1>1, <1>9 DEF CountsOK
    <2>2. ASSUME NEW o \in Outgoing(id), stack'[k] = ThreadCall(o, depth + 1)
          PROVE  stack'[k].depth <= Cardinality(Below(G, stack'[k].threadgroup_id))
      <3>1. <<id, o>> \in G.edge /\ IsGraph(G)
        BY <1>2, GraphOfGroups
      <3>2. ~Connected(G, o, id)
        BY <1>9, <3>1, NoFeedbackNoCycle
      <3>3. /\ Cardinality(Below(G, id)) \in Nat /\ Cardinality(Below(G, o)) \in Nat
            /\ Cardinality(Below(G, id)) < Cardinality(Below(G, o))
        <4> HIDE DEF G
        <4>1. PICK e \in G.edge : e[1] = id /\ e[2] = o
          BY <3>1
        <4> QED  BY <3>1, <3>2, <4>1, MoreBelow
      <3>4. depth <= Cardinality(Below(G, id))
        BY <1>2, <2>1
      <3>5. stack'[k].depth = depth + 1 /\ stack'[k].threadgroup_id = o
        BY <2>2 DEF ThreadCall
      <3> HIDE DEF G
      <3> QED  BY <1>2, <3>3, <3>4, <3>5
    <2> QED  BY <1>2, <2>1, <2>2
  <1>10. rootsLeft' \subseteq ThreadGroups'
    BY <1>1, <1>4 DEF CountsOK
  <1>11. CountsOK'
    BY <1>1, <1>2, <1>4, <1>7, <1>8, <1>9, <1>10 DEF CountsOK
  <1> QED  BY <1>6, <1>11

\* A call that is nested deeper than there are thread groups is on a cycle, so
\* there is feedback into a mutex group.
LEMMA OverflowIsFeedback ==
    ASSUME RegistryInv, ThreadGraphOK, CountsOK, StackOverflow
    PROVE  MutexFeedback
  <1> SUFFICES ASSUME ~MutexFeedback PROVE FALSE
    OBVIOUS
  <1> DEFINE id == Head(stack).threadgroup_id
             depth == Head(stack).depth
             G == ThreadGroupGraph
             n == next_threadgroup_id - 1
  <1>1. /\ stack \in Seq(ThreadCalls) /\ stack # << >>
        /\ \A k \in DOMAIN stack :
             stack[k].depth <= Cardinality(Below(G, stack[k].threadgroup_id))
    BY DEF StackOverflow, CountsOK
  <1>2. Head(stack) = stack[1] /\ 1 \in DOMAIN stack /\ depth \in Nat
    <2>1. Head(stack) = stack[1] /\ 1 \in DOMAIN stack /\ stack[1] \in ThreadCalls
      BY <1>1
    <2> QED  BY <2>1 DEF ThreadCalls
  <1>3. depth <= Cardinality(Below(G, id))
    BY <1>1, <1>2
  <1>4. /\ n \in Nat /\ DOMAIN threadgroup_callback_map = 1..n
        /\ ThreadGroups \subseteq 1..n
    BY DEF RegistryInv, MutexInv, IdsOK, EdgesOK, ThreadGroups
  <1>5. Below(G, id) \in SUBSET (1..n)
    BY <1>4, GraphOfGroups DEF Below
  <1>6. depth > Cardinality(1..n)
    BY <1>4 DEF StackOverflow
  <1> HIDE DEF G, id, depth, n
  <1>7. IsFiniteSet(1..n)
    BY <1>4, FS_Interval
  <1>8. /\ Cardinality(Below(G, id)) <= Cardinality(1..n)
        /\ Cardinality(1..n) \in Nat /\ Cardinality(Below(G, id)) \in Nat
    BY <1>5, <1>7, FS_Subset, FS_CardinalityType
  <1> QED  BY <1>2, <1>3, <1>6, <1>8

\* The registry starts without thread groups.
LEMMA CountsInit == Init => CountsInv
  <1> SUFFICES ASSUME Init PROVE CountsInv
    OBVIOUS
  <1>1. ThreadGroups = {} /\ phase = "register"
    BY DEF Init, EmptyMap, ThreadGroups
  <1> QED
    BY <1>1 DEF CountsInv, ThreadGraphOK, CountsOK, OverflowNeedsMutexFeedback

\* A step that leaves the groups and their graph alone keeps what was found of
\* them, if it is not one of the third part.
LEMMA SameGraph ==
    ASSUME CountsInv, RegistryInv, phase' # "threads",
           phase' = "overflow" => phase = "overflow",
           UNCHANGED <<threadgroup_callback_map, threadgroup_adjacency_list>>
    PROVE  CountsInv'
  <1>1. /\ ThreadGroups' = ThreadGroups /\ ThreadGroupGraph' = ThreadGroupGraph
        /\ \A i : Outgoing(i)' = Outgoing(i) /\ Incoming(i)' = Incoming(i)
    BY DEF ThreadGroups, ThreadGroupGraph, Outgoing, Incoming
  <1>2. ThreadGraphOK'
    BY <1>1 DEF CountsInv, ThreadGraphOK
  <1>3. CountsOK' /\ OverflowNeedsMutexFeedback'
    BY <1>1 DEF CountsInv, CountsOK, OverflowNeedsMutexFeedback
  <1> QED  BY <1>2, <1>3 DEF CountsInv

\* The third part starts a call for a root, and none for another group.
LEMMA StartKeepsCounts ==
    ASSUME CountsInv, RegistryInv, NEW r \in rootsLeft, StartAtThreadGroup(r)
    PROVE  CountsInv'
  <1> DEFINE G == ThreadGroupGraph
  <1>1. /\ phase = "threads" /\ phase' = phase /\ stack = << >>
        /\ rootsLeft' = rootsLeft \ {r} /\ r \in ThreadGroups
        /\ rootsLeft \subseteq ThreadGroups
        /\ UNCHANGED <<adjacency_list, threadgroup_callback_map,
                       threadgroup_adjacency_list>>
        /\ stack' = IF IsThreadRoot(r) THEN <<ThreadCall(r, 1)>> ELSE << >>
    BY DEF StartAtThreadGroup, graphVars, groupVars, CountsInv, CountsOK
  <1>2. /\ ThreadGroups' = ThreadGroups /\ G' = G /\ ThreadCalls' = ThreadCalls
        /\ MutexFeedback' = MutexFeedback
        /\ \A i : /\ Outgoing(i)' = Outgoing(i) /\ Incoming(i)' = Incoming(i)
                  /\ IsThreadRoot(i)' = IsThreadRoot(i)
                  /\ NumThreads(i)' = NumThreads(i)
    <2>1. /\ ThreadGroups' = ThreadGroups /\ G' = G /\ ThreadCalls' = ThreadCalls
          /\ MutexFeedback' = MutexFeedback
          /\ \A i : Outgoing(i)' = Outgoing(i) /\ Incoming(i)' = Incoming(i)
      BY <1>1 DEF ThreadGroups, ThreadGroupGraph, ThreadCalls, Outgoing,
                  Incoming, MutexFeedback
    <2>2. ASSUME NEW i PROVE /\ IsThreadRoot(i)' = IsThreadRoot(i)
                             /\ NumThreads(i)' = NumThreads(i)
      <3>1. Threads(Incoming(i) \ {i})' = Threads(Incoming(i) \ {i})
        BY <1>1, <2>1, Zenon DEF Threads
      <3>2. ThreadsOfPredecessors(i)' = ThreadsOfPredecessors(i)
        BY <3>1 DEF ThreadsOfPredecessors, Incoming
      <3>3. /\ HasNoPredecessor(i)' = HasNoPredecessor(i)
            /\ RootThreads(i)' = RootThreads(i)
        BY <1>1 DEF HasNoPredecessor, RootThreads
      <3> QED  BY <1>1, <3>2, <3>3 DEF NumThreads, IsThreadRoot
    <2> QED  BY <2>1, <2>2
  <1>3. PendingGroups = {} /\ PendingGroups' = IF IsThreadRoot(r) THEN {r} ELSE {}
    <2>1. ThreadCall(r, 1).threadgroup_id = r
      BY DEF ThreadCall
    <2> QED  BY <1>1, <2>1 DEF PendingGroups
  <1>4. \E V \in SUBSET ThreadGroups' : Counted(V)'
    <2>1. PICK V \in SUBSET ThreadGroups : Counted(V)
      BY <1>1 DEF CountsInv, CountsOK
    <2>2. \A q \in ThreadGroups' \ rootsLeft' :
            IsThreadRoot(q)' => q \in V \cup PendingGroups'
      BY <1>1, <1>2, <1>3, <2>1 DEF Counted
    <2>3. \A v \in V :
            /\ Outgoing(v)' \subseteq V \cup PendingGroups'
            /\ threadgroup_callback_map'[v].num_threads = NumThreads(v)'
            /\ v \notin Outgoing(v)'
      BY <1>1, <1>2, <1>3, <2>1 DEF Counted
    <2>4. Counted(V)'
      BY <2>2, <2>3 DEF Counted
    <2> QED  BY <1>2, <2>4
  <1>5. /\ stack' \in Seq(ThreadCalls')
        /\ \A k \in DOMAIN stack' :
             stack'[k].depth <= Cardinality(Below(G, stack'[k].threadgroup_id))
    <2>1. CASE ~IsThreadRoot(r)
      BY <1>1, <2>1, EmptySeq
    <2>2. CASE IsThreadRoot(r)
      <3>1. stack' = <<ThreadCall(r, 1)>> /\ ThreadCall(r, 1) \in ThreadCalls
        BY <1>1, <2>2 DEF ThreadCall, ThreadCalls
      <3>2. 1 <= Cardinality(Below(G, r))
        <4>1. r \in Below(G, r) /\ IsFiniteSet(Below(G, r))
          <5>1. IsGraph(G) /\ G.node = ThreadGroups
            BY GraphOfGroups DEF CountsInv
          <5>2. r \in Below(G, r)
            BY <1>1, <5>1, ConnectedItself DEF Below
          <5>3. Below(G, r) \in SUBSET G.node
            BY DEF Below
          <5> QED  BY <5>1, <5>2, <5>3, FS_Subset DEF IsGraph
        <4>2. Cardinality(Below(G, r)) \in Nat /\ Cardinality(Below(G, r)) # 0
          BY <4>1, FS_CardinalityType, FS_EmptySet
        <4> QED  BY <4>2
      <3>3. ThreadCall(r, 1).depth = 1 /\ ThreadCall(r, 1).threadgroup_id = r
        BY DEF ThreadCall
      <3> HIDE DEF G
      <3>4. /\ stack' \in Seq(ThreadCalls) /\ DOMAIN stack' = {1}
            /\ stack'[1].depth = 1 /\ stack'[1].threadgroup_id = r
        BY <3>1, <3>3
      <3> QED  BY <1>2, <3>2, <3>4
    <2> QED  BY <2>1, <2>2
  <1>6. CountsOK'
    BY <1>1, <1>2, <1>4, <1>5 DEF CountsOK
  <1>7. ThreadGraphOK'
    BY <1>1, <1>2 DEF CountsInv, ThreadGraphOK
  <1> QED  BY <1>1, <1>6, <1>7 DEF CountsInv, OverflowNeedsMutexFeedback

\* The third part begins with no group visited.
LEMMA PrioritiesKeepCounts ==
    ASSUME CountsInv, RegistryInv, AssignPriorities
    PROVE  CountsInv'
  <1>1. /\ phase' = "threads" /\ stack' = << >>
        /\ rootsLeft' = ThreadGroups'
        /\ UNCHANGED threadgroup_adjacency_list
    BY DEF AssignPriorities, ThreadGroups
  <1>2. /\ ThreadGroups' = ThreadGroups
        /\ \A i : Outgoing(i)' = Outgoing(i) /\ Incoming(i)' = Incoming(i)
    BY <1>1 DEF ThreadGroups, Outgoing, Incoming
  <1>3. \A i \in ThreadGroups : threadgroup_callback_map'[i].is_mutex_group
                                  = threadgroup_callback_map[i].is_mutex_group
    BY CountsOnly DEF RegistryInv, OnlyCounts, EdgesOK, ThreadGroups
  <1>4. ThreadGraphOK'
    BY <1>2, <1>3 DEF CountsInv, ThreadGraphOK
  <1>5. \E V \in SUBSET ThreadGroups' : Counted(V)'
    <2>1. PICK V : V = {}
      OBVIOUS
    <2>2. Counted(V)'
      BY <1>1, <2>1 DEF Counted
    <2> QED  BY <2>1, <2>2
  <1>6. CountsOK'
    BY <1>1, <1>5, EmptySeq DEF CountsOK
  <1> QED  BY <1>1, <1>4, <1>6 DEF CountsInv, OverflowNeedsMutexFeedback

\* Every step keeps the invariant.
LEMMA CountsStep == CountsInv /\ RegistryInv /\ [Next]_vars => CountsInv'
  <1> SUFFICES ASSUME CountsInv, RegistryInv, [Next]_vars PROVE CountsInv'
    OBVIOUS
  <1> USE DEF groupVars, graphVars, loopVars, callVars
  <1>1. CASE RegisterEntities \/ Constructed \/ Allocate
    BY <1>1, SameGraph DEF RegisterEntities, Constructed, Allocate
  <1>2. ASSUME NEW c \in chainsLeft, AddChain(c) PROVE CountsInv'
    BY <1>2, SameGraph DEF AddChain
  <1>3. ASSUME NEW cb \in rootsLeft, StartAtRoot(cb) PROVE CountsInv'
    BY <1>3, SameGraph DEF StartAtRoot
  <1>4. CASE CallbackNotFound \/ AlreadyVisited \/ ExportThrows
    BY <1>4, SameGraph DEF CallbackNotFound, AlreadyVisited, ExportThrows
  <1>5. CASE VisitCallback
    <2>1. phase' = "callbacks"
      BY <1>5 DEF VisitCallback
    <2> QED
      BY <1>5, <2>1, VisitKeepsThreadGraph
         DEF CountsInv, CountsOK, OverflowNeedsMutexFeedback
  <1>6. CASE AssignPriorities
    BY <1>6, PrioritiesKeepCounts
  <1>7. ASSUME NEW id \in rootsLeft, StartAtThreadGroup(id) PROVE CountsInv'
    BY <1>7, StartKeepsCounts
  <1>8. CASE VisitThreadGroup
    <2>1. phase' = "threads"
      BY <1>8 DEF VisitThreadGroup
    <2> QED
      BY <1>8, <2>1, VisitKeepsCounts DEF CountsInv, OverflowNeedsMutexFeedback
  <1>9. CASE StackOverflow
    <2>1. MutexFeedback
      BY <1>9, OverflowIsFeedback DEF CountsInv
    <2>2. /\ phase' = "overflow"
          /\ UNCHANGED <<threadgroup_callback_map, threadgroup_adjacency_list>>
      BY <1>9 DEF StackOverflow
    <2>3. /\ ThreadGroups' = ThreadGroups /\ ThreadGroupGraph' = ThreadGroupGraph
          /\ \A i : Outgoing(i)' = Outgoing(i) /\ Incoming(i)' = Incoming(i)
      BY <2>2 DEF ThreadGroups, ThreadGroupGraph, Outgoing, Incoming
    <2>4. ThreadGraphOK'
      BY <2>2, <2>3 DEF CountsInv, ThreadGraphOK
    <2>5. OverflowNeedsMutexFeedback'
      BY <2>1, <2>2, <2>3 DEF MutexFeedback, OverflowNeedsMutexFeedback
    <2> QED  BY <2>2, <2>4, <2>5 DEF CountsInv, CountsOK
  <1>10. CASE ExportTimingInformation
    <2>1. phase' = "exported" /\ ThreadGroups' = {}
      BY <1>10 DEF ExportTimingInformation, EmptyMap, ThreadGroups
    <2> QED
      BY <2>1 DEF CountsInv, ThreadGraphOK, CountsOK, OverflowNeedsMutexFeedback
  <1>11. CASE UNCHANGED vars
    <2>1. UNCHANGED <<phase, stack, rootsLeft, adjacency_list,
                      threadgroup_callback_map, threadgroup_adjacency_list>>
      BY <1>11 DEF vars
    <2>2. /\ ThreadGroups' = ThreadGroups /\ ThreadGroupGraph' = ThreadGroupGraph
          /\ ThreadCalls' = ThreadCalls /\ PendingGroups' = PendingGroups
          /\ \A i : Outgoing(i)' = Outgoing(i) /\ Incoming(i)' = Incoming(i)
      BY <2>1 DEF ThreadGroups, ThreadGroupGraph, Outgoing, Incoming,
                  ThreadCalls, PendingGroups
    <2>3. ThreadGraphOK' /\ OverflowNeedsMutexFeedback'
      BY <2>1, <2>2 DEF CountsInv, ThreadGraphOK, OverflowNeedsMutexFeedback
    <2>4. \A i : /\ IsThreadRoot(i)' = IsThreadRoot(i)
                 /\ NumThreads(i)' = NumThreads(i)
      <3> SUFFICES ASSUME NEW i PROVE /\ IsThreadRoot(i)' = IsThreadRoot(i)
                                      /\ NumThreads(i)' = NumThreads(i)
        OBVIOUS
      <3>1. Threads(Incoming(i) \ {i})' = Threads(Incoming(i) \ {i})
        BY <2>1, <2>2, Zenon DEF Threads
      <3>2. ThreadsOfPredecessors(i)' = ThreadsOfPredecessors(i)
        BY <3>1 DEF ThreadsOfPredecessors, Incoming
      <3>3. /\ HasNoPredecessor(i)' = HasNoPredecessor(i)
            /\ RootThreads(i)' = RootThreads(i)
        BY <2>1 DEF HasNoPredecessor, RootThreads
      <3> QED  BY <2>1, <3>2, <3>3 DEF NumThreads, IsThreadRoot
    <2>5. \A V : Counted(V) => Counted(V)'
      BY <2>1, <2>2, <2>4 DEF Counted
    <2>6. MutexFeedback' = MutexFeedback
      BY <2>1, <2>2 DEF MutexFeedback
    <2>7. CountsOK'
      BY <2>1, <2>2, <2>5, <2>6 DEF CountsInv, CountsOK
    <2> QED  BY <2>3, <2>7 DEF CountsInv
  <1> QED
    BY <1>1, <1>2, <1>3, <1>4, <1>5, <1>6, <1>7, <1>8, <1>9, <1>10, <1>11
       DEF Next, Step, Finished

\* The recursion over thread groups runs away only if a mutex group is its own
\* successor, whatever the chains are and however often the registry is asked
\* again (recursive_threadgroup_traversal).
THEOREM OverflowsAreFeedback == Spec => []OverflowNeedsMutexFeedback
  <1>1. CountsInv => OverflowNeedsMutexFeedback
    BY DEF CountsInv
  <1> QED  BY <1>1, RegistryInit, RegistryStep, CountsInit, CountsStep, PTL DEF Spec

\* When the traversal is over, every group that a root leads to has been
\* visited, and its count is final.
LEMMA CountsAreFinal ==
    ASSUME RegistryInv, CountsInv, next_threadgroup_id <= UINT8_MOD
    PROVE  ThreadCountsBalance
  <1> SUFFICES ASSUME AllocationOver, NEW r \in ThreadGroups,
                      NEW id \in ThreadGroups, IsThreadRoot(r),
                      Connected(ThreadGroupGraph, r, id)
               PROVE  threadgroup_callback_map[id].num_threads =
                        IF id = r THEN RootThreads(id)
                        ELSE Threads(Incoming(id)) % UINT16_MOD
    BY DEF ThreadCountsBalance, ThreadGroups, Incoming
  <1> DEFINE G == ThreadGroupGraph
             n == next_threadgroup_id - 1
  <1>1. /\ phase = "threads" /\ PendingGroups = {} /\ rootsLeft = {}
        /\ ThreadGraphOK
    BY DEF AllocationOver, PendingGroups, CountsInv
  <1>2. PICK V \in SUBSET ThreadGroups : Counted(V)
    BY <1>1 DEF CountsInv, CountsOK
  <1>3. /\ IsGraph(G) /\ G.node = ThreadGroups
        /\ \A e \in G.edge : /\ e[1] \in ThreadGroups /\ e[2] \in ThreadGroups
                             /\ e[2] \in Outgoing(e[1])
    BY <1>1, GraphOfGroups
  <1>4. id \in V
    <2>1. r \in V
      BY <1>1, <1>2 DEF Counted
    <2>2. \A e \in G.edge : e[1] \in V => e[2] \in V
      BY <1>1, <1>2, <1>3 DEF Counted
    <2> QED  BY <1>2, <1>3, <2>1, <2>2 DEF Connected
  <1>5. /\ threadgroup_callback_map[id].num_threads = NumThreads(id)
        /\ id \notin Incoming(id)
    BY <1>1, <1>2, <1>4 DEF Counted, ThreadGraphOK
  <1>6. CASE id = r
    BY <1>5, <1>6 DEF NumThreads, IsThreadRoot
  <1>7. CASE id # r
    \* The last edge of the path makes a predecessor; fewer than UINT8_MOD
    \* predecessors are not counted as none.
    <2>1. Incoming(id) # {}
      <3> SUFFICES ASSUME Incoming(id) = {} PROVE FALSE
        OBVIOUS
      <3> DEFINE S == ThreadGroups \ {id}
      <3>1. \A e \in G.edge : e[2] \in S
        BY <1>1, <1>3 DEF ThreadGraphOK
      <3>2. S \in SUBSET G.node /\ r \in S
        BY <1>3, <1>7
      <3>3. id \in S
        BY <3>1, <3>2 DEF Connected
      <3> QED  BY <3>3
    <2>2. /\ n \in Nat /\ n < UINT8_MOD /\ Incoming(id) \in SUBSET (1..n)
      BY <1>1 DEF RegistryInv, MutexInv, IdsOK, EdgesOK, ThreadGraphOK, ThreadGroups
    <2> HIDE DEF n
    <2>3. /\ IsFiniteSet(Incoming(id)) /\ Cardinality(Incoming(id)) \in Nat
          /\ Cardinality(Incoming(id)) <= n
      <3>1. IsFiniteSet(1..n) /\ Cardinality(1..n) = n
        BY <2>2, FS_Interval
      <3> QED  BY <2>2, <3>1, FS_Subset, FS_CardinalityType
    <2>4. Cardinality(Incoming(id)) # 0
      BY <2>1, <2>3, FS_EmptySet
    <2>5. \A x \in Nat : x < UINT8_MOD => x % UINT8_MOD = x
      OBVIOUS
    <2>6. ~HasNoPredecessor(id)
      <3>1. Cardinality(Incoming(id)) < UINT8_MOD
        BY <2>2, <2>3
      <3> QED  BY <2>3, <2>4, <2>5, <3>1 DEF HasNoPredecessor, Incoming
    <2>7. NumThreads(id) = ThreadsOfPredecessors(id)
      BY <2>6 DEF NumThreads
    <2>8. ThreadsOfPredecessors(id) = Threads(Incoming(id) \ {id}) % UINT16_MOD
      BY DEF ThreadsOfPredecessors, Incoming
    <2>9. Incoming(id) \ {id} = Incoming(id)
      BY <1>5
    <2> QED  BY <1>5, <1>7, <2>7, <2>8, <2>9
  <1> QED  BY <1>6, <1>7

\* Each thread group that recursive_threadgroup_traversal reaches ends with the
\* sum of its predecessors' counts, in whatever order they were visited,
\* unless there are more thread groups than its uint8_t count of predecessors
\* can tell from none.
THEOREM ThreadCountsAreSums ==
    Spec => [](next_threadgroup_id <= UINT8_MOD => ThreadCountsBalance)
  <1>1. RegistryInv /\ CountsInv =>
          (next_threadgroup_id <= UINT8_MOD => ThreadCountsBalance)
    BY CountsAreFinal
  <1> QED  BY <1>1, RegistryInit, RegistryStep, CountsInit, CountsStep, PTL DEF Spec
-----------------------------------------------------------------------------
(***************************************************************************)
(* The inductive invariant of a well-formed allocation                     *)
(***************************************************************************)

\* What the chains in C say.
CallbacksIn(C) == UNION {SE!ToSet(input.chains[c].callbacks) : c \in C}
SuccessorsIn(C, cb) ==
    UNION {LET s == input.chains[c].callbacks
           IN {s[i + 1] : i \in Positions(s, cb) \ {Len(s)}} : c \in C}
PredecessionsIn(C, cb) ==
    UNION {{c} \X (Positions(input.chains[c].callbacks, cb) \ {1}) : c \in C}

ChainsRead == DOMAIN input.chains \ chainsLeft

\* The chains that were read are in adjacency_list_, edge by edge.
Entered ==
    /\ DOMAIN adjacency_list = CallbacksIn(ChainsRead)
    /\ IsFiniteSet(DOMAIN adjacency_list)
    /\ \A cb \in DOMAIN adjacency_list :
         /\ adjacency_list[cb].outgoing = SuccessorsIn(ChainsRead, cb)
         /\ IsFiniteSet(PredecessionsIn(ChainsRead, cb))
         /\ adjacency_list[cb].indegree =
              Cardinality(PredecessionsIn(ChainsRead, cb)) % UINT8_MOD
    /\ phase # "register" => DOMAIN callback_map = {input.name[e] : e \in Entities}

Cleared == DOMAIN adjacency_list = {} /\ DOMAIN callback_map = {}

ReadOK ==
    \/ Entered /\ (phase \notin {"register", "chains"} => chainsLeft = {})
    \/ Cleared /\ phase \notin {"register", "chains"}

Seen(cb) == cb \in Assigned \/ \E k \in DOMAIN stack : stack[k].callback = cb

\* Every root waits to be started or was seen; with a callback that has a
\* thread group, its successors were seen.
VisitedOK ==
    /\ phase = "callbacks" =>
         \A cb \in DOMAIN adjacency_list :
            /\ adjacency_list[cb].indegree = 0 => cb \in rootsLeft \/ Seen(cb)
            /\ cb \in Assigned => \A n \in adjacency_list[cb].outgoing : Seen(n)
    /\ phase = "threads" => Unassigned = {}

\* No in-degree of a callback exceeds what a uint8_t can count.
IndegreesFit ==
    \A cb \in ChainCallbacks : ChainIndegree(cb) <= UINT8_MOD

AllocationInv ==
    WellFormed /\ IndegreesFit => ReadOK /\ VisitedOK /\ phase # "threw"

\* Quotient and remainder, which are the only ones.
LEMMA Division ==
    ASSUME NEW a \in Nat, NEW m \in Nat \ {0}
    PROVE  /\ a \div m \in Nat /\ a % m \in 0..(m - 1)
           /\ a = m * (a \div m) + (a % m)
  OBVIOUS

LEMMA DivisionUnique ==
    ASSUME NEW m \in Nat \ {0}, NEW q \in Nat, NEW p \in Nat,
           NEW r \in 0..(m - 1), NEW s \in 0..(m - 1), m * q + r = m * p + s
    PROVE  r = s
  <1>1. ASSUME NEW x \in Nat, NEW y \in Nat, x < y PROVE m * y >= m * x + m
    <2>1. PICK k \in Nat : y = x + 1 + k
      <3>1. y - x - 1 \in Nat /\ y = x + 1 + (y - x - 1)
        BY <1>1
      <3> QED  BY <3>1
    <2>2. m * y = m * x + m + m * k /\ m * k \in Nat
      BY <2>1
    <2> QED  BY <2>2
  <1>2. m * q \in Nat /\ m * p \in Nat
    OBVIOUS
  <1>3. ~(q < p) /\ ~(p < q)
    BY <1>1, <1>2
  <1>4. q = p
    BY <1>3
  <1> QED  BY <1>2, <1>4

\* A sum may be reduced as it goes.
LEMMA ModuloSum ==
    ASSUME NEW a \in Nat, NEW b \in Nat, NEW m \in Nat \ {0}
    PROVE  ((a % m) + b) % m = (a + b) % m
  <1> DEFINE q == a \div m
             r == a % m
             p == (r + b) \div m
             s == (r + b) % m
             k == (a + b) \div m
             t == (a + b) % m
  <1>1. q \in Nat /\ r \in 0..(m - 1) /\ a = m * q + r
    BY Division
  <1>2. r + b \in Nat /\ a + b \in Nat
    BY <1>1
  <1>3. p \in Nat /\ s \in 0..(m - 1) /\ r + b = m * p + s
    BY <1>2, Division
  <1>4. k \in Nat /\ t \in 0..(m - 1) /\ a + b = m * k + t
    BY <1>2, Division
  <1> HIDE DEF q, r, p, s, k, t
  <1>5. m * k + t = m * (q + p) + s
    <2>1. m * (q + p) = m * q + m * p
      BY <1>1, <1>3
    <2>2. /\ m * q \in Nat /\ m * p \in Nat /\ m * k \in Nat
          /\ r \in Nat /\ s \in Nat /\ t \in Nat
      BY <1>1, <1>3, <1>4
    <2> HIDE DEF q
    <2> QED  BY <1>1, <1>3, <1>4, <2>1, <2>2
  <1>6. q + p \in Nat
    BY <1>1, <1>3
  <1>7. t = s
    BY <1>3, <1>4, <1>5, <1>6, DivisionUnique
  <1> QED  BY <1>7 DEF r, s, t

-----------------------------------------------------------------------------
(***************************************************************************)
(* The chains                                                              *)
(***************************************************************************)

\* What one chain says.
ChainOf(c)  == input.chains[c].callbacks
UsedBy(c)   == SE!ToSet(ChainOf(c))
NextIn(c, cb)   == {ChainOf(c)[i + 1] : i \in Positions(ChainOf(c), cb) \ {Len(ChainOf(c))}}
PlacesIn(c, cb) == Positions(ChainOf(c), cb) \ {1}
PairsIn(c, cb)  == {c} \X PlacesIn(c, cb)

\* What all chains say is what the user says.
LEMMA ChainsSay ==
    /\ ChainCallbacks = CallbacksIn(DOMAIN input.chains)
    /\ \A cb : /\ ChainSuccessors(cb) = SuccessorsIn(DOMAIN input.chains, cb)
               /\ ChainPredecessions(cb) = PredecessionsIn(DOMAIN input.chains, cb)
  BY DEF ChainCallbacks, CallbacksIn, ChainSuccessors, SuccessorsIn,
         ChainPredecessions, PredecessionsIn

\* What a chain adds to what others say.
LEMMA OneMoreChain ==
    ASSUME NEW C, NEW c, NEW cb
    PROVE  /\ CallbacksIn(C \cup {c}) = CallbacksIn(C) \cup UsedBy(c)
           /\ SuccessorsIn(C \cup {c}, cb)
                = SuccessorsIn(C, cb) \cup NextIn(c, cb)
           /\ PredecessionsIn(C \cup {c}, cb)
                = PredecessionsIn(C, cb) \cup PairsIn(c, cb)
  <1>1. CallbacksIn(C \cup {c}) = CallbacksIn(C) \cup UsedBy(c)
    BY DEF CallbacksIn, UsedBy, ChainOf
  <1>2. SuccessorsIn(C \cup {c}, cb) = SuccessorsIn(C, cb) \cup NextIn(c, cb)
    BY DEF SuccessorsIn, NextIn, ChainOf
  <1>3. PredecessionsIn(C \cup {c}, cb)
          = PredecessionsIn(C, cb) \cup PairsIn(c, cb)
    BY DEF PredecessionsIn, PlacesIn, PairsIn, ChainOf
  <1> QED  BY <1>1, <1>2, <1>3

\* Chains say nothing of a callback that is not in them.
LEMMA ChainsWithout ==
    ASSUME NEW C, NEW cb, cb \notin CallbacksIn(C)
    PROVE  SuccessorsIn(C, cb) = {} /\ PredecessionsIn(C, cb) = {}
  <1>1. \A c \in C : \A i \in DOMAIN ChainOf(c) : ChainOf(c)[i] # cb
    BY DEF CallbacksIn, ChainOf, SE!ToSet
  <1>2. \A c \in C : Positions(ChainOf(c), cb) = {}
    BY <1>1 DEF Positions
  <1> QED  BY <1>2 DEF SuccessorsIn, PredecessionsIn, ChainOf

\* What a chain is: a sequence of callbacks, with finitely many of them.
LEMMA ChainIsSequence ==
    ASSUME NamesOK, NEW c \in DOMAIN input.chains
    PROVE  /\ ChainOf(c) \in Seq(UsedBy(c)) /\ IsFiniteSet(UsedBy(c))
           /\ \A cb : PlacesIn(c, cb) \subseteq DOMAIN ChainOf(c)
                      /\ IsFiniteSet(PlacesIn(c, cb))
           /\ \A cb : NextIn(c, cb) \subseteq UsedBy(c)
           /\ \A cb : cb \notin UsedBy(c) => NextIn(c, cb) = {} /\ PlacesIn(c, cb) = {}
  <1> DEFINE s == ChainOf(c)
  <1>1. UsedBy(c) = {s[i] : i \in DOMAIN s}
    BY DEF UsedBy, SE!ToSet
  <1>2. s \in Seq(UsedBy(c))
    BY <1>1, InputsAssumption DEF NamesOK, ChainOf
  <1> HIDE DEF s
  <1>3. Len(s) \in Nat /\ DOMAIN s = 1..Len(s) /\ s \in [1..Len(s) -> UsedBy(c)]
    BY <1>2
  <1>4. IsFiniteSet(UsedBy(c))
    <2>1. s \in Surjection(1..Len(s), UsedBy(c))
      BY <1>1, <1>3 DEF Surjection
    <2> QED  BY <1>3, <2>1, FS_Interval, FS_Surjection
  <1>5. \A cb : PlacesIn(c, cb) \subseteq DOMAIN s
    BY DEF PlacesIn, Positions, s
  <1>6. IsFiniteSet(DOMAIN s)
    BY <1>3, FS_Interval
  <1>7. \A cb : IsFiniteSet(PlacesIn(c, cb))
    BY <1>5, <1>6, FS_Subset
  <1>8. ASSUME NEW cb PROVE NextIn(c, cb) \subseteq UsedBy(c)
    <2>1. \A i \in Positions(s, cb) \ {Len(s)} : i + 1 \in DOMAIN s
      BY <1>3 DEF Positions
    <2> QED  BY <1>1, <2>1 DEF NextIn, s
  <1>9. ASSUME NEW cb, cb \notin UsedBy(c)
        PROVE  NextIn(c, cb) = {} /\ PlacesIn(c, cb) = {}
    <2>1. Positions(s, cb) = {}
      BY <1>1, <1>9 DEF Positions
    <2> QED  BY <2>1 DEF NextIn, PlacesIn, s
  <1> QED  BY <1>2, <1>4, <1>5, <1>7, <1>8, <1>9 DEF s

\* A chain of two or more callbacks is entered edge by edge.
LEMMA ChainKeepsEntered ==
    ASSUME TraversalInv, Entered, NEW c \in chainsLeft, AddChain(c),
           Len(ChainOf(c)) >= 2
    PROVE  Entered'
  <1>0. PICK C : C = ChainsRead
    OBVIOUS
  <1> DEFINE s == ChainOf(c)
             entry(x) == Get(adjacency_list, x, NoAdjacency)
  <1>1. /\ c \in DOMAIN input.chains /\ NamesOK /\ c \notin C
        /\ UNCHANGED <<input, phase, callback_map>>
        /\ ChainsRead' = C \cup {c}
        /\ phase = "chains"
    BY <1>0 DEF AddChain, TraversalInv, NamesOK, ChainsRead
  <1>2. adjacency_list' =
          [cb \in DOMAIN adjacency_list \cup UsedBy(c) |->
             IF cb \notin UsedBy(c) THEN adjacency_list[cb]
             ELSE IF Len(s) < 2 THEN Reset(entry(cb))
             ELSE WithChain(entry(cb), input.chains[c], cb)]
    BY DEF AddChain, UsedBy, ChainOf, SE!ToSet
  <1>3. /\ s \in Seq(UsedBy(c)) /\ IsFiniteSet(UsedBy(c))
        /\ \A cb : PlacesIn(c, cb) \subseteq DOMAIN s
                   /\ IsFiniteSet(PlacesIn(c, cb))
        /\ \A cb : cb \notin UsedBy(c) => NextIn(c, cb) = {} /\ PlacesIn(c, cb) = {}
    BY <1>1, ChainIsSequence
  <1> HIDE DEF entry
  <1>4. ~(Len(s) < 2)
    BY <1>3
  <1> HIDE DEF s
  <1>5. /\ DOMAIN adjacency_list' = DOMAIN adjacency_list \cup UsedBy(c)
        /\ \A cb \in DOMAIN adjacency_list' :
             /\ cb \notin UsedBy(c) => adjacency_list'[cb] = adjacency_list[cb]
             /\ cb \in UsedBy(c) =>
                  adjacency_list'[cb] = WithChain(entry(cb), input.chains[c], cb)
    BY <1>2, <1>4
  <1>6. /\ DOMAIN adjacency_list' = CallbacksIn(C \cup {c})
        /\ IsFiniteSet(DOMAIN adjacency_list')
    <2>1. DOMAIN adjacency_list = CallbacksIn(C) /\ IsFiniteSet(DOMAIN adjacency_list)
      BY <1>0 DEF Entered
    <2>2. CallbacksIn(C \cup {c}) = CallbacksIn(C) \cup UsedBy(c)
      BY OneMoreChain
    <2>3. DOMAIN adjacency_list' = CallbacksIn(C \cup {c})
      BY <1>5, <2>1, <2>2
    <2>4. IsFiniteSet(DOMAIN adjacency_list')
      BY <1>3, <1>5, <2>1, FS_Union
    <2> QED  BY <2>3, <2>4
  <1>7. ASSUME NEW cb
        PROVE  /\ entry(cb).outgoing = SuccessorsIn(C, cb)
               /\ IsFiniteSet(PredecessionsIn(C, cb))
               /\ entry(cb).indegree = Cardinality(PredecessionsIn(C, cb)) % UINT8_MOD
    <2>1. CASE cb \in DOMAIN adjacency_list
      BY <1>0, <2>1 DEF Entered, entry, Get
    <2>2. CASE cb \notin DOMAIN adjacency_list
      <3>1. SuccessorsIn(C, cb) = {} /\ PredecessionsIn(C, cb) = {}
        BY <1>0, <2>2, ChainsWithout DEF Entered
      <3>2. entry(cb).outgoing = {} /\ entry(cb).indegree = 0
        BY <2>2 DEF entry, Get, NoAdjacency
      <3>3. 0 % UINT8_MOD = 0
        OBVIOUS
      <3> QED  BY <3>1, <3>2, <3>3, FS_EmptySet
    <2> QED  BY <2>1, <2>2
  <1>8. ASSUME NEW cb \in DOMAIN adjacency_list'
        PROVE  /\ adjacency_list'[cb].outgoing = SuccessorsIn(C \cup {c}, cb)
               /\ IsFiniteSet(PredecessionsIn(C \cup {c}, cb))
               /\ adjacency_list'[cb].indegree =
                    Cardinality(PredecessionsIn(C \cup {c}, cb)) % UINT8_MOD
    <2> DEFINE P == PredecessionsIn(C, cb)
               Q == PairsIn(c, cb)
    <2>1. /\ SuccessorsIn(C \cup {c}, cb) = SuccessorsIn(C, cb) \cup NextIn(c, cb)
          /\ PredecessionsIn(C \cup {c}, cb) = P \cup Q
      BY OneMoreChain
    <2>2. /\ IsFiniteSet(Q) /\ Cardinality(Q) = Cardinality(PlacesIn(c, cb))
          /\ Cardinality(PlacesIn(c, cb)) \in Nat
      <3>1. IsFiniteSet({c}) /\ Cardinality({c}) = 1
        BY FS_Singleton
      <3>2. IsFiniteSet(PlacesIn(c, cb)) /\ Cardinality(PlacesIn(c, cb)) \in Nat
        BY <1>3, FS_CardinalityType
      <3>3. IsFiniteSet(Q) /\ Cardinality(Q) = Cardinality({c}) * Cardinality(PlacesIn(c, cb))
        BY <3>1, <3>2, FS_Product DEF PairsIn
      <3> QED  BY <3>1, <3>2, <3>3
    <2>3. P \cap Q = {}
      BY <1>1 DEF PredecessionsIn, PairsIn
    <2>4. IsFiniteSet(P) /\ Cardinality(P) \in Nat
      BY <1>7, FS_CardinalityType
    <2>5. /\ IsFiniteSet(P \cup Q)
          /\ Cardinality(P \cup Q) = Cardinality(P) + Cardinality(PlacesIn(c, cb))
      <3>1. /\ IsFiniteSet(P \cup Q)
            /\ Cardinality(P \cup Q) = Cardinality(P) + Cardinality(Q) - Cardinality(P \cap Q)
        BY <2>2, <2>4, FS_Union
      <3>2. Cardinality(P \cap Q) = 0
        BY <2>3, FS_EmptySet
      <3> HIDE DEF P, Q
      <3> QED  BY <2>2, <2>4, <3>1, <3>2
    <2>6. CASE cb \notin UsedBy(c)
      <3>1. /\ adjacency_list'[cb] = adjacency_list[cb] /\ cb \in DOMAIN adjacency_list
            /\ adjacency_list[cb] = entry(cb)
        BY <1>5, <2>6 DEF entry, Get
      <3>2. NextIn(c, cb) = {} /\ Q = {}
        BY <1>3, <2>6 DEF PairsIn
      <3> QED  BY <1>7, <2>1, <2>4, <3>1, <3>2
    <2>7. CASE cb \in UsedBy(c)
      <3> DEFINE now == adjacency_list'[cb]
                 o == entry(cb).outgoing \cup NextIn(c, cb)
                 n == (entry(cb).indegree + Cardinality(PlacesIn(c, cb))) % UINT8_MOD
      <3>1. \E d, p, m : now = [outgoing |-> o, indegree |-> n, deadlines |-> d,
                                periods |-> p, min_deadline |-> m]
        <4>1. now = WithChain(entry(cb), input.chains[c], cb)
          BY <1>5, <2>7
        <4> QED  BY <4>1, Zenon DEF WithChain, NextIn, PlacesIn, ChainOf
      <3> HIDE DEF now, o, n
      <3>2. now.outgoing = o /\ now.indegree = n
        BY <3>1
      <3>3. n = Cardinality(P \cup Q) % UINT8_MOD
        <4>1. /\ n = ((Cardinality(P) % UINT8_MOD) + Cardinality(PlacesIn(c, cb)))
                       % UINT8_MOD
              /\ UINT8_MOD \in Nat \ {0}
          BY <1>7 DEF n
        <4> HIDE DEF P, Q
        <4>2. ((Cardinality(P) % UINT8_MOD) + Cardinality(PlacesIn(c, cb))) % UINT8_MOD
                = (Cardinality(P) + Cardinality(PlacesIn(c, cb))) % UINT8_MOD
          BY <2>2, <2>4, <4>1, ModuloSum
        <4> QED  BY <2>5, <4>1, <4>2
      <3> QED  BY <1>7, <2>1, <2>5, <3>2, <3>3 DEF now, o
    <2> QED  BY <2>6, <2>7
  <1>9. /\ \A D : CallbacksIn(D)' = CallbacksIn(D)
        /\ \A D, cb : /\ SuccessorsIn(D, cb)' = SuccessorsIn(D, cb)
                      /\ PredecessionsIn(D, cb)' = PredecessionsIn(D, cb)
    BY <1>1 DEF CallbacksIn, SuccessorsIn, PredecessionsIn
  <1>10. DOMAIN callback_map' = {input.name[e] : e \in Entities}'
    BY <1>1 DEF Entered, Entities
  <1> QED  BY <1>1, <1>6, <1>8, <1>9, <1>10 DEF Entered

-----------------------------------------------------------------------------
(***************************************************************************)
(* A visit of recursive_callback_traversal leaves no successor out         *)
(***************************************************************************)

\* adjacency_list_ when all chains were read.
LEMMA EnteredAll ==
    ASSUME Entered, chainsLeft = {}
    PROVE  /\ DOMAIN adjacency_list = ChainCallbacks
           /\ IsFiniteSet(ChainCallbacks)
           /\ \A cb \in ChainCallbacks :
                /\ adjacency_list[cb].outgoing = ChainSuccessors(cb)
                /\ IsFiniteSet(ChainPredecessions(cb))
                /\ adjacency_list[cb].indegree = ChainIndegree(cb) % UINT8_MOD
  <1>1. ChainsRead = DOMAIN input.chains
    BY DEF ChainsRead
  <1> QED  BY <1>1, ChainsSay DEF Entered, ChainIndegree

\* Where a callback has several successors, none of them is taken for one
\* without other predecessors.
LEMMA SeveralSuccessors ==
    ASSUME RegistryInv, WellFormed, IndegreesFit, Entered, chainsLeft = {},
           NEW cb \in ChainCallbacks, Cardinality(ChainSuccessors(cb)) > 1,
           NEW n \in ChainSuccessors(cb)
    PROVE  adjacency_list[n].indegree # 1
  <1>1. n \in ChainCallbacks
    BY EnteredAll DEF RegistryInv, TraversalInv, AdjacencyOK
  <1>2. /\ ChainIndegree(n) \in Nat /\ ChainIndegree(n) > 1
        /\ ChainIndegree(n) <= UINT8_MOD
    BY <1>1, EnteredAll, FS_CardinalityType DEF WellFormed, IndegreesFit, ChainIndegree
  <1>3. \A x, m \in Nat : x > 1 /\ x <= m => x % m # 1
    <2> SUFFICES ASSUME NEW x \in Nat, NEW m \in Nat, x > 1, x <= m PROVE x % m # 1
      OBVIOUS
    <2>1. CASE x = m
      <3>1. m % m = 0
        BY <2>1
      <3> QED  BY <2>1, <3>1
    <2>2. CASE x < m
      BY <2>2
    <2> QED  BY <2>1, <2>2
  <1> QED  BY <1>1, <1>2, <1>3, EnteredAll

\* A visit calls every successor, also where it looks at the first one only, and
\* forgets no pending call.
LEMMA VisitCallsSuccessors ==
    ASSUME RegistryInv, WellFormed, IndegreesFit, Entered, chainsLeft = {},
           VisitCallback
    PROVE  /\ \A n \in adjacency_list[Cb].outgoing :
                \E k \in DOMAIN stack' : stack'[k].callback = n
           /\ \A j \in DOMAIN stack : stack[j].callback # Cb =>
                \E k \in DOMAIN stack' : stack'[k].callback = stack[j].callback
  <1> DEFINE S == adjacency_list[Cb].outgoing
             tg == Rest
             prev == Call.prev_threadgroup_id
             T == Tail(stack)
  <1>1. /\ Cb \in ChainCallbacks /\ S = ChainSuccessors(Cb) /\ IsFiniteSet(S)
        /\ stack \in Seq(Calls) /\ stack # << >>
    BY EnteredAll, VisitReads DEF RegistryInv, TraversalInv, AdjacencyOK
  <1>2. PICK order \in SE!SetToSeqs(S) :
          stack' = CallsOfSuccessors(order, tg, prev) \o T
    BY VisitWrites DEF RegistryInv
  <1> DEFINE C == CallsOfSuccessors(order, tg, prev)
  <1>3. /\ order \in Seq(S) /\ Len(order) = Cardinality(S)
        /\ \A x \in S : \E i \in DOMAIN order : order[i] = x
    BY <1>1, Enumeration
  <1>4. Cardinality(S) > 1 => \A n \in S : adjacency_list[n].indegree # 1
    BY <1>1, SeveralSuccessors
  <1> HIDE DEF S, tg, prev
  <1>5. /\ C \in Seq([callback : S, threadgroup_id : {0, tg},
                      prev_threadgroup_id : {prev, tg}])
        /\ \A n \in S : \E k \in DOMAIN C : C[k].callback = n
    <2>1. C \in Seq([callback : S, threadgroup_id : {0, tg},
                     prev_threadgroup_id : {prev, tg}])
      BY <1>1, CallsToSuccessors
    <2>2. ASSUME NEW n \in S PROVE \E k \in DOMAIN C : C[k].callback = n
      <3>1. PICK i \in DOMAIN order : order[i] = n
        BY <1>3
      <3>2. order # << >> /\ Len(order) \in Nat /\ 1 \in DOMAIN order /\ order[1] \in S
        BY <1>3, <3>1
      <3>3. CASE adjacency_list[order[1]].indegree = 1
        <4>1. ~(Cardinality(S) > 1)
          BY <1>4, <3>2, <3>3
        <4>2. i = 1
          BY <1>3, <3>1, <3>2, <4>1
        <4>3. C = <<CallbackCall(order[1], tg, prev)>>
          BY <3>2, <3>3 DEF CallsOfSuccessors
        <4>4. CallbackCall(order[1], tg, prev).callback = n
          BY <3>1, <4>2 DEF CallbackCall
        <4> HIDE DEF C
        <4> QED  BY <4>3, <4>4
      <3>4. CASE adjacency_list[order[1]].indegree # 1
        <4>1. C = [j \in DOMAIN order |-> CallbackCall(order[j], 0, tg)]
          BY <3>2, <3>4 DEF CallsOfSuccessors
        <4>2. CallbackCall(order[i], 0, tg).callback = n
          BY <3>1 DEF CallbackCall
        <4> HIDE DEF C
        <4> QED  BY <3>1, <4>1, <4>2
      <3> QED  BY <3>3, <3>4
    <2> QED  BY <2>1, <2>2
  <1> HIDE DEF C
  <1>6. /\ Len(C) \in Nat /\ DOMAIN C = 1..Len(C)
        /\ T \in Seq(Calls) /\ Len(T) \in Nat /\ Len(T) = Len(stack) - 1
        /\ \A j \in DOMAIN stack : j # 1 => j - 1 \in 1..Len(T) /\ T[j - 1] = stack[j]
        /\ Call = stack[1]
    BY <1>1, <1>5 DEF Call
  <1>7. /\ \A k \in DOMAIN C : k \in DOMAIN stack' /\ stack'[k] = C[k]
        /\ \A i \in 1..Len(T) : /\ Len(C) + i \in DOMAIN stack'
                                /\ stack'[Len(C) + i] = T[i]
    <2>1. stack' = C \o T
      BY <1>2 DEF C
    <2> HIDE DEF T
    <2> DEFINE J == [callback : S, threadgroup_id : {0, tg},
                     prev_threadgroup_id : {prev, tg}]
               K == Calls \cup J
    <2>2. J \subseteq K /\ Calls \subseteq K /\ C \in Seq(J) /\ T \in Seq(Calls)
      BY <1>5, <1>6
    <2> HIDE DEF J, K
    <2>3. C \in Seq(K) /\ T \in Seq(K)
      BY <2>2, LargerSeq
    <2>4. /\ DOMAIN stack' = 1..(Len(C) + Len(T))
          /\ \A k \in 1..(Len(C) + Len(T)) :
               stack'[k] = IF k <= Len(C) THEN C[k] ELSE T[k - Len(C)]
      BY <2>1, <2>3
    <2>5. \A k \in DOMAIN C : k \in DOMAIN stack' /\ stack'[k] = C[k]
      BY <1>6, <2>4
    <2>6. \A i \in 1..Len(T) : /\ Len(C) + i \in 1..(Len(C) + Len(T))
                               /\ ~(Len(C) + i <= Len(C))
                               /\ Len(C) + i - Len(C) = i
      BY <1>6
    <2>7. \A i \in 1..Len(T) : /\ Len(C) + i \in DOMAIN stack'
                               /\ stack'[Len(C) + i] = T[i]
      BY <2>4, <2>6
    <2> QED  BY <2>5, <2>7
  <1>8. ASSUME NEW j \in DOMAIN stack, stack[j].callback # Cb
        PROVE  \E k \in DOMAIN stack' : stack'[k].callback = stack[j].callback
    <2>1. j # 1
      BY <1>6, <1>8 DEF Cb
    <2> QED  BY <1>6, <1>7, <2>1
  <1>9. \A n \in S : \E k \in DOMAIN stack' : stack'[k].callback = n
    BY <1>5, <1>7
  <1> QED  BY <1>8, <1>9 DEF S

\* The visited callback has a thread group now, its successors were seen, and
\* nothing that was seen is forgotten.
LEMMA VisitKeepsSeen ==
    ASSUME RegistryInv, WellFormed, IndegreesFit, Entered, chainsLeft = {},
           VisitedOK, VisitCallback
    PROVE  VisitedOK'
  <1> DEFINE mine == IF Opens THEN New ELSE Call.threadgroup_id
  <1>1. /\ phase = "callbacks" /\ phase' = phase /\ Cb \in DOMAIN callback_map
        /\ UNCHANGED <<adjacency_list, rootsLeft>>
        /\ callback_map' = [callback_map EXCEPT ![Cb].threadgroup_id = mine]
    BY VisitReads, VisitWrites DEF RegistryInv, VisitCallback
  <1>2. mine # 0
    <2>1. Opens => New \in 1..(next_threadgroup_id' - 1)
      BY VisitIds DEF RegistryInv
    <2>2. next_threadgroup_id' \in Nat
      BY VisitReads DEF RegistryInv
    <2>3. ~Opens => Call.threadgroup_id # 0
      BY VisitReads DEF RegistryInv
    <2> QED  BY <2>1, <2>2, <2>3
  <1> HIDE DEF mine
  <1>3. Assigned' = Assigned \cup {Cb}
    <2>1. callback_map[Cb] = [entity |-> callback_map[Cb].entity,
                              group |-> callback_map[Cb].group,
                              threadgroup_id |-> callback_map[Cb].threadgroup_id]
      BY <1>1 DEF RegistryInv, MutexInv, EntriesOK
    <2>2. /\ DOMAIN callback_map' = DOMAIN callback_map
          /\ \A n \in DOMAIN callback_map : n # Cb =>
               callback_map'[n] = callback_map[n]
          /\ callback_map'[Cb].threadgroup_id = mine
      BY <1>1, <2>1
    <2> QED  BY <1>1, <1>2, <2>2 DEF Assigned
  <1>4. ASSUME NEW cb, Seen(cb) PROVE Seen(cb)'
    BY <1>3, <1>4, VisitCallsSuccessors DEF Seen
  <1>5. \A n \in adjacency_list[Cb].outgoing : Seen(n)'
    BY VisitCallsSuccessors DEF Seen
  <1>6. ASSUME NEW cb \in DOMAIN adjacency_list
        PROVE  /\ adjacency_list[cb].indegree = 0 => cb \in rootsLeft \/ Seen(cb)'
               /\ cb \in Assigned' => \A n \in adjacency_list[cb].outgoing : Seen(n)'
    BY <1>1, <1>3, <1>4, <1>5 DEF VisitedOK
  <1> QED  BY <1>1, <1>6 DEF VisitedOK

\* When the traversal is over, no callback is left: those left would each have
\* a predecessor among them, and there is no cycle.
LEMMA AllAreAssigned ==
    ASSUME RegistryInv, WellFormed, Entered, chainsLeft = {}, VisitedOK,
           phase = "callbacks", stack = << >>, rootsLeft = {}
    PROVE  Unassigned = {}
  <1> DEFINE G == ChainGraph
             U == Unassigned
  <1>1. /\ DOMAIN callback_map = ChainCallbacks
        /\ DOMAIN adjacency_list = ChainCallbacks
        /\ IsFiniteSet(ChainCallbacks)
        /\ \A cb \in ChainCallbacks :
             /\ adjacency_list[cb].outgoing = ChainSuccessors(cb)
             /\ IsFiniteSet(ChainPredecessions(cb))
             /\ adjacency_list[cb].indegree = ChainIndegree(cb) % UINT8_MOD
    BY EnteredAll DEF Entered, WellFormed
  <1>2. \A cb : Seen(cb) => cb \in Assigned
    BY DEF Seen
  <1>3. U \in SUBSET ChainCallbacks /\ U = ChainCallbacks \ Assigned
    BY <1>1 DEF Unassigned, Assigned
  <1>4. IsGraph(G) /\ G.node = ChainCallbacks
    BY <1>1 DEF ChainGraph, IsGraph
  <1>5. ASSUME NEW u \in U PROVE \E e \in G.edge : e[1] \in U /\ e[2] = u
    <2>1. adjacency_list[u].indegree # 0
      BY <1>1, <1>2, <1>3 DEF VisitedOK
    <2>2. ChainPredecessions(u) # {}
      <3>1. Cardinality({}) = 0 /\ 0 % UINT8_MOD = 0
        BY FS_EmptySet
      <3> QED  BY <1>1, <1>3, <2>1, <3>1 DEF ChainIndegree
    <2>3. PICK c \in DOMAIN input.chains : PlacesIn(c, u) # {}
      BY <2>2 DEF ChainPredecessions, PlacesIn, ChainOf
    <2>4. PICK i \in PlacesIn(c, u) : TRUE
      BY <2>3
    <2> DEFINE s == ChainOf(c)
               p == s[i - 1]
    <2>5. s \in Seq(UsedBy(c)) /\ i \in DOMAIN s /\ i # 1 /\ s[i] = u
      BY <2>4, ChainIsSequence
         DEF RegistryInv, TraversalInv, PlacesIn, Positions
    <2> HIDE DEF s
    <2>6. /\ i - 1 \in DOMAIN s /\ i - 1 # Len(s) /\ (i - 1) + 1 = i
          /\ p \in UsedBy(c)
      BY <2>5
    <2>7. u \in NextIn(c, p)
      <3>1. i - 1 \in Positions(s, p) \ {Len(s)}
        BY <2>6 DEF Positions
      <3> QED  BY <2>5, <2>6, <3>1 DEF NextIn, s
    <2>8. u \in ChainSuccessors(p) /\ p \in ChainCallbacks
      BY <2>6, <2>7 DEF ChainSuccessors, NextIn, ChainOf, ChainCallbacks, UsedBy
    <2>9. p \in U
      BY <1>1, <1>2, <1>3, <2>8 DEF VisitedOK
    <2>10. <<p, u>> \in G.edge
      BY <1>3, <2>8 DEF ChainGraph
    <2> HIDE DEF G, U, p
    <2> QED  BY <2>9, <2>10
  <1>6. \A e \in G.edge : ~Connected(G, e[2], e[1])
    BY DEF WellFormed
  <1>7. \A X : X \in SUBSET G.node
               /\ (\A u \in X : \E e \in G.edge : e[1] \in X /\ e[2] = u) => X = {}
    BY <1>4, <1>6, NoEndlessPath
  <1> QED  BY <1>3, <1>4, <1>5, <1>7

-----------------------------------------------------------------------------
(***************************************************************************)
(* Well-formed chains are allocated                                        *)
(***************************************************************************)

\* The chains of the user stay what they are.
LEMMA InputStays ==
    ASSUME [Next]_vars
    PROVE  /\ input' = input
           /\ WellFormed' = WellFormed /\ IndegreesFit' = IndegreesFit
  <1>1. input' = input
    BY DEF Next, Step, Finished, vars, RegisterEntities, AddChain, Constructed,
           Allocate, StartAtRoot, CallbackNotFound, AlreadyVisited, VisitCallback,
           AssignPriorities, StartAtThreadGroup, VisitThreadGroup, StackOverflow,
           ExportThrows, ExportTimingInformation
  <1>2. /\ ChainCallbacks' = ChainCallbacks
        /\ \A cb : /\ ChainSuccessors(cb)' = ChainSuccessors(cb)
                   /\ ChainPredecessions(cb)' = ChainPredecessions(cb)
    BY <1>1 DEF ChainCallbacks, ChainSuccessors, ChainPredecessions
  <1>3. \A cb : ChainIndegree(cb)' = ChainIndegree(cb)
    BY <1>2 DEF ChainIndegree
  <1>4. ChainGraph' = ChainGraph
    BY <1>2 DEF ChainGraph
  <1>5. IndegreesFit' = IndegreesFit
    BY <1>2, <1>3 DEF IndegreesFit
  <1>6. WellFormed' = WellFormed
    BY <1>1, <1>2, <1>3, <1>4 DEF WellFormed, Entities, Connected
  <1> QED  BY <1>1, <1>5, <1>6

\* What was entered stays where neither the graph nor the callbacks change.
LEMMA EnteredStays ==
    ASSUME Entered, phase # "register",
           UNCHANGED <<input, chainsLeft, adjacency_list>>,
           DOMAIN callback_map' = DOMAIN callback_map
    PROVE  Entered'
  <1>1. ChainsRead' = ChainsRead
    BY DEF ChainsRead
  <1>2. /\ \A D : CallbacksIn(D)' = CallbacksIn(D)
        /\ \A D, cb : /\ SuccessorsIn(D, cb)' = SuccessorsIn(D, cb)
                      /\ PredecessionsIn(D, cb)' = PredecessionsIn(D, cb)
    BY DEF CallbacksIn, SuccessorsIn, PredecessionsIn
  <1> QED  BY <1>1, <1>2 DEF Entered, Entities

\* The same with the progress of the constructor.
LEMMA ReadStays ==
    ASSUME ReadOK, phase # "register",
           phase' \in {"register", "chains"} <=> phase \in {"register", "chains"},
           UNCHANGED <<input, chainsLeft, adjacency_list>>,
           DOMAIN callback_map' = DOMAIN callback_map
    PROVE  ReadOK'
  BY EnteredStays DEF ReadOK, Cleared

\* The constructor starts with nothing read and nothing entered.
LEMMA AllocationInit == Init => AllocationInv
  <1> SUFFICES ASSUME Init PROVE ReadOK /\ VisitedOK /\ phase # "threw"
    BY DEF AllocationInv
  <1>1. /\ ChainsRead = {} /\ DOMAIN adjacency_list = {} /\ phase = "register"
    BY DEF Init, EmptyMap, ChainsRead
  <1>2. CallbacksIn({}) = {} /\ IsFiniteSet({})
    BY FS_EmptySet DEF CallbacksIn
  <1>3. ReadOK
    BY <1>1, <1>2 DEF ReadOK, Entered
  <1> QED  BY <1>1, <1>3 DEF VisitedOK

\* While callbacks are visited, the chains have been entered: a call that is
\* pending is for a callback of the map.
LEMMA PendingAreEntered ==
    ASSUME RegistryInv, WellFormed, ReadOK, phase = "callbacks", stack # << >>
    PROVE  /\ Entered /\ chainsLeft = {}
           /\ Head(stack).callback \in DOMAIN callback_map
  <1>1. stack \in Seq(Calls)
    BY DEF RegistryInv, TraversalInv, PendingOK
  <1>2. Head(stack) \in Calls
    BY <1>1
  <1>3. Head(stack).callback \in DOMAIN adjacency_list
    BY <1>2 DEF Calls
  <1>4. Entered /\ chainsLeft = {}
    BY <1>3 DEF ReadOK, Cleared
  <1>5. DOMAIN adjacency_list = DOMAIN callback_map
    BY <1>4, EnteredAll DEF WellFormed, Entered
  <1> QED  BY <1>3, <1>4, <1>5

\* A traversal starts with no callback assigned and every root to come.
LEMMA AllocateStartsAfresh ==
    ASSUME RegistryInv, phase # "threw", Allocate
    PROVE  VisitedOK'
  <1>1. /\ phase \in {"built", "exported"} /\ phase' = "callbacks"
        /\ UNCHANGED <<adjacency_list, callback_map>>
        /\ rootsLeft' = {cb \in DOMAIN adjacency_list :
                           adjacency_list[cb].indegree = 0}
    BY DEF Allocate, graphVars
  <1>2. Ids = {0}
    BY <1>1 DEF RegistryInv, TraversalInv, StartsEmpty, Ids
  <1>3. Assigned' = {}
    BY <1>1, <1>2 DEF RegistryInv, TraversalInv, AssignedOK, Assigned
  <1> QED  BY <1>1, <1>3 DEF VisitedOK

\* A root that is started is seen.
LEMMA StartKeepsSeen ==
    ASSUME VisitedOK, NEW cb \in rootsLeft, StartAtRoot(cb)
    PROVE  VisitedOK'
  <1>1. /\ phase = "callbacks" /\ phase' = phase /\ stack = << >>
        /\ UNCHANGED <<adjacency_list, callback_map>>
        /\ rootsLeft' = rootsLeft \ {cb}
        /\ stack' = <<CallbackCall(cb, 0, 0)>>
    BY DEF StartAtRoot, graphVars
  <1>2. Assigned' = Assigned
    BY <1>1 DEF Assigned
  <1>3. 1 \in DOMAIN stack' /\ stack'[1].callback = cb
    BY <1>1 DEF CallbackCall
  <1>4. \A n : Seen(n) => Seen(n)'
    BY <1>1, <1>2 DEF Seen
  <1>5. Seen(cb)'
    BY <1>3 DEF Seen
  <1> QED  BY <1>1, <1>2, <1>4, <1>5 DEF VisitedOK

\* A call that is taken off was for a callback that has its thread group.
LEMMA ReturnKeepsSeen ==
    ASSUME RegistryInv, VisitedOK, AlreadyVisited
    PROVE  VisitedOK'
  <1>1. /\ phase = "callbacks" /\ phase' = phase /\ stack # << >>
        /\ UNCHANGED <<adjacency_list, callback_map, rootsLeft>>
        /\ stack' = Tail(stack) /\ Head(stack).callback \in Assigned
    BY DEF AlreadyVisited, graphVars, Assigned
  <1>2. Assigned' = Assigned
    BY <1>1 DEF Assigned
  <1>3. \A j \in DOMAIN stack : \/ stack[j] = Head(stack)
                                \/ \E k \in DOMAIN stack' : stack'[k] = stack[j]
    <2>1. stack \in Seq(Calls)
      BY <1>1 DEF RegistryInv, TraversalInv, PendingOK
    <2>2. /\ Head(stack) = stack[1]
          /\ \A j \in DOMAIN stack : j # 1 =>
               j - 1 \in DOMAIN Tail(stack) /\ Tail(stack)[j - 1] = stack[j]
      BY <1>1, <2>1
    <2> QED  BY <1>1, <2>2
  <1>4. ASSUME NEW n, Seen(n) PROVE Seen(n)'
    <2>1. CASE n \in Assigned
      BY <1>2, <2>1 DEF Seen
    <2>2. CASE n \notin Assigned
      <3>1. PICK j \in DOMAIN stack : stack[j].callback = n
        BY <1>4, <2>2 DEF Seen
      <3>2. stack[j] # Head(stack)
        BY <1>1, <2>2, <3>1
      <3>3. PICK k \in DOMAIN stack' : stack'[k] = stack[j]
        BY <1>3, <3>2
      <3> QED  BY <3>1, <3>3 DEF Seen
    <2> QED  BY <2>1, <2>2
  <1> QED  BY <1>1, <1>2, <1>4 DEF VisitedOK

\* Every step keeps the invariant, and neither throws.
LEMMA AllocationStep ==
    AllocationInv /\ RegistryInv /\ [Next]_vars => AllocationInv'
  <1> SUFFICES ASSUME AllocationInv, RegistryInv, [Next]_vars, WellFormed,
                      IndegreesFit
               PROVE  ReadOK' /\ VisitedOK' /\ phase' # "threw"
    BY InputStays DEF AllocationInv
  <1>1. ReadOK /\ VisitedOK /\ phase # "threw" /\ input' = input
    BY InputStays DEF AllocationInv
  <1> USE DEF graphVars, groupVars, loopVars, callVars
  <1>2. CASE RegisterEntities
    <2>1. /\ phase = "register" /\ phase' = "chains"
          /\ UNCHANGED <<input, chainsLeft, adjacency_list>>
          /\ DOMAIN callback_map' = {input.name[e] : e \in Entities}
      BY <1>2 DEF RegisterEntities
    <2>2. Entered
      BY <1>1, <2>1 DEF ReadOK
    <2>3. ChainsRead' = ChainsRead
      BY <2>1 DEF ChainsRead
    <2>4. /\ \A D : CallbacksIn(D)' = CallbacksIn(D)
          /\ \A D, cb : /\ SuccessorsIn(D, cb)' = SuccessorsIn(D, cb)
                        /\ PredecessionsIn(D, cb)' = PredecessionsIn(D, cb)
      BY <2>1 DEF CallbacksIn, SuccessorsIn, PredecessionsIn
    <2>5. Entered'
      BY <2>1, <2>2, <2>3, <2>4 DEF Entered, Entities
    <2> QED  BY <2>1, <2>5 DEF ReadOK, VisitedOK
  <1>3. ASSUME NEW c \in chainsLeft, AddChain(c)
        PROVE  ReadOK' /\ VisitedOK' /\ phase' # "threw"
    <2>1. phase = "chains" /\ phase' = "chains"
      BY <1>3 DEF AddChain
    <2>2. Entered /\ TraversalInv
      BY <1>1, <2>1 DEF ReadOK, RegistryInv
    <2>3. Len(ChainOf(c)) >= 2
      BY <2>2 DEF WellFormed, ChainOf, TraversalInv, NamesOK
    <2>4. Entered'
      BY <1>3, <2>2, <2>3, ChainKeepsEntered
    <2> QED  BY <2>1, <2>4 DEF ReadOK, VisitedOK
  <1>4. CASE Constructed
    <2>1. /\ phase = "chains" /\ phase' = "built" /\ chainsLeft = {}
          /\ UNCHANGED <<input, chainsLeft, adjacency_list, callback_map>>
      BY <1>4 DEF Constructed
    <2>2. Entered'
      BY <1>1, <2>1, EnteredStays DEF ReadOK
    <2> QED  BY <2>1, <2>2 DEF ReadOK, VisitedOK
  <1>5. CASE Allocate
    <2>1. /\ phase \in {"built", "exported"} /\ phase' = "callbacks"
          /\ UNCHANGED <<input, chainsLeft, adjacency_list, callback_map>>
      BY <1>1, <1>5 DEF Allocate
    <2>2. ReadOK'
      BY <1>1, <2>1, ReadStays
    <2> QED  BY <1>1, <1>5, <2>1, <2>2, AllocateStartsAfresh
  <1>6. ASSUME NEW cb \in rootsLeft, StartAtRoot(cb)
        PROVE  ReadOK' /\ VisitedOK' /\ phase' # "threw"
    <2>1. /\ phase = "callbacks" /\ phase' = phase
          /\ UNCHANGED <<input, chainsLeft, adjacency_list, callback_map>>
      BY <1>6 DEF StartAtRoot
    <2> QED  BY <1>1, <1>6, <2>1, ReadStays, StartKeepsSeen
  <1>7. ~CallbackNotFound
    <2> SUFFICES ASSUME CallbackNotFound PROVE FALSE
      OBVIOUS
    <2> QED  BY <1>1, PendingAreEntered DEF CallbackNotFound
  <1>8. CASE AlreadyVisited
    <2>1. /\ phase = "callbacks" /\ phase' = phase
          /\ UNCHANGED <<input, chainsLeft, adjacency_list, callback_map>>
      BY <1>8 DEF AlreadyVisited
    <2> QED  BY <1>1, <1>8, <2>1, ReadStays, ReturnKeepsSeen
  <1>9. CASE VisitCallback
    <2>1. phase = "callbacks" /\ stack # << >>
      BY <1>9 DEF VisitCallback
    <2>2. Entered /\ chainsLeft = {}
      BY <1>1, <2>1, PendingAreEntered
    <2>3. /\ phase' = phase /\ UNCHANGED <<input, chainsLeft, adjacency_list>>
          /\ DOMAIN callback_map' = DOMAIN callback_map
      BY <1>9, VisitWrites DEF RegistryInv
    <2> QED  BY <1>1, <1>9, <2>1, <2>2, <2>3, ReadStays, VisitKeepsSeen
  <1>10. CASE AssignPriorities
    <2>1. /\ phase = "callbacks" /\ stack = << >> /\ rootsLeft = {}
          /\ phase' = "threads"
          /\ UNCHANGED <<input, chainsLeft, adjacency_list, callback_map>>
      BY <1>10 DEF AssignPriorities
    <2>2. Unassigned = {}
      <3>1. CASE Entered /\ chainsLeft = {}
        BY <1>1, <2>1, <3>1, AllAreAssigned
      <3>2. CASE Cleared
        BY <3>2 DEF Cleared, Unassigned
      <3> QED  BY <1>1, <2>1, <3>1, <3>2 DEF ReadOK
    <2>3. Unassigned' = {}
      BY <2>1, <2>2 DEF Unassigned
    <2> QED  BY <1>1, <2>1, <2>3, ReadStays DEF VisitedOK
  <1>11. CASE \/ \E id \in rootsLeft : StartAtThreadGroup(id)
              \/ VisitThreadGroup \/ StackOverflow
    <2>1. /\ phase = "threads" /\ phase' \in {"threads", "overflow"}
          /\ UNCHANGED <<input, chainsLeft, adjacency_list, callback_map>>
      BY <1>11 DEF StartAtThreadGroup, VisitThreadGroup, StackOverflow
    <2>2. Unassigned' = Unassigned
      BY <2>1 DEF Unassigned
    <2> QED  BY <1>1, <2>1, <2>2, ReadStays DEF VisitedOK
  <1>12. ~ExportThrows
    BY <1>1 DEF ExportThrows, AllocationOver, VisitedOK
  <1>13. CASE ExportTimingInformation
    <2>1. /\ phase' = "exported"
          /\ DOMAIN adjacency_list' = {} /\ DOMAIN callback_map' = {}
      BY <1>13 DEF ExportTimingInformation, EmptyMap
    <2> QED  BY <2>1 DEF ReadOK, Cleared, VisitedOK
  <1>14. CASE UNCHANGED vars
    <2>1. UNCHANGED <<input, phase, chainsLeft, adjacency_list, callback_map,
                      rootsLeft, stack>>
      BY <1>14 DEF vars
    <2>2. Assigned' = Assigned /\ Unassigned' = Unassigned
      BY <2>1 DEF Assigned, Unassigned
    <2>3. \A n : Seen(n)' = Seen(n)
      BY <2>1, <2>2 DEF Seen
    <2>4. VisitedOK'
      BY <1>1, <2>1, <2>2, <2>3 DEF VisitedOK
    <2>5. ChainsRead' = ChainsRead
      BY <2>1 DEF ChainsRead
    <2>6. /\ \A D : CallbacksIn(D)' = CallbacksIn(D)
          /\ \A D, cb : /\ SuccessorsIn(D, cb)' = SuccessorsIn(D, cb)
                        /\ PredecessionsIn(D, cb)' = PredecessionsIn(D, cb)
      BY <2>1 DEF CallbacksIn, SuccessorsIn, PredecessionsIn
    <2>7. Entered' = Entered
      BY <2>1, <2>5, <2>6 DEF Entered, Entities
    <2> QED  BY <1>1, <2>1, <2>4, <2>7 DEF ReadOK, Cleared
  <1> QED
    BY <1>2, <1>3, <1>4, <1>5, <1>6, <1>7, <1>8, <1>9, <1>10, <1>11, <1>12,
       <1>13, <1>14 DEF Next, Step, Finished

\* callback_threadgroup_allocation does not throw on well-formed chains: from
\* the callbacks without a predecessor its first traversal reaches every
\* callback, although it goes on to the first successor only where that has no
\* other predecessor, as long as no uint8_t in-degree wraps past 0.
THEOREM WellFormedChainsAllocate ==
    Spec => [](IndegreesFit => WellFormedChainsAreAllocated)
  <1>1. Init => RegistryInv /\ AllocationInv
    BY RegistryInit, AllocationInit
  <1>2. RegistryInv /\ AllocationInv /\ [Next]_vars => (RegistryInv /\ AllocationInv)'
    BY RegistryStep, AllocationStep
  <1>3. AllocationInv => (IndegreesFit => WellFormedChainsAreAllocated)
    BY DEF AllocationInv, WellFormedChainsAreAllocated
  <1> QED  BY <1>1, <1>2, <1>3, PTL DEF Spec

-----------------------------------------------------------------------------
(***************************************************************************)
(* ChainYamlParser: what the registry and the caller of parse get, for all *)
(* documents and all sequences of calls                                    *)
(***************************************************************************)

\* A chain that the registry can read.
Readable(chains) ==
    \A n \in DOMAIN chains : n # EmptyName /\ Len(chains[n].callbacks) > 0

\* Readable chains are stored throughout, not only when the registry is built.
ChainsReadable ==
    /\ Readable(user_chains)
    /\ registered # Undefined => Readable(registered)

LEMMA StoringKeepsReadable ==
  ASSUME NEW chains, Readable(chains), NEW entry, Valid(entry)
  PROVE  Readable(Stored(chains, entry.name, userChain(entry)))
  <1> DEFINE new == Stored(chains, entry.name, userChain(entry))
  <1>1. entry.name # EmptyName /\ Len(userChain(entry).callbacks) > 0
    BY DEF Valid, HasCallbacks, userChain
  <1>2. DOMAIN new = DOMAIN chains \cup {entry.name}
    BY DEF Stored
  <1>3. \A n \in DOMAIN new :
            new[n] = IF n = entry.name THEN userChain(entry) ELSE chains[n]
    BY DEF Stored
  <1> HIDE DEF new
  <1>4. Readable(new)
    BY <1>1, <1>2, <1>3 DEF Readable
  <1> QED
    BY <1>4 DEF new

LEMMA InitHolds == ParserInit => ChainsReadable
  BY DEF ParserInit, ChainsReadable, Readable

LEMMA NextHolds == ChainsReadable /\ [ParserNext]_parserVars => ChainsReadable'
  <1> SUFFICES ASSUME ChainsReadable, [ParserNext]_parserVars PROVE ChainsReadable'
    OBVIOUS
  <1>1. CASE StoreChain
    <2>1. Readable(user_chains')
      BY <1>1, StoringKeepsReadable DEF StoreChain, ChainsReadable
    <2> QED
      BY <1>1, <2>1 DEF StoreChain, ChainsReadable
  <1>2. CASE BuildRegistry
    BY <1>2 DEF BuildRegistry, ChainsReadable
  <1>3. CASE UNCHANGED <<user_chains, registered>>
    BY <1>3 DEF ChainsReadable
  <1> QED
    BY <1>1, <1>2, <1>3 DEF ParserNext, LoadYamlFile, LoadThrows, ParseRefuses,
       ParseBegins, ChainThrows, ParseEnds, parserVars

\* Whatever documents are loaded, and however often parse is called and fails,
\* the registry is built from chains that have a name and a callback, which is
\* what its constructor relies on (callbacks[0]).
THEOREM RegistryIsSafe == ParserSpec => []RegistryGetsValidChains
  <1>1. ChainsReadable => RegistryGetsValidChains
    BY DEF ChainsReadable, Readable, RegistryGetsValidChains
  <1> QED
    BY InitHolds, NextHolds, <1>1, PTL DEF ParserSpec

-----------------------------------------------------------------------------
(***************************************************************************)
(* How far parse got                                                       *)
(***************************************************************************)

NamesTo(n) == {Entries[i].name : i \in 1..n}

\* The chains of the first n entries are stored, each as its last entry says;
\* the others are those of before, and there is nothing else.
StoredTo(n) ==
    /\ DOMAIN user_chains = DOMAIN before \cup NamesTo(n)
    /\ \A x \in DOMAIN before \ NamesTo(n) : user_chains[x] = before[x]
    /\ \A i \in 1..n :
          (\A j \in (i + 1)..n : Entries[j].name # Entries[i].name)
            => user_chains[Entries[i].name] = userChain(Entries[i])

\* The loop has been through n entries without an exception.
PassedTo(n) ==
    /\ n \in 0..Len(Entries) /\ StoredTo(n)
    /\ \A i \in 1..n : Valid(Entries[i])

\* While parse is in its loop it has passed what is before its place; once it
\* is over, the result tells whether it passed everything.
Progress ==
    /\ yaml_node \in Documents \cup {Null}
    /\ at \in Nat
    /\ at > 0 => HasChains /\ PassedTo(at - 1) /\ result = "none"
    /\ result \in {"true", "false"} /\ HasChains =>
          /\ PassedTo(Len(Entries))
          /\ result = "false" <=> DOMAIN user_chains = {}
    /\ result = "threw" /\ HasChains =>
          \E n \in 0..Len(Entries) : /\ PassedTo(n) /\ n < Len(Entries)
                                     /\ ~Valid(Entries[n + 1])

LEMMA EntriesAreASequence ==
  ASSUME yaml_node \in Documents \cup {Null}, HasChains
  PROVE  Entries \in Seq({Entries[i] : i \in DOMAIN Entries})
  BY DocumentsAssumption DEF HasChains, Entries, Is, Null, Node

\* One more entry: an earlier one of the same name is overwritten.
LEMMA StoringGoesOn ==
  ASSUME Progress, at > 0, StoreChain
  PROVE  PassedTo(at - 1)'
  <1> DEFINE E == Entries
             chains == user_chains
             later == user_chains'
  <1>1. /\ at \in Nat \ {0} /\ HasChains /\ PassedTo(at - 1)
        /\ UNCHANGED <<yaml_node, before>>
    BY DEF Progress, StoreChain
  <1>2. /\ at \in 1..Len(E) /\ Entries' = E
        /\ DOMAIN E = 1..Len(E) /\ Len(E) \in Nat
    BY <1>1, EntriesAreASequence DEF Progress, StoreChain, Entries
  <1>3. /\ Valid(E[at])
        /\ later = Stored(chains, E[at].name, userChain(E[at]))
    BY DEF StoreChain, Entry
  <1>4. /\ DOMAIN later = DOMAIN chains \cup {E[at].name}
        /\ \A n \in DOMAIN later :
              later[n] = IF n = E[at].name THEN userChain(E[at]) ELSE chains[n]
    BY <1>3 DEF Stored
  <1>5. NamesTo(at) = NamesTo(at - 1) \cup {E[at].name}
    <2>1. 1..at = 1..(at - 1) \cup {at}
      BY <1>1
    <2> QED
      BY <2>1 DEF NamesTo
  <1>6. ASSUME NEW i \in 1..at,
               \A j \in (i + 1)..at : E[j].name # E[i].name
        PROVE  later[E[i].name] = userChain(E[i])
    <2>1. CASE i = at
      BY <1>4, <2>1
    <2>2. CASE i # at
      <3>1. /\ i \in 1..(at - 1) /\ E[at].name # E[i].name
            /\ \A j \in (i + 1)..(at - 1) : E[j].name # E[i].name
        BY <1>1, <1>6, <2>2
      <3>2. E[i].name \in DOMAIN chains
        BY <1>1, <3>1 DEF PassedTo, StoredTo, NamesTo
      <3>3. chains[E[i].name] = userChain(E[i])
        BY <1>1, <3>1 DEF PassedTo, StoredTo
      <3> QED
        BY <1>4, <3>1, <3>2, <3>3
    <2> QED
      BY <2>1, <2>2
  <1>7. /\ DOMAIN later = DOMAIN before \cup NamesTo(at)
        /\ \A x \in DOMAIN before \ NamesTo(at) : later[x] = before[x]
    BY <1>1, <1>4, <1>5 DEF PassedTo, StoredTo
  <1>8. \A i \in 1..at : Valid(E[i])
    BY <1>1, <1>2, <1>3 DEF PassedTo
  <1>9. /\ at \in 0..Len(E) /\ at' - 1 = at
    BY <1>1, <1>2 DEF StoreChain
  <1>10. NamesTo(at - 1)' = NamesTo(at)
    BY <1>2, <1>9 DEF NamesTo
  <1> HIDE DEF E
  <1>11. \A i \in 1..(at' - 1) :
           (\A j \in (i + 1)..(at' - 1) : Entries'[j].name # Entries'[i].name)
             => later[Entries'[i].name] = userChain(Entries'[i])
    BY <1>2, <1>6, <1>9
  <1> QED
    BY <1>1, <1>2, <1>7, <1>8, <1>9, <1>10, <1>11 DEF PassedTo, StoredTo

LEMMA InitProgresses == ParserInit => Progress
  BY DEF ParserInit, Progress, HasChains, Is, Null, Node

LEMMA NextProgresses == Progress /\ [ParserNext]_parserVars => Progress'
  <1> SUFFICES ASSUME Progress, [ParserNext]_parserVars PROVE Progress'
    OBVIOUS
  <1>1. CASE LoadYamlFile \/ LoadThrows \/ ParseRefuses
    <2>1. yaml_node' \in Documents \cup {Null} /\ at' = 0
      BY <1>1 DEF LoadYamlFile, LoadThrows, ParseRefuses, Progress
    <2>2. CASE HasChains'
      <3>1. result' \in {"none", "not loaded"}
        BY <1>1, <2>2 DEF LoadYamlFile, LoadThrows, ParseRefuses, HasChains
      <3>2. result' \notin {"true", "false"} /\ result' # "threw"
        BY <3>1
      <3> QED
        BY <2>1, <3>2 DEF Progress
    <2>3. CASE ~HasChains'
      BY <2>1, <2>3 DEF Progress
    <2> QED
      BY <2>2, <2>3
  <1>2. CASE ParseBegins
    <2>1. /\ UNCHANGED <<yaml_node, user_chains>> /\ before' = user_chains
          /\ at' = 1 /\ result' = "none" /\ HasChains
      BY <1>2 DEF ParseBegins
    <2>2. HasChains' /\ Entries' = Entries
      BY <2>1 DEF HasChains, Entries
    <2>3. Len(Entries) \in Nat
      BY <2>1, EntriesAreASequence DEF Progress
    <2>4. PassedTo(at - 1)'
      BY <2>1, <2>2, <2>3 DEF PassedTo, StoredTo, NamesTo
    <2> QED
      BY <2>1, <2>2, <2>4 DEF Progress
  <1>3. CASE at > 0 /\ StoreChain
    <2>1. /\ UNCHANGED <<yaml_node, result>> /\ at' = at + 1
          /\ HasChains /\ at \in Nat /\ result = "none"
      BY <1>3 DEF StoreChain, Progress
    <2>2. HasChains'
      BY <2>1 DEF HasChains
    <2>3. PassedTo(at - 1)'
      BY <1>3, StoringGoesOn
    <2> QED
      BY <2>1, <2>2, <2>3 DEF Progress
  <1>4. CASE at > 0 /\ ChainThrows
    <2>1. /\ UNCHANGED <<yaml_node, user_chains, before>>
          /\ at' = 0 /\ result' = "threw"
          /\ HasChains /\ at \in Nat \ {0} /\ PassedTo(at - 1)
          /\ at \in DOMAIN Entries /\ ~Valid(Entries[at])
      BY <1>4 DEF ChainThrows, Entry, Progress
    <2>2. Entries' = Entries /\ at \in 1..Len(Entries) /\ Len(Entries) \in Nat
      BY <2>1, EntriesAreASequence DEF Entries, Progress
    <2>3. PICK n \in 0..Len(Entries) :
             /\ PassedTo(n) /\ n < Len(Entries) /\ ~Valid(Entries[n + 1])
      <3>1. /\ at - 1 \in 0..Len(Entries) /\ at - 1 < Len(Entries)
            /\ (at - 1) + 1 = at
        BY <2>2
      <3> QED
        BY <2>1, <3>1
    <2>4. PassedTo(n)'
      BY <2>1, <2>2, <2>3 DEF PassedTo, StoredTo, NamesTo
    <2> QED
      BY <2>1, <2>2, <2>3, <2>4 DEF Progress
  <1>5. CASE at > 0 /\ ParseEnds
    <2>1. /\ UNCHANGED <<yaml_node, user_chains, before>> /\ at' = 0
          /\ result' = IF DOMAIN user_chains = {} THEN "false" ELSE "true"
          /\ HasChains /\ at \in Nat \ {0} /\ PassedTo(at - 1)
          /\ at > Len(Entries)
      BY <1>5 DEF ParseEnds, Verdict, Progress
    <2>2. Entries' = Entries /\ Len(Entries) \in Nat
      BY <2>1, EntriesAreASequence DEF Entries, Progress
    <2>3. at - 1 = Len(Entries)
      BY <2>1, <2>2 DEF PassedTo
    <2>4. PassedTo(Len(Entries))'
      BY <2>1, <2>2, <2>3 DEF PassedTo, StoredTo, NamesTo
    <2> QED
      BY <2>1, <2>4 DEF Progress
  <1>6. CASE BuildRegistry \/ UNCHANGED parserVars
    <2>1. UNCHANGED <<yaml_node, user_chains, at, result, before>>
      BY <1>6 DEF BuildRegistry, parserVars
    <2>2. /\ HasChains' <=> HasChains
          /\ Entries' = Entries
      BY <2>1 DEF HasChains, Entries
    <2>3. \A n : PassedTo(n) => PassedTo(n)'
      BY <2>1, <2>2 DEF PassedTo, StoredTo, NamesTo
    <2> QED
      BY <2>1, <2>2, <2>3 DEF Progress
  <1> QED
    BY <1>1, <1>2, <1>3, <1>4, <1>5, <1>6 DEF ParserNext

\* The prefix that ValidPrefix chooses is unique.
LEMMA ValidPrefixIsUnique ==
  ASSUME Len(Entries) \in Nat, NEW n \in 0..Len(Entries),
         \A i \in 1..n : Valid(Entries[i]),
         n < Len(Entries) => ~Valid(Entries[n + 1])
  PROVE  ValidPrefix = n
  <1> DEFINE P(m) == /\ \A i \in 1..m : Valid(Entries[i])
                     /\ m < Len(Entries) => ~Valid(Entries[m + 1])
  <1>1. ASSUME NEW m \in 0..Len(Entries), P(m) PROVE m = n
    <2>1. ~(m < n)
      <3>1. m < n => m + 1 \in 1..n /\ m < Len(Entries)
        OBVIOUS
      <3> QED
        BY <1>1, <3>1
    <2>2. ~(n < m)
      <3>1. n < m => n + 1 \in 1..m /\ n < Len(Entries)
        OBVIOUS
      <3> QED
        BY <1>1, <3>1
    <2> QED
      BY <2>1, <2>2
  <1>2. P(n)
    OBVIOUS
  <1>3. ValidPrefix = CHOOSE m \in 0..Len(Entries) : P(m)
    BY DEF ValidPrefix
  <1> HIDE DEF P
  <1> QED
    BY <1>1, <1>2, <1>3

\* For all documents without an empty name and all sequences of calls: a parse
\* that is over has put the chains before the first fault, each as its last
\* entry says, into the chains there were, and nothing else; its result tells
\* whether there was a fault.
THEOREM ParseStoresUpToTheFault == ParserSpec => []StoredUpToTheFault
  <1>1. Progress => StoredUpToTheFault
    <2> SUFFICES ASSUME Progress, result \in {"true", "false", "threw"},
                        HasChains
                 PROVE  /\ result = "threw" <=> ValidPrefix < Len(Entries)
                        /\ result = "false"
                             <=> Len(Entries) = 0 /\ DOMAIN before = {}
                        /\ StoredTo(ValidPrefix)
      BY DEF StoredUpToTheFault, StoredTo, NamesTo
    <2>1. Len(Entries) \in Nat
      BY EntriesAreASequence DEF Progress
    <2>2. PICK n \in 0..Len(Entries) :
             /\ PassedTo(n)
             /\ n < Len(Entries) => ~Valid(Entries[n + 1])
             /\ result = "threw" <=> n < Len(Entries)
      <3>1. CASE result \in {"true", "false"}
        BY <2>1, <3>1 DEF Progress
      <3>2. CASE result = "threw"
        BY <2>1, <3>2 DEF Progress
      <3> QED
        BY <3>1, <3>2
    <2>3. ValidPrefix = n
      BY <2>1, <2>2, ValidPrefixIsUnique DEF PassedTo
    <2>4. result = "false" <=> Len(Entries) = 0 /\ DOMAIN before = {}
      <3>1. CASE result = "threw"
        BY <2>1, <2>2, <3>1
      <3>2. CASE result # "threw"
        <4>1. /\ StoredTo(Len(Entries))
              /\ result = "false" <=> DOMAIN user_chains = {}
          BY <3>2 DEF Progress, PassedTo
        <4>2. NamesTo(Len(Entries)) = {} <=> Len(Entries) = 0
          <5>1. Len(Entries) # 0 => Entries[1].name \in NamesTo(Len(Entries))
            BY <2>1 DEF NamesTo
          <5>2. Len(Entries) = 0 => NamesTo(Len(Entries)) = {}
            BY DEF NamesTo
          <5> QED
            BY <5>1, <5>2
        <4> QED
          BY <4>1, <4>2 DEF StoredTo
      <3> QED
        BY <3>1, <3>2
    <2> QED
      BY <2>2, <2>3, <2>4 DEF PassedTo
  <1> QED
    BY InitProgresses, NextProgresses, <1>1, PTL DEF ParserSpec
=============================================================================
