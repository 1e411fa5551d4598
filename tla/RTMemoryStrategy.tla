--------------------------- MODULE RTMemoryStrategy ---------------------------
(***************************************************************************)
(* RTAllocatorMemoryStrategy: the handles an executor waits for, between   *)
(* two visits of a thread to the middleware.  One action is one operation  *)
(* of the strategy, in the order in which the executor calls them:         *)
(*                                                                         *)
(*   clear_handles, collect_entities, (erase the invalid groups),          *)
(*   number_of_*, add_handles_to_wait_set, rcl_wait, remove_null_handles   *)
(*                                                                         *)
(* and then either take_ready_handles (usage "bulk": the loop of           *)
(* PreemptiveExecutor::spin) or get_next_* for one entity at a time (usage *)
(* "single": the loops of rclcpp's own executors, which are given the      *)
(* strategy in their options, with one or several threads).  Meanwhile the *)
(* application may drop any object, add a group, cancel a timer.           *)
(*                                                                         *)
(* Subscriptions, services, clients and timers are kept by their rcl       *)
(* handle, which does not keep the object alive; a waitable is kept by     *)
(* itself.                                                                 *)
(***************************************************************************)
EXTENDS Integers, Sequences, FiniteSets

SE == INSTANCE SequencesExt

CONSTANTS
    EntitySeq,      \* the entities, in the order of their creation
    KindOf,         \* entity -> HandleKinds
    GroupOf,        \* entity -> callback group
    NodeOf,         \* callback group -> node
    MutexGroups,    \* callback groups of type MutuallyExclusive
    EntriesOf,      \* waitable -> wait set entries it has, per WaitKinds
    Fragile,        \* bound: the objects the application may drop
    Threads,        \* threads of the executor
    Usages,         \* subset of {"bulk", "single"}
    Interrupt,      \* the executor's own guard condition
    NULL            \* null pointer

\* The kinds in the order in which get_next_ready_executable asks for them.
KindSeq == <<"timer", "subscription", "service", "client", "waitable">>
HandleKinds == SE!ToSet(KindSeq)
WaitKinds == (HandleKinds \ {"waitable"}) \cup {"guard_condition", "event"}
BulkKinds == {"subscription", "timer"}

Entities == SE!ToSet(EntitySeq)
Groups   == DOMAIN NodeOf

ASSUME ConstantsAssumption ==
    /\ EntitySeq \in Seq(Entities) /\ IsFiniteSet(Groups)
    /\ \A i, j \in DOMAIN EntitySeq : EntitySeq[i] = EntitySeq[j] => i = j
    /\ KindOf \in [Entities -> HandleKinds]
    /\ GroupOf \in [Entities -> Groups]
    /\ EntriesOf \in [{e \in Entities : KindOf[e] = "waitable"}
                        -> [WaitKinds -> Nat]]
    /\ Usages \subseteq {"bulk", "single"}
    /\ Interrupt \notin Groups
    /\ Entities \cap (Groups \cup {Interrupt}) = {}
    /\ NULL \notin Entities \cup Groups \cup {Interrupt}

VARIABLES
    usage,
    pc,                   \* the operation that is called next
    owned,                \* objects the application still refers to
    cancelled,            \* cancelled timers
    pending,              \* entities with something to take
    busy,                 \* what each thread was given by get_next_*
    started,              \* threads that have begun to execute it
    takable,              \* groups with can_be_taken_from()
    weak_groups_to_nodes, \* the executor's map, in its order
    guard_conditions,
    handles,              \* subscription_handles_, service_handles_, ...
    capacity,             \* sizes the wait set was given
    wait_set,             \* its entries, named by who added them
    reported,             \* history: who had an entry after the last rcl_wait
    ready                 \* ready_subscriptions, ready_timers

objectVars == <<owned, cancelled, pending>>
threadVars == <<busy, started, takable>>
groupVars  == <<weak_groups_to_nodes, guard_conditions>>
waitVars   == <<capacity, wait_set, reported>>
vars == <<usage, pc, objectVars, threadVars, groupVars, handles, waitVars, ready>>

NoHandles == [k \in HandleKinds |-> << >>]
NoReady   == [k \in BulkKinds |-> << >>]
EmptyWaitSet == [k \in WaitKinds |-> << >>]

Init ==
    /\ usage \in Usages
    /\ pc = "clear_handles"
    /\ owned = Entities \cup Groups \cup {NodeOf[g] : g \in Groups}
    /\ cancelled = {}
    /\ pending = {}
    /\ busy = [t \in Threads |-> NULL]
    /\ started = {}
    /\ takable = Groups
    /\ weak_groups_to_nodes \in SE!SetToAllKPermutations(Groups)
    /\ guard_conditions = <<Interrupt>> \o weak_groups_to_nodes
    /\ handles = NoHandles
    /\ capacity = [k \in WaitKinds |-> 0]
    /\ wait_set = EmptyWaitSet
    /\ reported = {}
    /\ ready = NoReady

-----------------------------------------------------------------------------
(***************************************************************************)
(* Objects                                                                 *)
(***************************************************************************)

Executing == {busy[t] : t \in Threads} \ {NULL}

\* The weak pointers to an entity, a group, a group's node can be locked: the
\* application refers to it, or the executor does for the time being.
EntityAlive(e) == e \in owned \cup Executing \cup SE!ToSet(handles["waitable"])
                          \cup UNION {SE!ToSet(ready[k]) : k \in BulkKinds}
GroupAlive(g)  == g \in owned \cup {GroupOf[e] : e \in Executing}
NodeAlive(g)   == NodeOf[g] \in owned \cup {NodeOf[GroupOf[e]] : e \in Executing}

\* The elements of the sequence s that are in the set T, in their order.
Only(s, T) ==
    LET kept[i \in 0..Len(s)] ==
          IF i = 0 THEN << >>
          ELSE IF s[i] \in T THEN Append(kept[i - 1], s[i]) ELSE kept[i - 1]
    IN kept[Len(s)]

\* The lists of a callback group, one for each kind.
MembersOf == [g \in Groups |-> [k \in HandleKinds |->
                Only(EntitySeq, {e \in Entities : KindOf[e] = k /\ GroupOf[e] = g})]]

\* collect_all_ptrs: the members of a kind that can be locked.
PtrsOf(g, k) == Only(MembersOf[g][k], {e \in Entities : EntityAlive(e)})

\* f[g] for each group g of the map that is in G, one after the other
ForEachGroup(G, f) ==
    LET gs == Only(weak_groups_to_nodes, G)
    IN SE!FlattenSeq([i \in DOMAIN gs |-> f[gs[i]]])

-----------------------------------------------------------------------------
(***************************************************************************)
(* wait_for_work                                                           *)
(***************************************************************************)

ClearHandles ==
    /\ pc = "clear_handles"
    /\ handles' = NoHandles
    /\ pc' = "collect_entities"
    /\ UNCHANGED <<usage, objectVars, threadVars, groupVars, waitVars, ready>>

Invalid(g) == ~GroupAlive(g) \/ ~NodeAlive(g)

Collected == {g \in Groups : ~Invalid(g) /\ g \in takable}

CollectEntities ==
    /\ pc = "collect_entities"
    /\ handles' = [k \in HandleKinds |->
         handles[k] \o ForEachGroup(Collected, [g \in Groups |-> PtrsOf(g, k)])]
    /\ pc' = IF \E g \in SE!ToSet(weak_groups_to_nodes) : Invalid(g)
               THEN "erase_invalid" ELSE "resize"
    /\ UNCHANGED <<usage, objectVars, threadVars, groupVars, waitVars, ready>>

AddGuardCondition(s, g) == IF g \in SE!ToSet(s) THEN s ELSE Append(s, g)
RemoveGuardCondition(s, g) == SE!RemoveFirst(s, g)

\* The executor drops the groups that are gone, one after the other.
EraseInvalid ==
    /\ pc = "erase_invalid"
    /\ weak_groups_to_nodes' =
         Only(weak_groups_to_nodes, {g \in Groups : ~Invalid(g)})
    /\ LET gs == weak_groups_to_nodes
           left[i \in 0..Len(gs)] ==
             IF i = 0 THEN guard_conditions
             ELSE IF Invalid(gs[i]) THEN RemoveGuardCondition(left[i - 1], gs[i])
             ELSE left[i - 1]
       IN guard_conditions' = left[Len(gs)]
    /\ pc' = "resize"
    /\ UNCHANGED <<usage, objectVars, threadVars, handles, waitVars, ready>>

\* The strategy's own handles of a kind, without those of the waitables.
OwnHandles(k) ==
    CASE k = "guard_condition" -> guard_conditions
      [] k \in HandleKinds     -> handles[k]
      [] OTHER                 -> << >>

\* number_of_ready_subscriptions, ..., number_of_guard_conditions
NumberOf(k) ==
    LET ws == handles["waitable"]
        number[i \in 0..Len(ws)] ==
          IF i = 0 THEN Len(OwnHandles(k))
          ELSE number[i - 1] + EntriesOf[ws[i]][k]
    IN number[Len(ws)]

\* rcl_wait_set_clear and rcl_wait_set_resize
Resize ==
    /\ pc = "resize"
    /\ capacity' = [k \in WaitKinds |-> NumberOf(k)]
    /\ wait_set' = EmptyWaitSet
    /\ reported' = {}
    /\ pc' = "add_handles_to_wait_set"
    /\ UNCHANGED <<usage, objectVars, threadVars, groupVars, handles, ready>>

\* The entries that the waitables add, each under its own name.
WaitableEntries(k) ==
    LET ws == handles["waitable"]
    IN SE!FlattenSeq([i \in DOMAIN ws |->
                        [j \in 1..EntriesOf[ws[i]][k] |-> ws[i]]])

\* Mutant: the waitables come first.
EntriesWaitablesFirst(k) == WaitableEntries(k) \o OwnHandles(k)

Entries(k) == OwnHandles(k) \o WaitableEntries(k)

\* One that does not fit makes it fail, and the executor throw.
AddHandlesToWaitSet ==
    /\ pc = "add_handles_to_wait_set"
    /\ IF \A k \in WaitKinds : Len(Entries(k)) <= capacity[k]
         THEN /\ wait_set' = [k \in WaitKinds |-> Entries(k)]
              /\ pc' = "rcl_wait"
         ELSE /\ pc' = "threw"
              /\ UNCHANGED wait_set
    /\ UNCHANGED <<usage, objectVars, threadVars, groupVars, handles, capacity,
                   reported, ready>>

\* Every entry with nothing to take becomes NULL.  A guard condition may end
\* the wait when no entity is ready.
RclWait ==
    /\ pc = "rcl_wait"
    /\ LET has(e) == e \in (pending \ cancelled) \cup Groups \cup {Interrupt}
       IN /\ wait_set' = [k \in WaitKinds |-> [i \in DOMAIN wait_set[k] |->
                            IF has(wait_set[k][i]) THEN wait_set[k][i] ELSE NULL]]
          /\ reported' = Entities
                           \cap (UNION {SE!ToSet(wait_set'[k]) : k \in WaitKinds})
    /\ pc' = "remove_null_handles"
    /\ UNCHANGED <<usage, objectVars, threadVars, groupVars, handles, capacity,
                   ready>>

\* Waitable::is_ready
IsReady(w) == \E k \in WaitKinds : w \in SE!ToSet(wait_set[k])

\* A handle is reset if the entry at its index is NULL; the null ones go.
NonNull(k) ==
    LET hs    == handles[k]
        reset == IF k = "waitable"
                   THEN [i \in DOMAIN hs |-> IF IsReady(hs[i]) THEN hs[i] ELSE NULL]
                   ELSE [i \in DOMAIN hs |->
                           IF wait_set[k][i] = NULL THEN NULL ELSE hs[i]]
    IN Only(reset, Entities)

RemoveNullHandles ==
    /\ pc = "remove_null_handles"
    /\ handles' = [k \in HandleKinds |-> NonNull(k)]
    /\ pc' = IF usage = "bulk" THEN "take_ready_handles" ELSE KindSeq[1]
    /\ UNCHANGED <<usage, objectVars, threadVars, groupVars, waitVars, ready>>

-----------------------------------------------------------------------------
(***************************************************************************)
(* populate_ready_queues                                                   *)
(***************************************************************************)

\* Mutant: one kind without a handle is enough.
NothingOfOneKind == \E k \in BulkKinds : handles[k] = << >>

NothingToTake == \A k \in BulkKinds : handles[k] = << >>

\* The entities whose handles are ready, found again through their groups.
TakeReadyHandles ==
    /\ pc = "take_ready_handles"
    /\ ready' = [k \in BulkKinds |->
         IF NothingToTake THEN << >>
         ELSE ForEachGroup({g \in Groups : GroupAlive(g)},
                [g \in Groups |-> Only(PtrsOf(g, k), SE!ToSet(handles[k]))])]
    /\ handles' = IF NothingToTake THEN handles
                  ELSE [k \in HandleKinds |->
                          IF k \in BulkKinds THEN << >> ELSE handles[k]]
    /\ pc' = "take_and_bundle"
    /\ UNCHANGED <<usage, objectVars, threadVars, groupVars, waitVars>>

\* Each ready entity is taken from; a cancelled timer is not called.  The
\* vectors are local to populate_ready_queues.
TakeAndBundle ==
    /\ pc = "take_and_bundle"
    /\ pending' = pending \ ((UNION {SE!ToSet(ready[k]) : k \in BulkKinds}) \ cancelled)
    /\ ready' = NoReady
    /\ pc' = "clear_handles"
    /\ UNCHANGED <<usage, owned, cancelled, threadVars, groupVars, handles,
                   waitVars>>

-----------------------------------------------------------------------------
(***************************************************************************)
(* get_next_timer, get_next_subscription, ...                              *)
(***************************************************************************)

\* Its object and its group are found through the groups of the map.
Found(e) ==
    /\ EntityAlive(e)
    /\ GroupAlive(GroupOf[e])
    /\ GroupOf[e] \in SE!ToSet(weak_groups_to_nodes)
FoundEntities == {e \in Entities : Found(e)}

\* Mutant: can_be_taken_from is not looked at.
ServiceableUnlocked(e) == Found(e) /\ e \notin cancelled

\* Neither in use by another thread nor, in timer->call(), cancelled.
Serviceable(e) == Found(e) /\ GroupOf[e] \in takable /\ e \notin cancelled

\* The first serviceable handle is given to thread t; those before it that
\* are not found are erased.  A mutually exclusive group is locked.
GetNext(k, t) ==
    /\ pc = k /\ busy[t] = NULL
    /\ \E i \in DOMAIN handles[k] :
         /\ Serviceable(handles[k][i])
         /\ \A j \in 1..(i - 1) : ~Serviceable(handles[k][j])
         /\ handles' = [handles EXCEPT ![k] =
              Only(SubSeq(@, 1, i - 1), FoundEntities) \o SubSeq(@, i + 1, Len(@))]
         /\ busy' = [busy EXCEPT ![t] = handles[k][i]]
         /\ takable' = takable \ ({GroupOf[handles[k][i]]} \cap MutexGroups)
         /\ pending' = IF k = "timer" THEN pending \ {handles[k][i]} ELSE pending
    /\ pc' = KindSeq[1]
    /\ UNCHANGED <<usage, owned, cancelled, started, groupVars, waitVars, ready>>

\* The next kind is tried; after the last one the executor waits.
GetNextFails(k) ==
    /\ pc = k /\ \E t \in Threads : busy[t] = NULL
    /\ \A i \in DOMAIN handles[k] : ~Serviceable(handles[k][i])
    /\ handles' = [handles EXCEPT ![k] = Only(@, FoundEntities)]
    /\ \E i \in DOMAIN KindSeq :
         /\ KindSeq[i] = k
         /\ pc' = IF i = Len(KindSeq) THEN "clear_handles" ELSE KindSeq[i + 1]
    /\ UNCHANGED <<usage, objectVars, threadVars, groupVars, waitVars, ready>>

\* execute_any_executable: takes the data (a timer was called before), ...
Execute(t) ==
    /\ busy[t] # NULL /\ t \notin started
    /\ started' = started \cup {t}
    /\ pending' = IF KindOf[busy[t]] = "timer" THEN pending
                                               ELSE pending \ {busy[t]}
    /\ UNCHANGED <<usage, pc, owned, cancelled, busy, takable, groupVars, handles,
                   waitVars, ready>>

\* ... and in the end lets the group be taken from again.
Finish(t) ==
    /\ t \in started
    /\ started' = started \ {t}
    /\ busy' = [busy EXCEPT ![t] = NULL]
    /\ takable' = takable \cup {GroupOf[busy[t]]}
    /\ UNCHANGED <<usage, pc, objectVars, groupVars, handles, waitVars, ready>>

-----------------------------------------------------------------------------
(***************************************************************************)
(* The application and the middleware                                      *)
(***************************************************************************)

Arrive(e) ==
    /\ pending' = pending \cup {e}
    /\ pending' # pending
    /\ UNCHANGED <<usage, pc, owned, cancelled, threadVars, groupVars, handles,
                   waitVars, ready>>

Drop(o) ==
    /\ o \in owned
    /\ owned' = owned \ {o}
    /\ UNCHANGED <<usage, pc, cancelled, pending, threadVars, groupVars, handles,
                   waitVars, ready>>

CancelTimer(e) ==
    /\ KindOf[e] = "timer" /\ e \notin cancelled
    /\ cancelled' = cancelled \cup {e}
    /\ UNCHANGED <<usage, pc, owned, pending, threadVars, groupVars, handles,
                   waitVars, ready>>

\* add_callback_group_to_map, whenever the executor's mutex_ is free
MutexFree == pc \in {"clear_handles", "rcl_wait", "take_and_bundle", KindSeq[1]}

AddCallbackGroup(g) ==
    /\ MutexFree /\ {g, NodeOf[g]} \subseteq owned
    /\ g \notin SE!ToSet(weak_groups_to_nodes)
    /\ \E i \in 1..(Len(weak_groups_to_nodes) + 1) :
         weak_groups_to_nodes' = SE!InsertAt(weak_groups_to_nodes, i, g)
    /\ guard_conditions' = AddGuardCondition(guard_conditions, g)
    /\ UNCHANGED <<usage, pc, objectVars, threadVars, handles, waitVars, ready>>

-----------------------------------------------------------------------------
Loop ==
    \/ ClearHandles \/ CollectEntities \/ EraseInvalid \/ Resize
    \/ AddHandlesToWaitSet \/ RclWait \/ RemoveNullHandles
    \/ TakeReadyHandles \/ TakeAndBundle
    \/ \E k \in HandleKinds, t \in Threads : GetNext(k, t)
    \/ \E k \in HandleKinds : GetNextFails(k)

Execution == \E t \in Threads : Execute(t) \/ Finish(t)

Environment ==
    \/ \E e \in Entities : Arrive(e)
    \/ \E o \in Fragile : Drop(o)
    \/ \E e \in Entities : CancelTimer(e)
    \/ \E g \in Groups : AddCallbackGroup(g)

Next == Loop \/ Execution \/ Environment

Spec == Init /\ [][Next]_vars

\* The executor's thread goes on, and callbacks return.
FairSpec == Spec /\ WF_vars(Loop) /\ WF_vars(Execution)

-----------------------------------------------------------------------------
(***************************************************************************)
(* Properties                                                              *)
(***************************************************************************)

\* What number_of_ready_* promised to rcl_wait_set_resize is enough for what
\* add_handles_to_wait_set adds ("Couldn't fill wait set" is not thrown),
\* although groups and entities go away and waitables bring entries of their
\* own; and from then until remove_null_handles, index i of the wait set
\* belongs to handle i of the same kind, although the entries of the waitables
\* are in the same arrays and groups are added during rcl_wait.
WaitSetMatchesHandles ==
    /\ pc # "threw"
    /\ pc \in {"rcl_wait", "remove_null_handles"} =>
          \A k \in HandleKinds \ {"waitable"} : \A i \in DOMAIN handles[k] :
              /\ i \in DOMAIN wait_set[k]
              /\ wait_set[k][i] \in {handles[k][i], NULL}

\* What populate_ready_queues is given by take_ready_handles is what the wait
\* reported: nothing else, nothing twice, and everything whose object and
\* group still exist.
TakesWhatWasReported ==
    pc = "take_and_bundle" =>
        \A k \in BulkKinds :
            /\ SE!ToSet(ready[k]) \subseteq reported
            /\ \A i, j \in DOMAIN ready[k] : ready[k][i] = ready[k][j] => i = j
            /\ \A e \in reported :
                 /\ KindOf[e] = k /\ {e, GroupOf[e]} \subseteq owned
                 /\ GroupOf[e] \in SE!ToSet(weak_groups_to_nodes)
                 => e \in SE!ToSet(ready[k])

\* get_next_* never gives two threads work of one mutually exclusive group,
\* whichever threads wait, choose and execute, and in whatever order.
ExclusiveGroupsRunAlone ==
    \A t, u \in Threads :
        /\ busy[t] # NULL /\ busy[u] # NULL
        /\ GroupOf[busy[t]] = GroupOf[busy[u]] /\ GroupOf[busy[t]] \in MutexGroups
        => t = u

\* The executor can find this entity and take from it.
Usable(e) ==
    /\ {e, GroupOf[e], NodeOf[GroupOf[e]]} \subseteq owned
    /\ GroupOf[e] \in SE!ToSet(weak_groups_to_nodes)
    /\ e \notin cancelled

\* A subscription or timer that has something to take is taken from in the
\* end, unless it goes away (spin: wait_for_work, populate_ready_queues).
EveryArrivalIsTaken ==
    \A e \in {x \in Entities : KindOf[x] \in BulkKinds} :
        e \in pending /\ Usable(e) ~> e \notin pending \/ ~Usable(e)
=============================================================================
