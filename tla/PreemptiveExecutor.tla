------------------------- MODULE PreemptiveExecutor -------------------------
(***************************************************************************)
(* The life of a PreemptiveExecutor: the application creates callback      *)
(* groups and callbacks, adds nodes from any thread, calls spin (again     *)
(* after it returned or threw, or from a second thread), cancels, shuts    *)
(* the context down and finally destroys the executor.  spin loads the     *)
(* timing information, classifies the pending callback groups as           *)
(* real-time or not, spawns the rclcpp executor for the latter and the     *)
(* worker groups for the former, and dispatches what becomes ready.        *)
(*                                                                         *)
(* After a cancel a second call of spin is let in while the first has not  *)
(* returned.  The members have no mutex, so each access of spin to a       *)
(* member that another call changes is a step of its own.                  *)
(*                                                                         *)
(* What happens inside the registry, the memory strategy and a worker      *)
(* group is in the modules CallbackRegistry, RTMemoryStrategy and          *)
(* WorkerGroup.  rclcpp's executor classes are external.                   *)
(***************************************************************************)
EXTENDS Integers, Sequences, FiniteSets

CONSTANTS
    Nodes, Groups, Callbacks,
    FirstGroups, FirstCallbacks,  \* those that exist from the beginning
    NodeOf,          \* the node of each group
    GroupOf,         \* the callback group of each callback
    Timers,          \* the callbacks that are timers; the others subscribe
    CallbackName,    \* the name each callback is registered under, or Unnamed
    Unnamed,
    ThreadGroupOf,   \* the thread group the registry gives to each name
    Spinners,        \* threads that call spin
    OtherGroups,     \* bound: groups that another executor may take
    MaxSpins         \* bound: calls of spin altogether

ASSUME ConstantsAssumption ==
    /\ FirstGroups \subseteq Groups /\ FirstCallbacks \subseteq Callbacks
    /\ \A c \in FirstCallbacks : CallbackName[c] # Unnamed
    /\ NodeOf \in [Groups -> Nodes]
    /\ GroupOf \in [Callbacks -> Groups]
    /\ Timers \subseteq Callbacks /\ OtherGroups \subseteq Groups
    /\ \A c \in Callbacks :
          CallbackName[c] # Unnamed => ThreadGroupOf[CallbackName[c]] \in Nat
    /\ MaxSpins \in Nat

VARIABLES
    app,         \* the groups and callbacks that exist, the nodes that are gone
    node,        \* "free", "adding" (has_executor is up) or "added"
    associated,  \* who raised the flag of each group, or "none"
    registry,    \* CallbackRegistry's singleton and its callbacks; those whose
                 \* names are registered, before it is built
    ex,          \* the members of the executor
    nr,          \* the executors made for non_rt_executor and their threads
    ctxOk,       \* rclcpp::ok(context_)
    sp,          \* each spinner: where it is, and its local variables
    destruction, \* how far ~PreemptiveExecutor is
    hist         \* history, see Init

vars == <<app, node, associated, registry, ex, nr, ctxOk, sp, destruction,
          hist>>

Alive(g)     == g \in app.groups /\ NodeOf[g] \notin app.gone
GroupsOf(c)  == {ThreadGroupOf[CallbackName[d]] :
                   d \in {e \in c : CallbackName[e] # Unnamed}}
ThreadGroups == GroupsOf(Callbacks)

\* The local variables of a call of spin: what the loop of
\* classify_callback_groups has visited, the TimingExport of load_timing_info,
\* and the groups that the loop of spawn_worker_groups has left.
NoExport == [handles |-> {}, groups |-> {}]
Idle     == [pc |-> "idle", visited |-> {}, export |-> NoExport, left |-> <<>>]

Goto(s, label) == sp' = [sp EXCEPT ![s].pc = label]
Inside(s)      == sp[s].pc # "idle"
Running        == ctxOk /\ ex.spinning

\* nr.current counts the executors made for non_rt_executor, the last of which
\* is its value (0: none).  The call of each spinner may start a thread, which
\* runs one of them.
Executors == 0..MaxSpins
NoNonRt   == [current  |-> 0,
              groups   |-> [k \in Executors |-> {}],
              spinning |-> [k \in Executors |-> FALSE],
              thread   |-> [s \in Spinners |-> "none"],
              runs     |-> [s \in Spinners |-> 0]]

\* has_rt and has_non_rt of classify_callback_groups.
HasRt(g) == \E c \in app.callbacks : GroupOf[c] = g /\ c \in ex.timing

\* Mutant: callbacks without timing information are not looked for.
NothingIsNonRt(g) == FALSE

HasNonRt(g) == \E c \in app.callbacks : GroupOf[c] = g /\ c \notin ex.timing

Init ==
    /\ app = [groups |-> FirstGroups, callbacks |-> FirstCallbacks,
              gone |-> {}]
    /\ node = [n \in Nodes |-> "free"]
    /\ associated = [g \in Groups |-> "none"]
    \* An earlier executor of the process may have used the singleton.
    /\ registry \in {[state |-> "unbuilt", callbacks |-> FirstCallbacks],
                     [state |-> "exported", callbacks |-> {}]}
    /\ ex = [weak_nodes |-> {}, pending |-> {}, timing |-> {},
             thread_groups |-> {}, rt_groups |-> {}, non_rt_groups |-> <<>>,
             spawned |-> FALSE, workers |-> {}, woken |-> FALSE,
             spinning |-> FALSE]
    /\ nr = NoNonRt
    /\ ctxOk = TRUE
    /\ sp = [s \in Spinners |-> Idle]
    /\ destruction = "alive"
    /\ hist = [spins |-> 0,            \* calls of spin
               overlapped |-> FALSE,   \* two calls of spin were inside
               raced |-> FALSE,        \* that, or pending was written while it
                                       \* was read
               exports |-> 0,          \* exports this executor took
               accepted |-> {},        \* groups that add_node made pending
               known |-> {},           \* callbacks at the first export
               unexpected |-> FALSE,   \* dropped although it was in time
               cancelMissed |-> FALSE] \* a thread the destructor's cancel did
                                       \* not reach

-----------------------------------------------------------------------------
(***************************************************************************)
(* The application                                                         *)
(***************************************************************************)

CreateGroup(g) ==
    /\ g \notin app.groups /\ NodeOf[g] \notin app.gone
    /\ app' = [app EXCEPT !.groups = @ \cup {g}]
    /\ UNCHANGED <<node, associated, registry, ex, nr, ctxOk, sp, destruction,
                   hist>>

CreateCallback(c) ==
    /\ c \notin app.callbacks /\ Alive(GroupOf[c])
    /\ app' = [app EXCEPT !.callbacks = @ \cup {c}]
    /\ UNCHANGED <<node, associated, registry, ex, nr, ctxOk, sp, destruction,
                   hist>>

\* CallbackRegistry::register_callback_name, which throws the second time.  The
\* singleton reads the names when it is built, and never again.
RegisterCallbackName(c) ==
    /\ registry.state = "unbuilt"
    /\ c \in app.callbacks \ registry.callbacks /\ CallbackName[c] # Unnamed
    /\ registry' = [registry EXCEPT !.callbacks = @ \cup {c}]
    /\ UNCHANGED <<app, node, associated, ex, nr, ctxOk, sp, destruction, hist>>

\* The last reference to a node goes.  non_rt_callback_groups keeps the nodes
\* of its groups alive, the registry those of its callbacks until the export,
\* and so does a call of add_node.
DestroyNode(n) ==
    /\ n \notin app.gone /\ node[n] # "adding"
    /\ \A i \in DOMAIN ex.non_rt_groups : NodeOf[ex.non_rt_groups[i]] # n
    /\ registry.state # "unbuilt" =>
          \A c \in registry.callbacks : NodeOf[GroupOf[c]] # n
    /\ app' = [app EXCEPT !.gone = @ \cup {n}]
    /\ UNCHANGED <<node, associated, registry, ex, nr, ctxOk, sp, destruction,
                   hist>>

\* Another executor takes a group that is nobody's.
OtherExecutorAdds(g) ==
    /\ g \in OtherGroups /\ Alive(g) /\ associated[g] = "none"
    /\ associated' = [associated EXCEPT ![g] = "other"]
    /\ UNCHANGED <<app, node, registry, ex, nr, ctxOk, sp, destruction, hist>>

\* add_node up to the mutex: the exchange lets one caller through per node.
AddNode(n) ==
    /\ destruction = "alive"
    /\ n \notin app.gone /\ node[n] = "free"
    /\ node' = [node EXCEPT ![n] = "adding"]
    /\ UNCHANGED <<app, associated, registry, ex, nr, ctxOk, sp, destruction,
                   hist>>

\* The groups of a node that add_node makes pending.
PendingOf(n) ==
    {g \in Groups : Alive(g) /\ NodeOf[g] = n /\ associated[g] = "none"}

\* The spinners that read the pending groups, which they do without mutex_.
ReadingPending == {s \in Spinners : sp[s].pc \in {"loading", "classify"}}

\* add_node under the mutex.
InsertGroups(n) ==
    /\ node[n] = "adding"
    /\ node' = [node EXCEPT ![n] = "added"]
    /\ ex' = [ex EXCEPT !.pending = @ \cup PendingOf(n),
                        !.weak_nodes = @ \cup {n}]
    /\ hist' = [hist EXCEPT
          !.accepted = @ \cup PendingOf(n),
          !.raced = @ \/ (PendingOf(n) # {} /\ ReadingPending # {})]
    /\ UNCHANGED <<app, associated, registry, nr, ctxOk, sp, destruction>>

\* A triggered guard condition ends one wait_for_work.  (A trigger that finds
\* nobody waiting ends a later one at once, as WaitForWork may in any case.)
SomebodyWaits == \E s \in Spinners : sp[s].pc = "wait"

\* Executor::cancel on the preemptive executor lowers the flag and triggers a
\* guard condition.
Cancel ==
    /\ destruction = "alive" /\ \E s \in Spinners : Inside(s)
    /\ ex' = [ex EXCEPT !.spinning = FALSE, !.woken = SomebodyWaits]
    /\ UNCHANGED <<app, node, associated, registry, nr, ctxOk, sp, destruction,
                   hist>>

\* The shutdown of the context triggers a guard condition of the executor, too.
ContextShutdown ==
    /\ ctxOk
    /\ ctxOk' = FALSE
    /\ ex' = [ex EXCEPT !.woken = SomebodyWaits]
    /\ UNCHANGED <<app, node, associated, registry, nr, sp, destruction, hist>>

-----------------------------------------------------------------------------
(***************************************************************************)
(* spin: entry, exit and timing information                                *)
(***************************************************************************)

\* Mutant: nothing lowers the flag.
NoScopeExit == ex.spinning

\* What the scope exit of spin stores in the flag, whatever the reason.
ScopeExit == FALSE

Leave(s) == sp' = [sp EXCEPT ![s] = Idle]

LeaveWithoutChange(s) ==
    /\ ex' = [ex EXCEPT !.spinning = ScopeExit]
    /\ Leave(s)
    /\ UNCHANGED <<app, node, associated, registry, nr, ctxOk, destruction,
                   hist>>

CallsSpin(s) ==
    /\ destruction = "alive" /\ ~Inside(s) /\ hist.spins < MaxSpins
    /\ UNCHANGED <<app, node, associated, registry, nr, ctxOk, destruction>>

\* The exchange finds the flag up, and the call throws.
SpinRefused(s) ==
    /\ ex.spinning
    /\ CallsSpin(s)
    /\ hist' = [hist EXCEPT !.spins = @ + 1]
    /\ UNCHANGED <<ex, sp>>

\* After a cancel the flag is down although another call may still be inside;
\* the two then use the members without a mutex.
SpinAccepted(s) ==
    /\ ~ex.spinning
    /\ CallsSpin(s)
    /\ ex' = [ex EXCEPT !.spinning = TRUE]
    /\ hist' = [hist EXCEPT !.spins = @ + 1,
                            !.overlapped = @ \/ \E t \in Spinners : Inside(t),
                            !.raced = @ \/ \E t \in Spinners : Inside(t)]
    /\ Goto(s, "loading")

\* What the registry may be built from: of several callbacks with one name it
\* keeps the one it meets first.
OnePerName(C) ==
    {R \in SUBSET C : \A c \in C :
        Cardinality({d \in R : CallbackName[d] = CallbackName[c]}) = 1}

\* The pending groups an unlocked loop may see.
SeenPending == IF hist.raced THEN SUBSET ex.pending ELSE {ex.pending}

RegistrationsNow ==
    UNION {OnePerName({c \in registry.callbacks :
              GroupOf[c] \in P /\ Alive(GroupOf[c])}) : P \in SeenPending}

\* get_instance builds the singleton once, from the groups pending then.
Registrations == IF registry.state = "unbuilt" THEN RegistrationsNow
                                               ELSE {registry.callbacks}

Allocating == {s \in Spinners : sp[s].pc = "allocate"}

\* A second call that finds one at its allocation works on the same maps.
GetInstance(s) ==
    /\ sp[s].pc = "loading"
    /\ \E R \in Registrations :
          registry' = [callbacks |-> R,
                       state |-> IF registry.state = "exported" THEN "exported"
                                 ELSE IF Allocating = {} THEN "built"
                                                         ELSE "torn"]
    /\ Goto(s, "allocate")
    /\ UNCHANGED <<app, node, associated, ex, nr, ctxOk, destruction, hist>>

\* The thread groups a call may export: those of all its callbacks, or any part
\* where two calls at a time fill, read and clear the registry's maps.
Exportable == IF registry.state = "torn" THEN SUBSET registry.callbacks
                                         ELSE {registry.callbacks}

\* callback_threadgroup_allocation: the export leaves the registry empty.
ExportTiming(s) ==
    /\ sp[s].pc = "allocate"
    /\ \E D \in Exportable :
          sp' = [sp EXCEPT ![s].pc = "handles",
                           ![s].export = [handles |-> registry.callbacks,
                                          groups |-> GroupsOf(D)]]
    /\ registry' = IF Allocating = {s}
                   THEN [state |-> "exported", callbacks |-> {}] ELSE registry
    /\ hist' = [hist EXCEPT
          !.exports = @ + 1,
          !.known = IF hist.exports = 0 THEN app.callbacks ELSE {}]
    /\ UNCHANGED <<app, node, associated, ex, nr, ctxOk, destruction>>

\* callback_threadgroup_allocation throws; the registry keeps what it has.
AllocationThrows(s) ==
    /\ sp[s].pc = "allocate" /\ registry.state # "exported"
    /\ LeaveWithoutChange(s)

\* The two swaps of load_timing_info.
SwapHandles(s) ==
    /\ sp[s].pc = "handles"
    /\ ex' = [ex EXCEPT !.timing = sp[s].export.handles]
    /\ Goto(s, "groups")
    /\ UNCHANGED <<app, node, associated, registry, nr, ctxOk, destruction,
                   hist>>

SwapThreadGroups(s) ==
    /\ sp[s].pc = "groups"
    /\ ex' = [ex EXCEPT !.thread_groups = sp[s].export.groups]
    /\ sp' = [sp EXCEPT ![s].pc = "classify", ![s].export = NoExport]
    /\ UNCHANGED <<app, node, associated, registry, nr, ctxOk, destruction,
                   hist>>

-----------------------------------------------------------------------------
(***************************************************************************)
(* spin: classification and spawning                                       *)
(***************************************************************************)

NextPending(s, g) ==
    sp[s].pc = "classify" /\ g \in ex.pending \ sp[s].visited

\* Mutant: whether a group is somebody else's is not asked.
CanAlwaysAdd(g) == TRUE

\* Executor::add_callback_group_to_map and add_callback_group throw for a
\* group that is associated with an executor.
CanAdd(g) == associated[g] = "none"

\* One iteration of classify_callback_groups.
ClassifyGroup(s, g) ==
    /\ NextPending(s, g)
    /\ \/ ~Alive(g) /\ UNCHANGED <<ex, associated>>
       \/ /\ Alive(g) /\ HasRt(g) /\ ~HasNonRt(g) /\ CanAdd(g)
          /\ ex' = [ex EXCEPT !.rt_groups = @ \cup {g}]
          /\ associated' = [associated EXCEPT ![g] = "this"]
       \/ /\ Alive(g) /\ ~HasRt(g)
          /\ ex' = [ex EXCEPT !.non_rt_groups = Append(@, g)]
          /\ UNCHANGED associated
    /\ sp' = [sp EXCEPT ![s].visited = @ \cup {g}]
    /\ UNCHANGED <<app, node, registry, nr, ctxOk, destruction, hist>>

\* Real-time and other callbacks in one group, or a real-time group that is
\* associated: spin leaves in the middle of the loop.
ClassifyThrows(s, g) ==
    /\ NextPending(s, g) /\ Alive(g) /\ HasRt(g)
    /\ HasNonRt(g) \/ ~CanAdd(g)
    /\ LeaveWithoutChange(s)

\* Mutant: the loop ends with the first group.
LoopBroken(s) == ex.pending = {} \/ sp[s].visited # {}

\* A loop that raced may end anywhere.
LoopOver(s) == hist.raced \/ ex.pending \subseteq sp[s].visited

\* The loop is over and the map cleared.
ClassifyDone(s) ==
    /\ sp[s].pc = "classify" /\ LoopOver(s)
    /\ ex' = [ex EXCEPT !.pending = {}]
    /\ sp' = [sp EXCEPT ![s].pc = "spawn", ![s].visited = {}]
    /\ UNCHANGED <<app, node, associated, registry, nr, ctxOk, destruction,
                   hist>>

MaySpawn == ~ex.spawned /\ ex.non_rt_groups # <<>>

\* spawn_worker_groups throws "Non-RT executor already spawned".
SpawnRefused(s) ==
    /\ sp[s].pc = "spawn" /\ ~MaySpawn
    /\ LeaveWithoutChange(s)

\* The flags of the groups once an executor that served G is gone.
Released(G) == [g \in Groups |-> IF g \in G THEN "none" ELSE associated[g]]

\* The check is passed before anything is made.
SpawnAllowed(s) ==
    /\ sp[s].pc = "spawn" /\ MaySpawn
    /\ Goto(s, "create")
    /\ UNCHANGED <<app, node, associated, registry, ex, nr, ctxOk, destruction,
                   hist>>

\* The groups of executor k if it goes when nobody but the threads T holds it.
LastHeldGroups(k, T) ==
    IF \E t \in T : nr.runs[t] = k /\ nr.thread[t] \in {"started", "spinning"}
    THEN {} ELSE nr.groups[k]

\* The new executor replaces the one made before; a call makes one at most, so
\* MaxSpins does not bind.
CreateNonRt(s) ==
    LET dropped == LastHeldGroups(nr.current, Spinners) IN
    /\ sp[s].pc = "create" /\ nr.current < MaxSpins
    /\ nr' = [nr EXCEPT !.current = @ + 1, !.groups[nr.current] = @ \ dropped]
    /\ associated' = Released(dropped)
    /\ sp' = [sp EXCEPT ![s].pc = "adding", ![s].left = ex.non_rt_groups]
    /\ UNCHANGED <<app, node, registry, ex, ctxOk, destruction, hist>>

\* One iteration of the loop over the listed groups.
AddGroup(s) ==
    LET g == Head(sp[s].left) IN
    /\ sp[s].pc = "adding" /\ sp[s].left # <<>> /\ CanAdd(g)
    /\ nr' = [nr EXCEPT !.groups[nr.current] = @ \cup {g}]
    /\ associated' = [associated EXCEPT ![g] = "non_rt"]
    /\ sp' = [sp EXCEPT ![s].left = Tail(@)]
    /\ UNCHANGED <<app, node, registry, ex, ctxOk, destruction, hist>>

\* A listed group is somebody's, or listed twice: spin leaves, and the executor
\* keeps the groups before it.
SpawnThrows(s) ==
    /\ sp[s].pc = "adding" /\ sp[s].left # <<>> /\ ~CanAdd(Head(sp[s].left))
    /\ LeaveWithoutChange(s)

StartNonRt(s) ==
    /\ sp[s].pc = "adding" /\ sp[s].left = <<>>
    /\ nr' = [nr EXCEPT !.thread[s] = "started", !.runs[s] = nr.current]
    /\ Goto(s, "started")
    /\ UNCHANGED <<app, node, associated, registry, ex, ctxOk, destruction,
                   hist>>

SetSpawned(s) ==
    /\ sp[s].pc = "started"
    /\ ex' = [ex EXCEPT !.spawned = TRUE]
    /\ Goto(s, "workers")
    /\ UNCHANGED <<app, node, associated, registry, nr, ctxOk, destruction,
                   hist>>

\* Mutant: the loop over the thread groups misses the first one.
AllButOneToBuild == {t \in ex.thread_groups : t > 1}

ThreadGroupsToBuild == ex.thread_groups

\* The worker groups, one for each thread group.
SpawnWorkers(s) ==
    /\ sp[s].pc = "workers"
    /\ ex' = [ex EXCEPT !.workers = @ \cup ThreadGroupsToBuild]
    /\ Goto(s, "loop")
    /\ UNCHANGED <<app, node, associated, registry, nr, ctxOk, destruction,
                   hist>>

-----------------------------------------------------------------------------
(***************************************************************************)
(* spin: the loop                                                          *)
(***************************************************************************)

\* Mutant: cancel is not heeded.
HeedsContextOnly == ctxOk

KeepsSpinning == Running

SpinLoop(s) ==
    /\ sp[s].pc = "loop" /\ KeepsSpinning
    /\ Goto(s, "wait")
    /\ UNCHANGED <<app, node, associated, registry, ex, nr, ctxOk, destruction,
                   hist>>

SpinLoopEnds(s) ==
    /\ sp[s].pc = "loop" /\ ~KeepsSpinning
    /\ LeaveWithoutChange(s)

\* Executor::wait_for_work takes over the groups of its nodes that belong to
\* nobody, those which were never classified included.  It returns for a
\* trigger or for data, or for nothing.
WaitForWork(s) ==
    LET adopted == {g \in Groups : /\ Alive(g) /\ CanAdd(g)
                                   /\ NodeOf[g] \in ex.weak_nodes} IN
    /\ sp[s].pc = "wait"
    /\ ex' = [ex EXCEPT !.rt_groups = @ \cup adopted, !.woken = FALSE]
    /\ associated' = [g \in Groups |-> IF g \in adopted THEN "this"
                                                        ELSE associated[g]]
    /\ Goto(s, "dispatch")
    /\ UNCHANGED <<app, node, registry, nr, ctxOk, destruction, hist>>

\* populate_ready_queues finds nothing, or nobody to give it to, or finds the
\* worker group of what is ready.
Dispatch(s) ==
    /\ sp[s].pc = "dispatch"
    /\ Goto(s, "loop")
    /\ UNCHANGED <<app, node, associated, registry, ex, nr, ctxOk, destruction,
                   hist>>

\* A callback is ready that has no entry in the timing information.
Unlisted(c) ==
    /\ ex.workers # {}
    /\ c \in app.callbacks /\ GroupOf[c] \in ex.rt_groups
    /\ c \notin ex.timing

\* A callback that existed when the one and only export was taken, in a group
\* that was pending then.
InTime(c) ==
    /\ hist.exports = 1 /\ ~hist.raced /\ c \in hist.known
    /\ GroupOf[c] \in hist.accepted \ ex.pending

\* The message of such a subscription is dropped; such a timer ends spin.
DispatchUnlisted(s, c) ==
    /\ sp[s].pc = "dispatch" /\ Unlisted(c)
    /\ hist' = [hist EXCEPT !.unexpected = @ \/ InTime(c)]
    /\ \/ c \notin Timers /\ Goto(s, "loop") /\ UNCHANGED ex
       \/ /\ c \in Timers /\ Leave(s)
          /\ ex' = [ex EXCEPT !.spinning = ScopeExit]
    /\ UNCHANGED <<app, node, associated, registry, nr, ctxOk, destruction>>

\* "Unknown thread group id": what is ready has an entry, but no worker group.
DispatchUnknown(s, c) ==
    /\ sp[s].pc = "dispatch" /\ ex.workers # {}
    /\ c \in ex.timing /\ GroupOf[c] \in ex.rt_groups
    /\ ThreadGroupOf[CallbackName[c]] \notin ex.workers
    /\ LeaveWithoutChange(s)

-----------------------------------------------------------------------------
(***************************************************************************)
(* The threads of the non-real-time executors, and destruction             *)
(***************************************************************************)

\* MultiThreadedExecutor::spin raises its own flag when it is entered ...
NonRtSpin(s) ==
    /\ nr.thread[s] = "started" /\ ~nr.spinning[nr.runs[s]]
    /\ nr' = [nr EXCEPT !.thread[s] = "spinning", !.spinning[nr.runs[s]] = TRUE]
    /\ UNCHANGED <<app, node, associated, registry, ex, ctxOk, sp, destruction,
                   hist>>

\* ... and throws when another thread's spin is in progress, which nobody
\* catches: the process is terminated.
NonRtSpinThrows(s) ==
    /\ nr.thread[s] = "started" /\ nr.spinning[nr.runs[s]]
    /\ destruction' = "terminated"
    /\ sp' = [t \in Spinners |-> Idle]
    /\ ex' = [ex EXCEPT !.spinning = FALSE]
    /\ nr' = NoNonRt
    /\ UNCHANGED <<app, node, associated, registry, ctxOk, hist>>

\* It returns when the flag is lowered or the context is shut down.  The thread
\* ends, and with it an executor that was replaced.
NonRtReturn(s) ==
    LET k       == nr.runs[s]
        dropped == IF k = nr.current THEN {}
                                     ELSE LastHeldGroups(k, Spinners \ {s}) IN
    /\ nr.thread[s] = "spinning" /\ ~(ctxOk /\ nr.spinning[k])
    /\ nr' = [nr EXCEPT !.thread[s] = "ended", !.spinning[k] = FALSE,
                        !.groups[k] = @ \ dropped]
    /\ associated' = Released(dropped)
    /\ UNCHANGED <<app, node, registry, ex, ctxOk, sp, destruction, hist>>

\* Mutant: the executor is joined without being cancelled.
NotCancelled == nr

CancelledNonRt == [nr EXCEPT !.spinning[nr.current] = FALSE]

\* The owner destroys the executor, once no call of it is in progress:
\* stop_non_rt_executor, up to the join.
Destroy ==
    /\ destruction = "alive"
    /\ \A n \in Nodes : node[n] # "adding"
    /\ \A s \in Spinners : ~Inside(s)
    /\ nr' = CancelledNonRt
    /\ hist' = [hist EXCEPT !.cancelMissed =
          \E s \in Spinners : \/ nr.thread[s] = "started"
                              \/ /\ nr.thread[s] = "spinning"
                                 /\ nr.runs[s] # nr.current]
    /\ destruction' = "join"
    /\ UNCHANGED <<app, node, associated, registry, ex, ctxOk, sp>>

JoinNonRt ==
    /\ destruction = "join"
    /\ \A s \in Spinners : nr.thread[s] \in {"none", "ended"}
    /\ nr' = NoNonRt
    /\ associated' = Released(UNION {nr.groups[k] : k \in Executors})
    /\ ex' = [ex EXCEPT !.spawned = FALSE]
    /\ destruction' = "workers"
    /\ UNCHANGED <<app, node, registry, ctxOk, sp, hist>>

\* The members go, the worker groups among them, and then the base class,
\* which lets its nodes and groups go.
DestroyMembers ==
    /\ destruction = "workers"
    /\ ex' = [ex EXCEPT !.workers = {}, !.non_rt_groups = <<>>,
                        !.pending = {},
                        !.rt_groups = {}, !.weak_nodes = {}]
    /\ associated' = Released(ex.rt_groups)
    /\ node' = [n \in Nodes |-> IF n \in ex.weak_nodes THEN "free"
                                                       ELSE node[n]]
    /\ destruction' = "destroyed"
    /\ UNCHANGED <<app, registry, nr, ctxOk, sp, hist>>

-----------------------------------------------------------------------------
\* Once the executor is destroyed there is nothing left to look at.
Application ==
    /\ destruction \notin {"destroyed", "terminated"}
    /\ \/ \E g \in Groups : CreateGroup(g) \/ OtherExecutorAdds(g)
       \/ \E c \in Callbacks : CreateCallback(c) \/ RegisterCallbackName(c)
       \/ \E n \in Nodes : DestroyNode(n) \/ AddNode(n) \/ InsertGroups(n)
       \/ Cancel \/ ContextShutdown \/ Destroy

Load(s) ==
    \/ GetInstance(s) \/ ExportTiming(s) \/ AllocationThrows(s)
    \/ SwapHandles(s) \/ SwapThreadGroups(s)

Classify(s) ==
    \/ \E g \in Groups : ClassifyGroup(s, g) \/ ClassifyThrows(s, g)
    \/ ClassifyDone(s)

Spawn(s) ==
    \/ SpawnRefused(s) \/ SpawnAllowed(s) \/ CreateNonRt(s)
    \/ AddGroup(s) \/ SpawnThrows(s) \/ StartNonRt(s) \/ SetSpawned(s)
    \/ SpawnWorkers(s)

Loop(s) ==
    \/ SpinLoop(s) \/ SpinLoopEnds(s) \/ Dispatch(s)
    \/ \E c \in Callbacks : DispatchUnlisted(s, c) \/ DispatchUnknown(s, c)

Teardown ==
    \/ \E s \in Spinners : NonRtSpin(s) \/ NonRtSpinThrows(s) \/ NonRtReturn(s)
    \/ JoinNonRt \/ DestroyMembers

Finished ==
    destruction \in {"destroyed", "terminated"} /\ UNCHANGED vars

Next ==
    \/ Application
    \/ \E s \in Spinners : \/ SpinRefused(s) \/ SpinAccepted(s)
                           \/ Load(s) \/ Classify(s) \/ Spawn(s)
                           \/ Loop(s) \/ WaitForWork(s)
    \/ Teardown
    \/ Finished

Spec == Init /\ [][Next]_vars

\* A thread inside spin goes on, and so do the threads of the non-real-time
\* executors and a destructor.  wait_for_work must return for a trigger only:
\* no guard condition tells it that another call's scope exit lowered the flag.
Fairness ==
    /\ \A s \in Spinners :
          /\ WF_vars(Load(s) \/ Classify(s) \/ Spawn(s) \/ Loop(s))
          /\ WF_vars(ex.woken /\ WaitForWork(s))
    /\ WF_vars(Teardown)

FairSpec == Spec /\ Fairness

-----------------------------------------------------------------------------
(***************************************************************************)
(* Properties                                                              *)
(***************************************************************************)

\* A callback group is never executed by two executors, although
\* classify_callback_groups, spawn_worker_groups, wait_for_work, a second
\* spin after a failed one and other executors all claim groups.
NoGroupIsServedTwice ==
    /\ \A k \in Executors :
          /\ ex.rt_groups \cap nr.groups[k] = {}
          /\ \A g \in ex.rt_groups \cup nr.groups[k] : associated[g] # "other"
    /\ \A j, k \in Executors : j # k => nr.groups[j] \cap nr.groups[k] = {}

\* spin has started what it needs and is on its way to its loop, or in it.
Serving(s) == sp[s].pc \in {"started", "workers", "loop", "wait", "dispatch"}

\* An executor that a thread runs, or has run until its end, has the group.
HasThread(g) ==
    \E s \in Spinners : nr.thread[s] # "none" /\ g \in nr.groups[nr.runs[s]]

\* A group that add_node accepted is not forgotten, whatever order add_node,
\* spin and failing spins come in, as long as they do not overlap: until it is
\* classified it is pending; when spin has got to its loop, this executor or
\* the running one for the other groups has it, also when the classification
\* was that of an earlier spin that threw; and after a spin that threw it is
\* still listed, so that no later spin gets to its loop without it.  Exempt are
\* the groups of nodes that are gone (classify_callback_groups clears the map).
NoGroupIsLost ==
    destruction = "alive" /\ ~hist.raced =>
        \A g \in hist.accepted :
            \/ g \in ex.pending \cup ex.rt_groups
            \/ HasThread(g)
            \/ /\ \A s \in Spinners : ~Serving(s)
               /\ \E i \in DOMAIN ex.non_rt_groups : ex.non_rt_groups[i] = g
            \/ NodeOf[g] \in app.gone

\* Whatever is dispatched to a thread group finds its worker group, also after
\* spins that failed half-way and with the empty export of a later one, as long
\* as no two calls of spin overlap: "Unknown thread group id" is not thrown.
\* (Overlapping calls may mix the handles and thread groups of two exports.)
ListedCallbacksHaveWorkers ==
    (/\ ~hist.overlapped
     /\ \E s \in Spinners : sp[s].pc \in {"loop", "wait", "dispatch"})
        => GroupsOf(ex.timing) \subseteq ex.workers

\* As long as one export was taken only, messages are dropped and timers end
\* spin only when the callback or its group came after the classification.
OnlyLatecomersAreDropped == ~hist.unexpected

\* Worker groups are destroyed after the executor was stopped, which the
\* threads need to leave their loop (WorkerGroup's stop permits).
WorkersAreStoppedBeforeDestruction == destruction = "workers" => ~Running

\* spin returns after cancel or shutdown, from wherever it is, as long as no two
\* calls overlapped: the scope exit of one lowers the flag, and nothing wakes
\* the other's wait_for_work.
SpinReturns ==
    ((\E s \in Spinners : Inside(s)) /\ ~Running)
        ~> (hist.overlapped \/ \A s \in Spinners : ~Inside(s))

\* The destructor returns, provided that it could cancel every thread it joins
\* (stop_non_rt_executor cancels the last executor made, and a thread that has
\* not called spin yet raises the flag again), or that the context is shut down;
\* or a second spin of one executor terminates the process before.
DestructorReturns ==
    (destruction = "join" /\ (~hist.cancelMissed \/ ~ctxOk))
        ~> (destruction \in {"destroyed", "terminated"})
=============================================================================
