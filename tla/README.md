# A TLA+ verification of the preemptive executor

`preemptive_executor` is an executor for ROS 2 (rclcpp) that runs the callbacks
of user-defined *chains* on groups of real-time threads. This directory holds
TLA+ models of its parts, TLC configurations that check them on small
instances, and TLAPS proofs that hold for every instance. Paths below are
relative to the repository: `src/` for the `.cpp` files and
`include/preemptive_executor/` for the headers.

## 1. The system

| Component | State | Operations |
|---|---|---|
| `ChainYamlParser` (`yaml_parser`) | `user_chains` | `load_yaml_file`, `parse` |
| `CallbackRegistry` (`callback_registry`) | names of entities, adjacency lists of callbacks and of thread groups, thread group of each callback | constructor, `callback_threadgroup_allocation` with its two recursive traversals, `export_timing_information` |
| `PreemptiveExecutor` (`preemptive_executor`) | pending callback groups, timing information, worker groups by id, the non-real-time executor | `add_node`, `spin` (`load_timing_info`, `classify_callback_groups`, `spawn_worker_groups`, then `wait_for_work` and `populate_ready_queues` in a loop), destruction |
| `RTAllocatorMemoryStrategy` | handles collected per kind, guard conditions | `clear_handles`, `collect_entities`, `number_of_*`, `add_handles_to_wait_set`, `remove_null_handles`, `take_ready_handles`, `get_next_*` |
| Bundled executables (`bundled_*`) | a subscription or timer and the message taken | `take_and_bundle`, `run` |
| `WorkerGroup`, `MutexGroup` (`worker_group`) | threads, semaphore, ready queue with `num_pending`, boost flag | constructor, `worker_main`, `update_prio`, destructor |
| `moodycamel::ConcurrentQueue` (vendored) | the producer's indices and counters, block index, blocks, block pool and free list | `enqueue_bulk`, `try_dequeue`, destruction; `add` and `try_get` of the free list |

How they interact. The parser's chains and the callback groups of the nodes go
to the registry, which answers with a thread group for each handle and a
priority, a number of threads and a kind for each thread group. `spin` builds a
worker group for each thread group, leaves the other callback groups to an
rclcpp `MultiThreadedExecutor`, and then loops: the base class collects the
handles through the memory strategy and waits; the strategy returns what is
ready; each ready entity is bundled with its message and pushed to the queue of
its group; `num_pending`, the priority and the semaphore of that group are
updated. The group's threads take a permit, pop a bundle and run it. Two flags,
`spinning` and the state of the rclcpp context, stop everything; the destructor
of a group wakes its threads with one permit each and joins them.

What is hard in it:

* **concurrency**: dispatcher and workers share the queue, a counter, a
  semaphore, a flag and the priority of a thread, and update them in separate
  steps; `update_prio` runs on two threads at once;
* **shutdown**: stop permits are not distinguished from work permits; the flags
  are read between the permit and the dequeue; the virtual call of
  `update_prio` races with the destructor;
* **order of unordered containers**: chains, successors and thread groups are
  visited in the order of hash maps;
* **recursion**: two traversals over graphs that converge, diverge and may have
  cycles at the level of thread groups;
* **setup and teardown**: nodes are added while `spin` reads them without the
  mutex; `spin` can throw at several places and be called again, from any thread;
  the non-real-time executor is cancelled from outside and joined;
* **partial failure**: a take that fails or throws in the middle of a round, a
  file that is rejected halfway, an `enqueue_bulk` that runs out of memory and
  has to be rolled back;
* **lock-free recycling**: blocks and index entries are reused while consumers
  still hold positions they read earlier;
* **stale references**: handles are matched with the wait set by index across a
  wait during which the mutex is free and objects may vanish.

What makes each component correct:

* worker group: permits and bundles match; no bundle waits for a wake-up that
  does not come; a worker that looks for a bundle finds it; the load it judges
  by is true; a boost ends; the destructor returns;
* registry: callbacks of a mutually exclusive group share one thread; priorities
  follow deadlines; thread counts follow the predecessors; the export is closed;
  the allocation comes to an end;
* memory strategy: the wait set is large enough and aligned with the handles;
  what is returned is what the wait reported, once; nothing is starved; mutually
  exclusive groups run alone;
* executor: every entity ends up with exactly one of the two executors; each
  callback that is real-time has a group; stop and destruction come to an end;
* bundles: a message that was taken reaches its callback once, as it was taken,
  and a loan is given back;
* parser: the registry gets chains that it can read, whatever was rejected
  before;
* queue: each element is handed out once and in order, and memory is recycled
  only when nobody can still reach it.

`PROJECT.json` lists every hazard with the line where it bites and the
properties that would catch it.

## 2. Modules

| Module | Models |
|---|---|
| `WorkerGroup` | one worker group, its threads and the part of `spin` and `populate_ready_queues` that feeds it |
| `CallbackRegistry`, `MC_CallbackRegistry` | the registry, and the inputs it is checked with |
| `RTMemoryStrategy`, `MC_RTMemoryStrategy` | the memory strategy with the wait loop around it |
| `PreemptiveExecutor`, `MC_PreemptiveExecutor` | the life of an executor: `add_node`, calls of `spin`, the non-real-time executor, destruction |
| `BundledExecutable`, `MC_BundledExecutable` | from a message in the middleware over the rounds of `populate_ready_queues` to the callback |
| `ChainYamlParser`, `MC_ChainYamlParser` | loading, parsing, and the map the registry reads |
| `ConcurrentQueue`, `MC_ConcurrentQueue` | the queue as a ready queue uses it |
| `FifoQueue` | what the queue promises: the abstract specification of `ConcurrentQueue` |
| `FreeList` | the queue's lock-free list of free blocks |
| `NodePool` | what the free list promises: the abstract specification of `FreeList` |
| `*_proofs` | the theorems about a module, see section 5 |

How the modules fit together. `ChainYamlParser` ends where the registry is
built from its map, and its `RegistryGetsValidChains` discharges the part of
`CallbackRegistry`'s `InputsAssumption` that says a chain has a callback (not the
part that says a period is not 0, see section 4). `PreemptiveExecutor` takes the
registry's export as a set of callbacks with their thread groups. `RTMemoryStrategy`
finds out what is ready; `BundledExecutable` takes it from there, over several
thread groups; `WorkerGroup` refines what happens between the enqueue and the
start of a bundle in one group. `BundledExecutable` uses a FIFO queue and
`WorkerGroup` two cursors with a `try_dequeue` that may fail although an element
is there. Both are justified by `ConcurrentQueue`, which implements `FifoQueue`
and whose failures with permits are exactly those of a stale tail
(`FailuresHaveStaleTails`). `ConcurrentQueue` keeps its free blocks in a set, which
`FreeList` justifies by implementing `NodePool`.

### WorkerGroup

Actor 0 is the thread that runs `spin`; actors `1..number_of_threads` are the
workers. Each step is one access to shared memory, so the model has every
interleaving of the real threads. `pc` says what an actor does next. The queue
is two cursors, since the model has one producer and a bundle has no content
that matters: bundle `i` is in the queue when `headIndex < i <= tailIndex`.
`try_dequeue` is two steps (`ReadTail`, then `Pop` or `PopFails`), which gives
the false negatives the code retries on. `update_prio` is four steps
(`PrioLoad`, `PrioCompare`, `PrioSet`, `PrioStore`) and is executed by the
dispatcher and the worker. `AfterRun` leaves open which `update_prio` a worker
reaches while `~MutexGroup` may be running. Atomics are sequentially
consistent, which is what the code's default memory order gives.
`EnqueueFails` stands for every way in which `spin` can leave by an exception.

### CallbackRegistry

One action is one chain, one call of a traversal or one pass of
`callback_threadgroup_allocation`. The recursion is a stack of pending calls.
Iteration orders of unordered containers are chosen by `\E`. Callbacks are
names; deadlines and periods are numbers; a thread group keeps only the first
of its callbacks, since the others are only printed. Thread counts and
in-degrees wrap at the width of their types. A call of
`recursive_threadgroup_traversal` that is nested deeper than there are thread
groups is on a cycle, and the model goes to `"overflow"`. The caller may call
again after a return or an exception (`Allocate`), at most `MaxCalls` times.

### RTMemoryStrategy

One action is one operation of the strategy, in the order of
`rclcpp::Executor::wait_for_work`, and then either `take_ready_handles`
(`PreemptiveExecutor::spin`) or `get_next_*` with any number of threads (the
rclcpp interface, which `spin_some` and `spin_once` inherit). The five handle
lists are one function of the kind; wait set entries are named by the entity
that added them, and `rcl_wait` turns those with nothing to take into `NULL`.
Whether a weak pointer can be locked follows from who still refers to the
object: the application (`owned`) or, for a time, the executor itself.
`rcl_wait`, the executor's bookkeeping of groups and the execution of a callback
are external and modelled from how the code uses them.

### PreemptiveExecutor

`app`, `node` and `associated` are the application's objects and the flags
rclcpp keeps with them; `registry` is the singleton; `ex` holds the members of the
executor, `nr` the executors that were made for the other groups and their threads,
`sp` the place and the local variables of each thread that calls `spin`,
`destruction` the destructor. `add_node` is two actions: the exchange of the
node's flag (`AddNode`) and the part under the mutex (`InsertGroups`).

After a cancel a second call of `spin` is let in while the first is inside
(`hist.overlapped`), so each access of `spin` to a member is an action: entry
(`SpinRefused`, `SpinAccepted`); `GetInstance`, `ExportTiming`, `SwapHandles` and
`SwapThreadGroups` for `load_timing_info`; `ClassifyGroup` for each pending group,
`ClassifyDone`; `SpawnAllowed`, `CreateNonRt`, an `AddGroup` for each listed group,
`StartNonRt`, `SetSpawned` and `SpawnWorkers`; and the loop. `AllocationThrows`,
`ClassifyThrows`, `SpawnRefused`, `SpawnThrows`, an unlisted timer
(`DispatchUnlisted`) and an unknown thread group (`DispatchUnknown`) are the places
where it throws, and each lowers the flag (`ScopeExit`). While two calls are in the
allocation, the registry is `"torn"`, and a call may export any part of its thread
groups. Two calls may both make an executor for the other groups; two threads may
even run the same one, which ends the process (`NonRtSpinThrows`).

`load_timing_info` and `classify_callback_groups` read the pending groups without
the mutex: once `add_node`, or a second call of `spin`, has written the map during
such a loop (`hist.raced`), the loop may see any part of it. The application may
create groups and callbacks late, hand groups to another executor, destroy nodes,
cancel and shut down at any moment. `ex.woken` says that a guard condition was
triggered while somebody was in `wait_for_work`: `cancel` and a shutdown do that, the
scope exit of `spin` does not.

### BundledExecutable

`arrived` and `gone` count the messages of a subscription and the ticks of a
timer. A round (`Wake` to `RoundEnds`) takes one message of each ready entity:
`TakeMessage` for each of the three kinds (lent, serialized, generic), with
`TakeFails` when the message is gone, `TakeThrows` for the exceptions that
`try_take` does not catch; the bundles wait in `bundles_by_tgid` and go to the
queues group by group (`EnqueueBulk`). `RunMessage`, `RunTimer` and `ReturnLoan` are
the steps of a worker. A message that no take has filled in is `Blank`; the
pointer that nothing initialises when a loaned take fails is `Garbage`.
`listed` says which entities have timing information; it is chosen in `Init`.

### ChainYamlParser

A YAML node is its type and value. `parse` is one action per entry, so that what
is stored when an entry is rejected is visible; `Valid` collects the checks in
the code's order, `Converts` the conversions to `uint32_t` and to strings, with
their failures. A key that is not a scalar is `NoString`. Any sequence of loads,
parses, failures and the building of the registry can happen. `before` remembers
what was stored when the last `parse` was called.

### ConcurrentQueue and FreeList

One action is one access to an atomic. `pr` has the locals of `enqueue_bulk`
(`InsertKey`, `InsertTail`, `RequisitionBlock` per block, `GrowIndex`, the rollback
`RewindInserted`, `RewindBlock`, `EnqueueFails`, then `Fill` and `Publish`), `co` those of
`try_dequeue` (the estimate `SizeTail`, `SizeHead`; `LoadTail`, `LoadOvercommit`,
`CheckCount`, `CountDequeue`, `Recheck`, then `Overcommit` or `Claim`, the lookup
`LoadHeader`, `LoadIndexTail`, `LoadTailKey`, and `MoveElement`, `SetEmpty`, `Unlink`,
`AddBlockToFreeList`). `q.byPermit` says whether a consumer acquires a permit
first and tries until it succeeds, as workers do, or calls at any time. Elements
are numbered, so that a consumer that reads a recycled slot is seen to hold the
wrong one. Memory may run out at every new block and every larger index.

`FreeList` has the two halves of a node's reference word (`count`, `should`), the
links and the locals of `add`, `add_knowing_refcount_is_zero` and `try_get`.

## 3. What the runs check

| Run | Instance | Shows |
|---|---|---|
| `worker_pool` | 2 threads, batches of up to 2, 4 bundles, no tolerated failure | `PermitConservation`, `ClaimersHaveWork`, `PendingIsExact`, `OvertakenAtEveryFailure`; no lost wake-up (`EveryBundleStarts`); `DestructionCompletes` |
| `worker_mutex` | mutex group, batches of up to 2, 7 bundles | the overlap of the two `update_prio` keeps `IdleGroupIsNotFlagged`; `SoleWorkerNeverFails` |
| `worker_unboost` | the same | violated: the thread can stay at the boosted priority |
| `registry_allocation` | see below, 2 calls | mutual exclusion, priorities, thread counts, timing of the roots, completeness and a closed export; `AllocationEnds` where no mutex group feeds back into itself |
| `registry_recursion` | chains that meet in two callbacks of one mutex group | violated: the recursion does not end |
| `strategy_bulk` | 2 groups; 2 subscriptions, a timer, a waitable with a subscription of its own; one subscription and one group may vanish | `WaitSetMatchesHandles`, `TakesWhatWasReported`, `EveryArrivalIsTaken` |
| `strategy_single` | 2 threads; 4 kinds of entities | `ExclusiveGroupsRunAlone` |
| `executor_lifecycle` | a node, a group and a late one, a callback and a late timer, 2 threads that call `spin` twice altogether | no group is served twice, ever; while calls do not overlap: none is lost, dispatch finds its workers, only latecomers are dropped, `SpinReturns`; `DestructorReturns` |
| `queue` | 2 consumers, blocks of 2, 3 blocks, an index that grows from 2 to 4, batches of up to 3 | `ImplementsFifo`; blocks and entries are not reused too early (`BlocksInUseStay`), an enqueue that fails leaves nothing behind (`NothingLeaks`), `FailuresHaveStaleTails` |
| `freelist` | 3 threads, 2 blocks, 2 calls of `try_get` each | `ImplementsPool`; `EveryBlockIsInOnePlace`: none is lost, one adder per node |
| `yaml_parse` | documents of up to two chains with every kind of fault | `RegistryGetsValidChains`, `StoredUpToTheFault` |
| `bundles` | a pool of 2 workers, a mutex group; a lending and a serialized subscription, a timer; all or one of them listed; one fault | `TakenIsRunOnce`, `NoMessageAfterFailedTake`, `OnlyDroppedLoansStay`, `SingleWorkersKeepOrder`, `EveryMessageIsHandled` |

Bounds, and why they are enough to meet the hard cases:

* `MaxFailedAttempts = 0` makes the retry limit reachable with four bundles:
  one worker can be overtaken twice. Two threads are enough for every race
  between workers, since a third one behaves to each as the second does;
  `MaxBatch = 2` gives batches that several workers share. Seven bundles in the
  mutex group let the load cross the boost threshold several times, which the
  counterexample of `worker_unboost` needs.
* The registry is checked with all pairs of chains of up to three of three
  callbacks without repetition, in all groupings by a mutually exclusive and a
  reentrant group, and with families for what needs more callbacks: chains that
  meet in two callbacks (81 groupings), mutex groups reached over two ways, two
  callbacks with the same two successors, a callback that is also a chain of its
  own, and irregular inputs (unregistered, unused, twice registered callbacks, a
  cycle). `MaxCalls = 2` gives a retry and a second executor.
* In the strategy each entity has something to take or not; a waitable comes
  between two subscriptions so that a wrong index would be seen; two groups are
  in the map in any order, or are added while the executor waits.
* In the executor, two calls of `spin` give a retry after each way to throw, a
  refused call and, after a cancel, two calls inside at once; one node is enough
  for every race with `add_node`, and its two groups for a group that is found
  by the loop and one that is not. The late timer makes a real-time group mixed,
  or real-time after all, or ends `spin`, depending on when it is created and
  named. An earlier executor of the process may have emptied the registry. Only
  the late group is ever given to another executor (`OtherGroups`). `MaxSpins` bounds
  the executors made for the other groups, too, of which a call makes one at most.
* In the queue, three blocks are recycled, an index of two entries has to grow
  both before and after its ring has turned (the latter needs the seven elements
  that `MC_MaxIndex` gives to consumers with permits), and a batch of three needs
  two new blocks, so that a rollback has something to undo. `IndexMod` is
  large enough for `BoundsAssumption`: indices do not wrap, as 64 bits do not in the
  life of a process. The consumers are interchangeable and a symmetry set.
* In the free list, the ABA case needs two nodes and a thread that holds a stale
  head while the other takes both and adds one back; a third thread can leave
  the add of a node to somebody else meanwhile.
* In `bundles`, one subscription has two messages, which order needs; one fault
  is a take that fails, a message that expires, or an exception, at any place.

Fairness. A worker that can take a step takes one in the end: the operating
system runs each thread and a callback returns. The dispatcher goes on, but work
need not arrive, and nothing forces the executor to stop or to be destroyed;
`wait_for_work` is required to return only after a stop, whose guard condition
wakes it. In the strategy, the loop goes on; a wait returns when an entity is
ready, and the liveness property speaks only of that case. The registry is
sequential: its next step is taken. In `PreemptiveExecutor` a thread inside `spin`, the
threads of the non-real-time executors and the destructor go on, and the application
need not do anything. `wait_for_work` must return only when a guard condition was
triggered while somebody waited (`ex.woken`), by `cancel` or by a shutdown. That
another call of `spin` has thrown and its scope exit has lowered the flag wakes
nobody: the first call then waits until some other event, perhaps forever, and
`SpinReturns` holds only as long as calls have not overlapped.
`DestructorReturns` is stated with the exception that the
code has: if `cancel` comes before the thread of the non-real-time executor has
entered `spin`, that call raises the flag again and the join waits for a shutdown.
In `BundledExecutable` the rounds and the workers go on; arrivals, faults and the
end of `spin` may or may not come.

## 4. Disagreements between code and comments

Two are runs that TLC refutes; `PROJECT.json` has the lines.

1. A mutex group's thread can keep priority 99 after its last bundle although
   `worker_main` has a "Post-run possible unboost" (`worker_unboost`).
2. Two chains that meet in two callbacks of one mutually exclusive group send
   `recursive_threadgroup_traversal` into an endless recursion
   (`registry_recursion`).

Others were met while modelling. The model has the code's behaviour, and a
property of a passing run says how far it goes:

3. A chain of one callback erases what longer chains stored for that callback.
   Without such chains nothing is lost (`WellFormedChainsAreAllocated`), and with
   them the first callback of a thread group that is a root still has its timing
   (`RootsHaveTiming`).
4. A divergence into callbacks without other predecessors does not open thread
   groups; all successors but one are left out and the export throws. What is
   allocated completely is said by `WellFormedChainsAreAllocated`.
5. The early return at a visited callback loses the edge from the second
   predecessor, so a converging group has the threads of one predecessor only;
   `ThreadCountsBalance` speaks of the recorded predecessors.
6. Priorities rise with the deadline. A comment calls that deadline monotonic;
   under SCHED_FIFO, where the larger number is the more urgent one, it makes the
   longest deadline the most urgent. `PrioritiesFollowDeadlines` therefore leaves
   the direction open and says what either one needs: numbers without a gap or a
   tie, monotonic in the deadlines.
7. After an allocation that threw, a second call exports priority 0 for the
   callbacks visited before; the property about priorities excludes retries.
8. `spin` guards against a second call by the flag that `cancel` lowers: after a
   cancel a second call is let in while the first is still inside. No group is
   served twice even then (`NoGroupIsServedTwice`). But the swaps of the two calls
   may leave the handles of one export with the thread groups of another, both may
   spawn, and the first to leave takes the flag from the other without waking it, so
   `ListedCallbacksHaveWorkers`, `NoGroupIsLost` and `SpinReturns` are about
   executions in which calls do not overlap.
9. "Non-RT executor already spawned" is also thrown when nothing was spawned,
   because every group is real-time; such an executor cannot spin.
10. The comment "Skip empty chain names" stands before a check that throws. The
   model throws; `StoredUpToTheFault` is about documents without an empty name. The
   message "No valid chains found in YAML file" is about `user_chains`, not about the
   file: a file without a chain is accepted when an earlier one had some, and the
   property says so (`before`).
11. The parser accepts a period of 0, by which the registry divides.

## 5. What is proved

`WorkerGroup_proofs` proves for every number of threads, bundles, batches and
retries, from `ConstantsAssumption` only:

* `TypeCorrect` (which the run need not check), `PermitsConserved`, `WorkForEveryClaimer`, `PendingExact`,
  `FailuresAreOvertakings`, `SoleWorkerSucceeds`, `IdleNotFlagged`.

The argument is in layers, each inductive relative to the ones before. The
first adds to `TypeOK` which labels an actor can be at, when threads exist and
that a batch is open only between enqueue and release. `QueueInv` has the
conservation of permits and the exactness of `num_pending`, which are equations
between cardinalities of sets of workers: the lemmas on the sets of workers at
given labels say how one step of one worker changes them. That a claimer has
work does not follow from conservation alone, because stop permits count too: it
needs that the stop permits are released only after `Running` became false for
good, so that their takers leave at the check. `DequeueInv` relates the tail a
worker has loaded, the head and the history variable `entryHead`; with one
worker no pop can come in between. `BoostInv` says that a worker which has
decided to boost has more than one bundle pending, hence calls `update_prio`
again, and that the flag is down whenever nothing is pending and the worker is
outside `update_prio`: this is inductive although the two calls overlap, because
the dispatcher is inside `update_prio` only while its own batch is still counted
and not yet released.

`CallbackRegistry_proofs` proves, whatever the chains, the groups, the iteration
orders and the number of calls are:

* `ExclusionSurvivesAllocation`: callbacks of one mutually exclusive group share
  one thread group, which is a mutex group, and two such groups never share one.
  The invariant says that ids are drawn in order, that the map from mutex groups
  to ids is injective and leads to mutex thread groups, and that each assigned
  callback of such a group has the id of that map. It is needed because the
  callback may be assigned in the middle of another thread group.
* `PrioritiesAreDense`, `ExportsAreClosed`: the traversal leaves every thread group
  under some deadline, and no id in any map that was not drawn. The priorities
  are then the ranks in a total order of the pairs of a deadline and a position.
  `fixed_priority_counter` is a `uint16_t`, so both theorems are about executions
  with fewer than 2^16 thread groups; that is a hypothesis of the theorem
  (`[](next_threadgroup_id <= UINT16_MOD)`), not of the model, where the counter
  wraps.
* `RootsAreTimed`: a thread group that the traversal takes for a root has a
  successor, hence its first callback has one, and a callback with a successor
  has the period and the deadline of its chain, although a chain of one callback
  may have erased others. The in-degree is a `uint8_t` that wraps to 0, so the
  hypothesis is one of 2^8 thread groups.
* `OverflowsAreFeedback`: an edge between thread groups leads to a younger one or to
  a mutex group (`ThreadGraphOK`), so a cycle has an edge out of a mutex group. As
  long as there is no cycle, a call of `recursive_threadgroup_traversal` is nested
  at most as deep as there are groups from which a path leads to its own
  (`CountsOK`); deeper than there are groups at all, it is on a cycle. `Connected`
  says that there is a path by the sets that are closed under edges, so that
  nothing about paths needs induction.
* `ThreadCountsAreSums`: during the recursion the groups `V` that were visited have
  all their successors in `V` or pending, and the count of one that is not pending
  is that of its predecessors (`Counted`). Which groups were visited is not in the
  code: the invariant says that there is such a set. When nothing is pending,
  `V` contains the roots and is closed under edges. A group with 2^8 predecessors
  would pass for a root, hence the hypothesis of `RootsAreTimed` again.
* `WellFormedChainsAllocate`: the constructor enters the chains edge by edge
  (`Entered`), and the traversal leaves no successor of an assigned callback
  neither assigned nor pending (`VisitedOK`), although `recursive_callback_traversal`
  goes on to one successor only where the first has no other predecessor: in
  well-formed chains that one is the only one. At the end each callback left
  would have a predecessor left; without cycles such a set is empty
  (`NoEndlessPath`). The theorem is about chains in which no callback has more than
  2^8 predecessors (`IndegreesFit`): beyond that a wrapped count of several may read
  as one.

`RTMemoryStrategy_proofs` proves, for every set of entities, groups and threads and
every number of entries that a waitable has in the wait set:

* `ExclusiveExecution`: the group of a thread that was given exclusive work is
  locked, and only a thread that was given work executes and unlocks. The second
  half is needed for the step that unlocks;
* `HandlesMatchTheWaitSet`: the wait set is given the sizes that are filled, nothing
  is thrown, and its index `i` is the entry of handle `i` until
  `remove_null_handles` has looked at it;
* `ReportedIsTaken`: what `take_ready_handles` returns was reported, has nothing
  twice, and lacks nothing whose object and group exist.

The last two follow from one invariant, `WaitInv`, which says at each call what the
lists hold. Between `collect_entities` and the use of the report the handles of a
kind are entities of that kind (`HandlesOK`), and the wait set has, behind the
strategy's own handles, only entries of waitables and guard conditions
(`EntriesOK`), so that a non-null entry of a kind belongs to a handle of the kind
or to a waitable. Completeness needs one thing more: the group of a reported
entity is in the executor's map or never comes back into it (`Stays`). Without
that a group that was erased while the wait went on could return before the
report is used, and its entities would be missed. What the loops over lists
compute (`Only`, `FlattenSeq`, `NumberOf`) is proved pass by pass: `Loops` shows that
such a loop has a value after each pass, `EveryPass` that what each pass keeps holds
in the end.

`PreemptiveExecutor_proofs` proves, for any number of nodes, groups, callbacks and
threads that call `spin`:

* `ServedByOneExecutor`, overlapping calls included. `NoGroupIsServedTwice` alone is
  not inductive, since it does not say why the next claim of a group must fail;
  the invariant adds the flag rclcpp keeps with a group: the groups of the
  executor carry its mark and those of the executors for the other groups theirs,
  which have no group in common (`Marked`, over the types in `Types`). The steps that
  need care are `CreateNonRt`, where a new executor replaces one that never ran, and
  `NonRtReturn`, where one that was replaced ends with its thread: the marks of its
  groups are lifted.
* `AcceptedGroupsStay`, `ThreadGroupsAreKnown`, `InTimeIsNeverDropped`,
  `WorkersHaveStopped`, from one invariant, `Order`. The flag is up only while a call
  is inside (`FlagMeansInside`), and as long as calls have not overlapped one call is
  inside at most (`Alone`). What that call has taken from the registry and not yet
  stored is in its local variables, and handles that are stored have their thread
  groups stored or on the way (`Exported`); a group that a classification has
  visited is in the map, listed or gone (`Accounted`); while the listed groups are
  added, those left and those the new executor has are together the list
  (`Added`), which gives every listed group a running executor once the call is past
  that loop; and the first call classifies by the only export (`InTurn`).

`BundledExecutable_proofs` proves `TakenMessagesRunOnce`, `EmptyCallsAreFailedTakes`,
`LoansFollowTheirBundles` and `MutexGroupsKeepOrder`, for every set of entities, of
thread groups and of finitely many workers. The invariant looks at a group's
queue and its bundles of the current round as one line, so that enqueuing moves
nothing, and at the `Amount` of a message: the calls with it, the workers that run
it and its places in the line. A take makes an amount one larger, a worker's
steps pass a bundle on and keep all amounts, and only the end of `spin` makes one
smaller. That a taken message has amount 1 needs that numbers above `gone` have
amount 0. For the order, the line of a group is sorted for each entity, nothing
in it is ahead of `gone`, and, where one worker serves the group, what it has
handled comes before what it runs and that before the line. With two workers the
last part is false, and so is the property.

For `ChainYamlParser`, whose definitions are named so that the two modules can be
extended together, `CallbackRegistry_proofs` proves, for all documents and all
sequences of loads and parses, `RegistryIsSafe`: the registry is built from chains with a name and a
callback; the invariant says the same of `user_chains` at all times, because the
executor refers to the map and not to a copy. And `ParseStoresUpToTheFault`, from
`Progress`: within the loop of `parse`, the chains of the entries before the current
one have been put into what was there before, nothing else has, and all of them are
valid.

`FreeList_proofs` proves `BlocksAreInOnePlace` and the refinement `ListIsPool` of
`NodePool`, for any number of threads, blocks and calls. The invariant says that a
thread which uses a node holds one of the references that are counted in it, the
list another; that the next of a node does not change while it is in use or being
added, which is what makes the compare-and-swap of `try_get` safe against ABA;
that no two nodes of the list have the same next; and that a node nobody has is
on the list or has its flag up and a user, who will add it. `OnList` is the
smallest set with the head that is closed under next: what the steps do to it
follows from that without induction.

`ConcurrentQueue_proofs` proves, for any number of consumers, any sizes of blocks and
of the index, and either discipline of the consumers (with permits or without):

* `NoClaimTooMany`: no more elements are claimed than were enqueued. A consumer
  draws a ticket from `dequeueOptimisticCount`, which it may have to give back
  through `dequeueOvercommit`, later than others count. The invariant (`Tickets`)
  names the set of tickets that are lost: it has as many members as
  `dequeueOvercommit` counts, the overcommit that a consumer has loaded is at most
  the number of those before its own ticket, and a ticket that is won, less those
  lost before it, is below the tail. The set is not in the code; it is what the
  two counters are about.
* `WorkersFailOnStaleTails`: with permits, the head, the permits and the consumers on
  their way add up to the tail, so that a consumer that finds too little has
  loaded its tail too early.

The invariant of these theorems, `CInv`, also has the types, the point each thread
is at, and the number of the block the producer needs next.

`ConcurrentQueueBlocks_proofs` goes on to the blocks:

* `BlocksStayInUse`, `NothingIsLeaked`, and the refinement `QueueImplementsFifo` of
  `FifoQueue`; hence `ElementsAreDealtOutOnce`, what `FifoQueue` promises to a worker
  group.

The invariant numbers the blocks in the order in which they are filled in:
number `x` has the elements from `KeyOf(x)` to before `KeyOf(x + 1)`. In each header of
the index, number `x` has the place `(x - o) % capacity` for an offset `o` of that
header; the offsets are not in the code, and the invariant says that there are
some (`BlockInv(off)`). Only doubling the index chooses a new one, so that old
and new header lead to the same entry (`DoubledEntries`), and a consumer that has
loaded an old header still arrives (`Reach`). `Owned` are the numbers that still
need a block: those with elements that somebody has yet to take out, and those
the enqueue has allocated. Every owned number has its key and a block in its
entry, no other entry has a block, and no block is in two (`Links`). Why an entry
with another key can be overwritten is in `Window`: the keys behind the tail of
the ring are at most one turn old, and ahead of the tail are only keys that a
failed enqueue has left. `Counts` ties `elementsCompletelyDequeued` to the elements
that were claimed less those in the hands of consumers, which makes the last
one, and nobody else, unlink the block; `Contents` says what every slot of a block
holds. After destruction the invariant is `NothingLeaks` itself. For the
refinement, the element a consumer holds is the one of its index (`MovedOK`), and
each step is a step of `FifoQueue` or none.

That keys are compared as numbers (`circular_less_than`), and that a block is
found by a subtraction modulo the range of an index, needs that all indices in
use lie within half of that range. `BoundsAssumption` of `ConcurrentQueue` says so: of
the elements, and, without permits, of the tickets, which run ahead of them by
at most `MaxOvercommit` and one for each consumer.

The assumptions are those of the modules. `BundledExecutableAssumption` has
finitely many workers, because each group has a number of threads. It also says
that the markers for a missing message are distinct from each other and from the
messages, and that only subscriptions lend or are serialized. That of
`RTMemoryStrategy` has finitely many groups, and entities, groups, the executor's
guard condition and the null pointer are different things.

Only model-checked are the liveness properties, since they need fairness.

## 6. Not modelled

* Of the queue: tokens and explicit producers, single `enqueue`, bulk dequeue,
  moving and swapping queues, thread-exit hooks, which the executor does not use,
  and the hash table of implicit producers, which has one entry because one
  thread enqueues. Indices that wrap around. Memory is sequentially consistent,
  although the queue asks for less in many places.
* `add_waitable_handle` (never called here) and allocators.
* Time: deadlines are compared, never awaited; the busy-wait of `worker_main`
  has any length, including the zero that the empty `_SEM_SPIN_NS` gives.
* The result of `pthread_setschedparam`, which the code ignores: priorities in
  the model are the requested ones. The range 1..99 of SCHED_FIFO priorities, which
  nothing keeps the registry in.
* A thread that cannot be created: the process ends.
* More than the 50000 permits that the semaphore is declared for.
* What two overlapping calls of `spin`, or `add_node` during one, do to the
  containers and pointers they share beyond what a loop misses and an export
  leaves out: the races are undefined behaviour. A damaged map, a pointer swapped
  halfway (or still null at the check of `classify_callback_groups`), a second worker
  group under an id that is taken, and an iterator into `non_rt_callback_groups` that a
  second classification invalidates are not modelled: the loop of
  `spawn_worker_groups` goes over the list as it was at its start.
* A trigger of a guard condition that finds nobody in `wait_for_work`: it would end a
  later wait at once, which `WaitForWork` may do in any case. Names that are
  registered after the registry was built, which nothing reads.
* Groups that are not added with their node (`automatically_add_to_executor_with_node`):
  to `add_node` they are as if they were not there (`PendingOf`).
* A free list that looks empty while an `add` is left to another thread: for
  `ConcurrentQueue` the free blocks are a set, and a block that is being added is
  in it at once. In the code the producer may then ask for new memory, or fail for want
  of it, although a block is about to be free; in the model it takes that block.
* Services, clients and waitables of real-time groups after they were waited
  for: the code marks their dispatch as a TODO.
* Printing and logging.

## 7. Plan

The queue with indices that wrap around, in place of `BoundsAssumption`: the
numbers of the blocks in the proof would have to be taken modulo the range.
