----------------------------- MODULE WorkerGroup -----------------------------
(***************************************************************************)
(* One worker group of the preemptive executor: the thread that runs       *)
(* PreemptiveExecutor::spin (actor 0, "the dispatcher") builds the group,  *)
(* feeds its ready queue and finally destroys it; the group's worker       *)
(* threads (actors 1..number_of_threads) wait on the semaphore, pop a      *)
(* bundle and run it.  Every step is one access to memory that the threads *)
(* share: an atomic, the semaphore, the lock-free queue, the scheduler.    *)
(*                                                                         *)
(* The ready queue is a moodycamel::ConcurrentQueue with one producer.     *)
(* It is described by its two cursors: bundle number i (counted from 1) is *)
(* in the queue when headIndex < i <= tailIndex.  A consumer reads the     *)
(* tail before it looks at the head, so it may find the queue empty        *)
(* although it is not.                                                     *)
(***************************************************************************)
EXTENDS Integers, FiniteSets

CONSTANTS
    number_of_threads,   \* threads of the group (1 for a MutexGroup)
    is_mutex_group,      \* MutexGroup, or plain WorkerGroup
    priority,            \* the group's fixed SCHED_FIFO priority
    MAX_FIFO_PRIO,       \* the priority of a boosted thread (99 in the code)
    MaxFailedAttempts,   \* dequeue failures tolerated (10 in the code)
    MaxBatch,            \* bound: bundles dispatched at once
    MaxBundles           \* bound: bundles dispatched altogether

ASSUME ConstantsAssumption ==
    /\ number_of_threads \in Nat
    /\ is_mutex_group \in BOOLEAN
    /\ is_mutex_group => number_of_threads = 1
    /\ priority \in Nat \ {0}
    /\ MAX_FIFO_PRIO \in Nat /\ priority < MAX_FIFO_PRIO
    /\ MaxFailedAttempts \in Nat
    /\ MaxBatch \in Nat
    /\ MaxBundles \in Nat

VARIABLES
    pc,              \* what each actor does next
    ctxOk,           \* rclcpp::ok(exec_context)
    spinning,        \* the executor's flag, exec_spinning in the group
    spawned,         \* threads.size()
    batch,           \* bundles.size() of the dispatch in progress
    semaphore,       \* permits
    tailIndex,       \* ready_queue.queue: where to enqueue to next
    headIndex,       \* ready_queue.queue: where to dequeue from next
    num_pending,     \* ready_queue.num_pending
    is_boosted,      \* MutexGroup::is_boosted
    prio,            \* the scheduling priority each thread has (0: inherited)
    should_boost,    \* local of update_prio, per actor
    tailSeen,        \* local of try_dequeue, per worker
    failed_attempts, \* local of worker_main, per worker
    entryHead        \* history: headIndex when the worker began to dequeue

queueVars == <<semaphore, tailIndex, headIndex, num_pending>>
boostVars == <<is_boosted, prio, should_boost>>
localVars == <<tailSeen, failed_attempts, entryHead>>
flagVars  == <<ctxOk, spinning>>
mainVars  == <<spawned, batch>>
vars == <<pc, flagVars, mainVars, queueVars, boostVars, localVars>>

Workers == 1..number_of_threads
Actors  == 0..number_of_threads

DispatcherPc == {"spawn", "set_prio", "spin", "wait", "add", "release",
                 "returned", "join", "destroyed"}
PrioPc       == {"prio_load", "prio_compare", "prio_set", "prio_store"}
WorkerPc     == {"unborn", "spin_wait", "block", "check", "read_tail",
                 "pop", "run", "exited", "threw"}

Goto(a, label) == pc' = [pc EXCEPT ![a] = label]

\* Where update_prio returns to: the dispatcher goes on to release the
\* semaphore, a worker to the head of its loop.
AfterPrio(a) == IF a = 0 THEN "release" ELSE "spin_wait"

\* WorkerGroup::update_prio is empty; MutexGroup overrides it.
CallUpdatePrio(a) == IF is_mutex_group THEN "prio_load" ELSE AfterPrio(a)

Running == ctxOk /\ spinning

\* ~MutexGroup may have begun.  It resets the dispatch of virtual calls, and
\* nothing orders that with a worker that is still running a bundle.
BeingDestroyed == pc[0] \in {"returned", "join", "destroyed"}

\* Where a worker goes after its run: the virtual call of update_prio races
\* with ~MutexGroup and may reach the empty WorkerGroup::update_prio.
AfterRun(w) == {CallUpdatePrio(w)}
                 \cup (IF BeingDestroyed THEN {AfterPrio(w)} ELSE {})

\* An exception that leaves worker_main ends the process.
Terminated == \E w \in Workers : pc[w] = "threw"

Init ==
    /\ pc = [a \in Actors |-> IF a = 0 THEN "spawn" ELSE "unborn"]
    /\ ctxOk = TRUE
    /\ spinning = TRUE
    /\ spawned = 0
    /\ batch = 0
    /\ semaphore = 0
    /\ tailIndex = 0
    /\ headIndex = 0
    /\ num_pending = 0
    /\ is_boosted = FALSE
    /\ prio = [w \in Workers |-> 0]
    /\ should_boost = [a \in Actors |-> FALSE]
    /\ tailSeen = [w \in Workers |-> 0]
    /\ failed_attempts = [w \in Workers |-> 0]
    /\ entryHead = [w \in Workers |-> 0]

-----------------------------------------------------------------------------
(***************************************************************************)
(* The dispatcher                                                          *)
(***************************************************************************)

\* WorkerGroup::WorkerGroup: the thread starts before its priority is set.
SpawnThread ==
    /\ pc[0] = "spawn"
    /\ spawned < number_of_threads
    /\ pc' = [pc EXCEPT ![0] = "set_prio", ![spawned + 1] = "spin_wait"]
    /\ UNCHANGED <<flagVars, mainVars, queueVars, boostVars, localVars>>

\* set_fifo_prio on the new thread, then threads.push_back.
SetThreadPrio ==
    /\ pc[0] = "set_prio"
    /\ prio' = [prio EXCEPT ![spawned + 1] = priority]
    /\ spawned' = spawned + 1
    /\ Goto(0, "spawn")
    /\ UNCHANGED <<flagVars, batch, queueVars, is_boosted, should_boost,
                   localVars>>

GroupBuilt ==
    /\ pc[0] = "spawn"
    /\ spawned = number_of_threads
    /\ Goto(0, "spin")
    /\ UNCHANGED <<flagVars, mainVars, queueVars, boostVars, localVars>>

\* The condition of spin's loop; its scope exit clears spinning.
SpinLoop ==
    /\ pc[0] = "spin"
    /\ \/ /\ Running
          /\ Goto(0, "wait")
          /\ UNCHANGED spinning
       \/ /\ ~Running
          /\ spinning' = FALSE
          /\ Goto(0, "returned")
    /\ UNCHANGED <<ctxOk, mainVars, queueVars, boostVars, localVars>>

\* wait_for_work returns with nothing ready for this group.
WakeUpEmpty ==
    /\ pc[0] = "wait"
    /\ Goto(0, "spin")
    /\ UNCHANGED <<flagVars, mainVars, queueVars, boostVars, localVars>>

\* wait_for_work returns and n bundles for this group are enqueued in bulk.
EnqueueBulk(n) ==
    /\ pc[0] = "wait"
    /\ tailIndex + n <= MaxBundles
    /\ batch' = n
    /\ tailIndex' = tailIndex + n
    /\ Goto(0, "add")
    /\ UNCHANGED <<flagVars, spawned, semaphore, headIndex, num_pending,
                   boostVars, localVars>>

\* populate_ready_queues throws before it reaches this group's queue, or
\* enqueue_bulk cannot allocate: spin leaves by an exception.
EnqueueFails ==
    /\ pc[0] = "wait"
    /\ spinning' = FALSE
    /\ Goto(0, "returned")
    /\ UNCHANGED <<ctxOk, mainVars, queueVars, boostVars, localVars>>

\* Mutant: the batch is counted as one bundle.
AddPendingOnce ==
    /\ pc[0] = "add"
    /\ num_pending' = num_pending + 1
    /\ Goto(0, CallUpdatePrio(0))
    /\ UNCHANGED <<flagVars, mainVars, semaphore, tailIndex, headIndex,
                   boostVars, localVars>>

AddPending ==
    /\ pc[0] = "add"
    /\ num_pending' = num_pending + batch
    /\ Goto(0, CallUpdatePrio(0))
    /\ UNCHANGED <<flagVars, mainVars, semaphore, tailIndex, headIndex,
                   boostVars, localVars>>

\* Mutant: one permit is released for the whole batch.
ReleaseBatchOnce ==
    /\ pc[0] = "release"
    /\ semaphore' = semaphore + 1
    /\ batch' = 0
    /\ Goto(0, "spin")
    /\ UNCHANGED <<flagVars, spawned, tailIndex, headIndex, num_pending,
                   boostVars, localVars>>

ReleaseBatch ==
    /\ pc[0] = "release"
    /\ semaphore' = semaphore + batch
    /\ batch' = 0
    /\ Goto(0, "spin")
    /\ UNCHANGED <<flagVars, spawned, tailIndex, headIndex, num_pending,
                   boostVars, localVars>>

\* Mutant: the destructor wakes one thread only.
ReleaseToStopOne ==
    /\ pc[0] = "returned"
    /\ semaphore' = semaphore + 1
    /\ Goto(0, "join")
    /\ UNCHANGED <<flagVars, mainVars, tailIndex, headIndex, num_pending,
                   boostVars, localVars>>

\* ~WorkerGroup, first part: one permit for each thread.
ReleaseToStop ==
    /\ pc[0] = "returned"
    /\ semaphore' = semaphore + spawned
    /\ Goto(0, "join")
    /\ UNCHANGED <<flagVars, mainVars, tailIndex, headIndex, num_pending,
                   boostVars, localVars>>

JoinAll ==
    /\ pc[0] = "join"
    /\ \A w \in Workers : pc[w] = "exited"
    /\ Goto(0, "destroyed")
    /\ UNCHANGED <<flagVars, mainVars, queueVars, boostVars, localVars>>

-----------------------------------------------------------------------------
(***************************************************************************)
(* MutexGroup::update_prio, called by the dispatcher and by the worker     *)
(***************************************************************************)

PrioLoad(a) ==
    /\ pc[a] = "prio_load"
    /\ should_boost' = [should_boost EXCEPT ![a] = num_pending > 1]
    /\ Goto(a, "prio_compare")
    /\ UNCHANGED <<flagVars, mainVars, queueVars, is_boosted, prio, localVars>>

PrioCompare(a) ==
    /\ pc[a] = "prio_compare"
    /\ Goto(a, IF should_boost[a] = is_boosted THEN AfterPrio(a)
                                               ELSE "prio_set")
    /\ UNCHANGED <<flagVars, mainVars, queueVars, boostVars, localVars>>

PrioSet(a) ==
    /\ pc[a] = "prio_set"
    /\ prio' = [prio EXCEPT ![1] = IF should_boost[a] THEN MAX_FIFO_PRIO
                                                      ELSE priority]
    /\ Goto(a, "prio_store")
    /\ UNCHANGED <<flagVars, mainVars, queueVars, is_boosted, should_boost,
                   localVars>>

PrioStore(a) ==
    /\ pc[a] = "prio_store"
    /\ is_boosted' = should_boost[a]
    /\ Goto(a, AfterPrio(a))
    /\ UNCHANGED <<flagVars, mainVars, queueVars, prio, should_boost,
                   localVars>>

UpdatePrio(a) == PrioLoad(a) \/ PrioCompare(a) \/ PrioSet(a) \/ PrioStore(a)

-----------------------------------------------------------------------------
(***************************************************************************)
(* WorkerGroup::worker_main                                                *)
(***************************************************************************)

\* semaphore.try_acquire succeeds while the thread busy-waits.  (With the
\* empty _SEM_SPIN_NS of worker_group.hpp the busy-wait lasts no time; the
\* model holds for every length of it.)
TryAcquire(w) ==
    /\ pc[w] = "spin_wait"
    /\ semaphore > 0
    /\ semaphore' = semaphore - 1
    /\ Goto(w, "check")
    /\ UNCHANGED <<flagVars, mainVars, tailIndex, headIndex, num_pending,
                   boostVars, localVars>>

\* The busy-wait period is over.
SpinPeriodOver(w) ==
    /\ pc[w] = "spin_wait"
    /\ Goto(w, "block")
    /\ UNCHANGED <<flagVars, mainVars, queueVars, boostVars, localVars>>

Acquire(w) ==
    /\ pc[w] = "block"
    /\ semaphore > 0
    /\ semaphore' = semaphore - 1
    /\ Goto(w, "check")
    /\ UNCHANGED <<flagVars, mainVars, tailIndex, headIndex, num_pending,
                   boostVars, localVars>>

\* Mutant: the worker does not look whether the executor stopped.
CheckNothing(w) ==
    /\ pc[w] = "check"
    /\ Goto(w, "read_tail")
    /\ entryHead' = [entryHead EXCEPT ![w] = headIndex]
    /\ UNCHANGED <<flagVars, mainVars, queueVars, boostVars, tailSeen,
                   failed_attempts>>

\* Leave the loop when the executor stopped, else start to dequeue.
CheckRunning(w) ==
    /\ pc[w] = "check"
    /\ \/ /\ ~Running
          /\ Goto(w, "exited")
          /\ UNCHANGED entryHead
       \/ /\ Running
          /\ Goto(w, "read_tail")
          /\ entryHead' = [entryHead EXCEPT ![w] = headIndex]
    /\ UNCHANGED <<flagVars, mainVars, queueVars, boostVars, tailSeen,
                   failed_attempts>>

\* Mutant: the last element is taken to be unpublished.
ReadTailOffByOne(w) ==
    /\ pc[w] = "read_tail"
    /\ tailSeen' = [tailSeen EXCEPT ![w] = tailIndex - 1]
    /\ Goto(w, "pop")
    /\ UNCHANGED <<flagVars, mainVars, queueVars, boostVars, failed_attempts,
                   entryHead>>

\* try_dequeue, first half: the tail is loaded.
ReadTail(w) ==
    /\ pc[w] = "read_tail"
    /\ tailSeen' = [tailSeen EXCEPT ![w] = tailIndex]
    /\ Goto(w, "pop")
    /\ UNCHANGED <<flagVars, mainVars, queueVars, boostVars, failed_attempts,
                   entryHead>>

\* try_dequeue, second half: the element at the head is claimed ...
Pop(w) ==
    /\ pc[w] = "pop"
    /\ headIndex < tailSeen[w]
    /\ headIndex' = headIndex + 1
    /\ tailSeen' = [tailSeen EXCEPT ![w] = 0]
    /\ failed_attempts' = [failed_attempts EXCEPT ![w] = 0]
    /\ entryHead' = [entryHead EXCEPT ![w] = 0]
    /\ Goto(w, "run")
    /\ UNCHANGED <<flagVars, mainVars, semaphore, tailIndex, num_pending,
                   boostVars>>

\* ... or the head has passed the tail that was loaded: the attempt fails.
PopFails(w) ==
    /\ pc[w] = "pop"
    /\ headIndex >= tailSeen[w]
    /\ failed_attempts' = [failed_attempts EXCEPT ![w] = @ + 1]
    /\ Goto(w, IF failed_attempts[w] > MaxFailedAttempts THEN "threw"
                                                         ELSE "read_tail")
    /\ UNCHANGED <<flagVars, mainVars, queueVars, boostVars, tailSeen,
                   entryHead>>

\* Mutant: no update_prio after the run.
FinishRunKeepPrio(w) ==
    /\ pc[w] = "run"
    /\ num_pending' = num_pending - 1
    /\ Goto(w, AfterPrio(w))
    /\ UNCHANGED <<flagVars, mainVars, semaphore, tailIndex, headIndex,
                   boostVars, localVars>>

\* exec->run() returns and num_pending is decremented.
FinishRun(w) ==
    /\ pc[w] = "run"
    /\ num_pending' = num_pending - 1
    /\ \E label \in AfterRun(w) : Goto(w, label)
    /\ UNCHANGED <<flagVars, mainVars, semaphore, tailIndex, headIndex,
                   boostVars, localVars>>

Worker(w) ==
    \/ TryAcquire(w) \/ SpinPeriodOver(w) \/ Acquire(w) \/ CheckRunning(w)
    \/ ReadTail(w) \/ Pop(w) \/ PopFails(w) \/ FinishRun(w)

-----------------------------------------------------------------------------
(***************************************************************************)
(* The environment: Executor::cancel and rclcpp::shutdown                  *)
(***************************************************************************)

Cancel ==
    /\ spinning
    /\ spinning' = FALSE
    /\ UNCHANGED <<pc, ctxOk, mainVars, queueVars, boostVars, localVars>>

ContextShutdown ==
    /\ ctxOk
    /\ ctxOk' = FALSE
    /\ UNCHANGED <<pc, spinning, mainVars, queueVars, boostVars, localVars>>

-----------------------------------------------------------------------------
Dispatch == \E n \in 1..MaxBatch : EnqueueBulk(n)

Step ==
    \/ SpawnThread \/ SetThreadPrio \/ GroupBuilt
    \/ SpinLoop \/ WakeUpEmpty \/ Dispatch \/ EnqueueFails
    \/ AddPending \/ ReleaseBatch \/ ReleaseToStop \/ JoinAll
    \/ \E a \in Actors : UpdatePrio(a)
    \/ \E w \in Workers : Worker(w)
    \/ Cancel \/ ContextShutdown

\* The process is over, or the group is destroyed.
Finished == (Terminated \/ pc[0] = "destroyed") /\ UNCHANGED vars

Next == (~Terminated /\ Step) \/ Finished

Spec == Init /\ [][Next]_vars

\* Every thread that can take a step takes it in the end: the operating
\* system runs each of them, a callback returns, and wait_for_work returns
\* once Cancel or ContextShutdown has triggered its guard condition.  Work
\* need not arrive, and nothing forces the executor to be stopped.
Fairness ==
    /\ WF_vars(~Terminated /\ (SpawnThread \/ SetThreadPrio \/ GroupBuilt
                               \/ SpinLoop \/ AddPending \/ ReleaseBatch
                               \/ JoinAll \/ UpdatePrio(0)))
    /\ WF_vars(~Terminated /\ ~Running /\ WakeUpEmpty)
    /\ \A w \in Workers : WF_vars(~Terminated /\ (Worker(w) \/ UpdatePrio(w)))

FairSpec == Spec /\ Fairness

-----------------------------------------------------------------------------
(***************************************************************************)
(* Properties                                                              *)
(***************************************************************************)

\* The values the variables range over.
TypeOK ==
    /\ pc \in [Actors -> DispatcherPc \cup PrioPc \cup WorkerPc]
    /\ ctxOk \in BOOLEAN
    /\ spinning \in BOOLEAN
    /\ spawned \in 0..number_of_threads
    /\ batch \in Nat
    /\ semaphore \in Nat
    /\ tailIndex \in Nat
    /\ headIndex \in Nat
    /\ num_pending \in Int
    /\ is_boosted \in BOOLEAN
    /\ prio \in [Workers -> Nat]
    /\ should_boost \in [Actors -> BOOLEAN]
    /\ tailSeen \in [Workers -> Nat]
    /\ failed_attempts \in [Workers -> Nat]
    /\ entryHead \in [Workers -> Nat]

\* The workers at one of the labels.
At(labels) == {w \in Workers : pc[w] \in labels}

\* Workers that took a permit and have not popped a bundle for it.
Debtors == At({"check", "read_tail", "pop", "threw", "exited"})

\* Workers that are committed to pop a bundle.
Claimers == At({"read_tail", "pop", "threw"})

\* Workers that run a bundle.
Runners == At({"run"})

\* The permits ~WorkerGroup added to stop the threads.
StopPermits == IF pc[0] \in {"join", "destroyed"} THEN spawned ELSE 0

\* Permits are neither lost nor invented: each permit the dispatcher or the
\* destructor released is still in the semaphore, was spent on a bundle that
\* was popped, or is held by a worker that is about to pop or has left its
\* loop (worker_main, populate_ready_queues and ~WorkerGroup together).
PermitConservation ==
    semaphore + Cardinality(Debtors) + headIndex
        = tailIndex - batch + StopPermits

\* A worker that passed the running check finds a bundle of its own in the
\* queue, whatever the other workers, the dispatcher and a shutdown do in
\* between: "Ready Q state invalid" (worker_main) is never thrown because
\* the queue is empty.
ClaimersHaveWork ==
    Cardinality(Claimers) + headIndex <= tailIndex - batch

\* num_pending, which is updated in another step than the queue, is the
\* number of bundles that were counted and not yet run to the end, so it is
\* never negative and update_prio judges the load by the truth.
PendingIsExact ==
    /\ num_pending = (IF pc[0] = "add" THEN tailIndex - batch ELSE tailIndex)
                   - headIndex + Cardinality(Runners)
    /\ num_pending >= 0

\* try_dequeue fails only when another worker popped a bundle meanwhile: a
\* worker that failed k times was overtaken at least k times, so giving up
\* after MaxFailedAttempts retries needs that many bundles to pass it by.
OvertakenAtEveryFailure ==
    \A w \in Claimers : failed_attempts[w] <= headIndex - entryHead[w]

\* In a group of one thread (every MutexGroup) try_dequeue never fails, so
\* the retry loop of worker_main is dead code there.
SoleWorkerNeverFails ==
    number_of_threads = 1 => \A w \in Workers : failed_attempts[w] = 0

\* Once every bundle has been run and nobody is inside update_prio, the
\* is_boosted flag of a MutexGroup in use is down, however the dispatcher's and
\* the worker's update_prio overlapped before.
IdleGroupIsNotFlagged ==
    /\ is_mutex_group /\ ~BeingDestroyed
    /\ num_pending = 0
    /\ \A a \in Actors : pc[a] \notin PrioPc
    => ~is_boosted

\* "Post-run possible unboost" (worker_main): when every bundle has been run
\* and nobody is inside update_prio, the thread is back at its own priority.
UnboostedAfterLastRun ==
    /\ is_mutex_group /\ ~BeingDestroyed
    /\ pc[0] \notin {"spawn", "set_prio"}
    /\ num_pending = 0
    /\ \A a \in Actors : pc[a] \notin PrioPc
    => \A w \in Workers : prio[w] = priority

\* No wake-up is lost: a bundle that was enqueued is started, unless the
\* executor is stopped first.
EveryBundleStarts ==
    \A i \in 1..MaxBundles :
        (i <= tailIndex) ~> (i <= headIndex \/ ~Running \/ Terminated)

\* ~WorkerGroup returns: each thread gets a permit to see the stop and ends,
\* with whatever it was doing and whatever was left in the queue.
DestructionCompletes ==
    (pc[0] = "join") ~> (pc[0] = "destroyed" \/ Terminated)
=============================================================================
