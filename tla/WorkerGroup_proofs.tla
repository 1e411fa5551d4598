-------------------------- MODULE WorkerGroup_proofs --------------------------
(***************************************************************************)
(* Machine-checked proofs about WorkerGroup, for every number of threads,  *)
(* every batch size and every number of bundles.  The safety properties    *)
(* are proved in layers: each layer is an invariant that holds because the *)
(* layers before it do.                                                    *)
(***************************************************************************)
EXTENDS WorkerGroup, FiniteSetTheorems, TLAPS

-----------------------------------------------------------------------------
(***************************************************************************)
(* The inductive invariant                                                 *)
(***************************************************************************)

\* Which actor can be where, and what its position says of the other
\* variables.
ControlInv ==
    /\ pc[0] \in DispatcherPc \cup PrioPc
    /\ \A w \in Workers : pc[w] \in WorkerPc \cup PrioPc
    /\ \A a \in Actors : pc[a] \in PrioPc => is_mutex_group
    /\ batch > 0 <=> pc[0] \in PrioPc \cup {"add", "release"}
    /\ BeingDestroyed => ~spinning
    /\ pc[0] = "set_prio" => spawned < number_of_threads
    /\ pc[0] = "spawn" =>
         \A w \in Workers : w > spawned => pc[w] = "unborn"
    /\ pc[0] = "set_prio" =>
         \A w \in Workers : w > spawned + 1 => pc[w] = "unborn"

\* A worker that waits to compare the head with the tail it loaded either
\* finds a bundle, or was overtaken once more than it has failed.
OvertakenInv ==
    \A w \in Workers :
        /\ pc[w] \in {"read_tail", "pop", "threw"}
             => failed_attempts[w] <= headIndex - entryHead[w]
        /\ pc[w] = "pop" /\ headIndex >= tailSeen[w]
             => failed_attempts[w] < headIndex - entryHead[w]
        /\ pc[w] \notin {"read_tail", "pop", "threw"}
             => failed_attempts[w] = 0

\* The sole worker is the only one that moves the head.
SoleWorkerInv ==
    number_of_threads = 1 =>
        \A w \in Workers : /\ pc[w] = "pop" => headIndex < tailSeen[w]
                           /\ pc[w] # "threw"
                           /\ failed_attempts[w] = 0

\* Nobody raises the flag of a group with fewer than two pending bundles:
\* the dispatcher does so only before it releases its batch, the worker only
\* if it was told to boost when more than one bundle was pending, and then
\* it calls update_prio again after the next one.
BoostInv ==
    is_mutex_group =>
        /\ pc[1] \in PrioPc \ {"prio_load"} /\ should_boost[1]
             => num_pending > 1
        /\ ~BeingDestroyed /\ num_pending = 0 /\ pc[1] \notin PrioPc
             => ~is_boosted

USE ConstantsAssumption

-----------------------------------------------------------------------------
(***************************************************************************)
(* Layer 1: types and control                                              *)
(***************************************************************************)

\* What the first layer says; the later layers rest on it.
TypeControl == TypeOK /\ ControlInv

\* The actors are in their domain, and the dispatcher is not a worker.
LEMMA ActorFacts ==
    /\ 0 \in Actors
    /\ 0 \notin Workers
    /\ \A w \in Workers : w \in Actors /\ w # 0
  BY DEF Actors, Workers

\* The group's state before the first thread is spawned is well typed.
LEMMA TypeControlInit == Init => TypeControl
  <1> SUFFICES ASSUME Init PROVE TypeControl
    OBVIOUS
  <1>1. pc[0] = "spawn" /\ \A w \in Workers : pc[w] = "unborn"
    BY ActorFacts DEF Init
  <1>2. pc \in [Actors -> DispatcherPc \cup PrioPc \cup WorkerPc]
    BY ActorFacts DEF Init, DispatcherPc, WorkerPc
  <1>3. TypeOK
    <2>1. should_boost \in [Actors -> BOOLEAN]
      BY Zenon DEF Init
    <2>2. /\ prio \in [Workers -> Nat]
          /\ tailSeen \in [Workers -> Nat]
          /\ failed_attempts \in [Workers -> Nat]
          /\ entryHead \in [Workers -> Nat]
      BY DEF Init
    <2>3. /\ spawned \in 0..number_of_threads
          /\ num_pending \in Int
          /\ 0 \in Nat
      BY DEF Init
    <2> QED  BY <1>2, <2>1, <2>2, <2>3, Zenon DEF Init, TypeOK
  <1>4. \A a \in Actors : pc[a] \notin PrioPc
    BY ActorFacts DEF Init, PrioPc
  <1>5. ControlInv
    BY <1>1, <1>4 DEF Init, ControlInv, DispatcherPc, PrioPc, WorkerPc,
                      BeingDestroyed
  <1> QED  BY <1>3, <1>5 DEF TypeControl

\* Every step keeps the types and the control structure.
LEMMA TypeControlStep == TypeControl /\ [Next]_vars => TypeControl'
  <1> SUFFICES ASSUME TypeControl, [Next]_vars PROVE TypeControl'
    OBVIOUS
  <1> USE ActorFacts DEF TypeControl
  <1> USE DEF flagVars, mainVars, queueVars, boostVars, localVars, Goto,
              DispatcherPc, PrioPc, WorkerPc, BeingDestroyed
  <1>1. CASE SpawnThread
    <2>1. /\ spawned \in Nat /\ spawned < number_of_threads
          /\ spawned + 1 \in Workers
      BY <1>1 DEF SpawnThread, TypeOK, Workers
    <2>2. /\ pc'[0] = "set_prio" /\ pc'[spawned + 1] = "spin_wait"
          /\ \A w \in Workers : w # spawned + 1 => pc'[w] = pc[w]
      BY <1>1, <2>1 DEF SpawnThread, TypeOK
    <2>3. TypeOK'
      BY <1>1, <2>1 DEF SpawnThread, TypeOK
    <2>4. \A w \in Workers : w > spawned => pc[w] = "unborn"
      BY <1>1 DEF SpawnThread, ControlInv
    <2>5. \A w \in Workers : w > spawned + 1 => pc'[w] = "unborn"
      <3> SUFFICES ASSUME NEW w \in Workers, w > spawned + 1
                   PROVE  pc'[w] = "unborn"
        OBVIOUS
      <3>1. w \in Int /\ w # spawned + 1 /\ w > spawned
        BY <2>1 DEF Workers
      <3> QED  BY <2>2, <2>4, <3>1
    <2>6. \A a \in Actors : pc'[a] \in PrioPc => is_mutex_group
      BY <2>2 DEF ControlInv, Actors, Workers
    <2> QED
      BY <1>1, <2>1, <2>2, <2>3, <2>5, <2>6 DEF SpawnThread, ControlInv
  <1>2. CASE SetThreadPrio
    <2>1. /\ spawned \in Nat /\ spawned < number_of_threads
          /\ spawned + 1 \in Workers /\ spawned' = spawned + 1
      BY <1>2 DEF SetThreadPrio, TypeOK, ControlInv, Workers
    <2>2. TypeOK'
      BY <1>2, <2>1 DEF SetThreadPrio, TypeOK
    <2> QED
      BY <1>2, <2>1, <2>2 DEF SetThreadPrio, TypeOK, ControlInv
  <1>3. CASE GroupBuilt
    BY <1>3 DEF GroupBuilt, TypeOK, ControlInv
  <1>4. CASE SpinLoop
    BY <1>4 DEF SpinLoop, TypeOK, ControlInv
  <1>5. CASE WakeUpEmpty
    BY <1>5 DEF WakeUpEmpty, TypeOK, ControlInv
  <1>6. ASSUME NEW n \in 1..MaxBatch, EnqueueBulk(n) PROVE TypeControl'
    BY <1>6 DEF EnqueueBulk, TypeOK, ControlInv
  <1>7. CASE EnqueueFails
    BY <1>7 DEF EnqueueFails, TypeOK, ControlInv
  <1>8. CASE AddPending
    BY <1>8 DEF AddPending, TypeOK, ControlInv, CallUpdatePrio, AfterPrio
  <1>9. CASE ReleaseBatch
    BY <1>9 DEF ReleaseBatch, TypeOK, ControlInv
  <1>10. CASE ReleaseToStop
    BY <1>10 DEF ReleaseToStop, TypeOK, ControlInv
  <1>11. CASE JoinAll
    BY <1>11 DEF JoinAll, TypeOK, ControlInv
  <1>12. ASSUME NEW a \in Actors, UpdatePrio(a) PROVE TypeControl'
    <2>1. CASE PrioLoad(a)
      BY <2>1 DEF PrioLoad, TypeOK, ControlInv
    <2>2. CASE PrioCompare(a)
      BY <2>2 DEF PrioCompare, TypeOK, ControlInv, AfterPrio
    <2>3. CASE PrioSet(a)
      BY <2>3 DEF PrioSet, TypeOK, ControlInv
    <2>4. CASE PrioStore(a)
      BY <2>4 DEF PrioStore, TypeOK, ControlInv, AfterPrio
    <2> QED  BY <1>12, <2>1, <2>2, <2>3, <2>4 DEF UpdatePrio
  <1>13. ASSUME NEW w \in Workers, Worker(w) PROVE TypeControl'
    <2>1. CASE TryAcquire(w)
      BY <2>1 DEF TryAcquire, TypeOK, ControlInv
    <2>2. CASE SpinPeriodOver(w)
      BY <2>2 DEF SpinPeriodOver, TypeOK, ControlInv
    <2>3. CASE Acquire(w)
      BY <2>3 DEF Acquire, TypeOK, ControlInv
    <2>4. CASE CheckRunning(w)
      BY <2>4 DEF CheckRunning, TypeOK, ControlInv
    <2>5. CASE ReadTail(w)
      BY <2>5 DEF ReadTail, TypeOK, ControlInv
    <2>6. CASE Pop(w)
      BY <2>6 DEF Pop, TypeOK, ControlInv
    <2>7. CASE PopFails(w)
      BY <2>7 DEF PopFails, TypeOK, ControlInv
    <2>8. CASE FinishRun(w)
      BY <2>8 DEF FinishRun, AfterRun, TypeOK, ControlInv, CallUpdatePrio,
                  AfterPrio
    <2> QED  BY <1>13, <2>1, <2>2, <2>3, <2>4, <2>5, <2>6, <2>7, <2>8
             DEF Worker
  <1>14. CASE Cancel
    BY <1>14 DEF Cancel, TypeOK, ControlInv
  <1>15. CASE ContextShutdown
    BY <1>15 DEF ContextShutdown, TypeOK, ControlInv
  <1>16. CASE UNCHANGED vars
    BY <1>16 DEF vars, TypeOK, ControlInv
  <1> QED
    BY <1>1, <1>2, <1>3, <1>4, <1>5, <1>6, <1>7, <1>8, <1>9, <1>10, <1>11,
       <1>12, <1>13, <1>14, <1>15, <1>16 DEF Next, Step, Dispatch, Finished

\* Types and control hold in every reachable state.
LEMMA TypeControlCorrect == Spec => []TypeControl
  <1>1. Init => TypeControl
    BY TypeControlInit
  <1>2. TypeControl /\ [Next]_vars => TypeControl'
    BY TypeControlStep
  <1> QED  BY <1>1, <1>2, PTL DEF Spec

\* Type correctness: no permit is taken from an empty semaphore, and no
\* thread beyond number_of_threads is started or given a priority.
THEOREM TypeCorrect == Spec => []TypeOK
  <1>1. TypeControl => TypeOK
    BY DEF TypeControl
  <1> QED  BY <1>1, TypeControlCorrect, PTL

-----------------------------------------------------------------------------
(***************************************************************************)
(* Counting workers                                                        *)
(***************************************************************************)

\* Sets of workers are finite.
LEMMA WorkersFinite ==
    \A S \in SUBSET Workers : IsFiniteSet(S) /\ Cardinality(S) \in Nat
  <1>1. IsFiniteSet(Workers)
    BY FS_Interval DEF Workers
  <1> QED  BY <1>1, FS_Subset, FS_CardinalityType

\* How many workers are at the labels L, when one worker moves to label l.
LEMMA CountMove ==
    ASSUME TypeOK, NEW w \in Workers, NEW l, Goto(w, l), NEW L
    PROVE  /\ Cardinality(At(L)) \in Nat
           /\ l \in L /\ pc[w] \notin L
                => Cardinality(At(L)') = Cardinality(At(L)) + 1
           /\ l \notin L /\ pc[w] \in L
                => Cardinality(At(L)') = Cardinality(At(L)) - 1
           /\ (l \in L <=> pc[w] \in L) => At(L)' = At(L)
           /\ pc'[0] = pc[0]
           /\ pc'[w] = l
           /\ \A x \in Workers : x # w => pc'[x] = pc[x]
  <1>1. /\ pc'[0] = pc[0]
        /\ pc'[w] = l
        /\ \A x \in Workers : x # w => pc'[x] = pc[x]
    BY ActorFacts DEF TypeOK, Goto
  <1>2. IsFiniteSet(At(L)) /\ Cardinality(At(L)) \in Nat
    BY WorkersFinite DEF At
  <1>3. CASE l \in L /\ pc[w] \notin L
    <2>1. At(L)' = At(L) \cup {w} /\ w \notin At(L)
      BY <1>1, <1>3 DEF At
    <2> QED  BY <1>1, <1>2, <1>3, <2>1, FS_AddElement
  <1>4. CASE l \notin L /\ pc[w] \in L
    <2>1. At(L)' = At(L) \ {w} /\ w \in At(L)
      BY <1>1, <1>4 DEF At
    <2> QED  BY <1>1, <1>2, <1>4, <2>1, FS_RemoveElement
  <1>5. CASE l \in L <=> pc[w] \in L
    <2>1. At(L)' = At(L)
      BY <1>1, <1>5 DEF At
    <2> QED  BY <1>1, <1>2, <1>5, <2>1
  <1> QED  BY <1>3, <1>4, <1>5

\* A step of the dispatcher moves no worker.
LEMMA CountStay ==
    ASSUME TypeOK, NEW l, Goto(0, l), NEW L
    PROVE  /\ At(L)' = At(L)
           /\ pc'[0] = l
           /\ \A x \in Workers : pc'[x] = pc[x]
  <1>1. pc'[0] = l /\ \A x \in Workers : pc'[x] = pc[x]
    BY ActorFacts DEF TypeOK, Goto
  <1> QED  BY <1>1 DEF At

\* Committed workers hold a permit.
LEMMA ClaimersAreDebtors == Cardinality(Claimers) <= Cardinality(Debtors)
  <1>1. Claimers \subseteq Debtors /\ Debtors \in SUBSET Workers
    BY DEF Claimers, Debtors, At
  <1> QED  BY <1>1, WorkersFinite, FS_Subset

-----------------------------------------------------------------------------
(***************************************************************************)
(* Layer 2: permits, bundles and num_pending                               *)
(***************************************************************************)

\* The balance of permits, bundles and pending work.
QueueInv == PermitConservation /\ ClaimersHaveWork /\ PendingIsExact

\* The three counts the balance is made of, and what the dispatcher's step
\* to label l leaves of them.
LEMMA DispatcherCounts ==
    ASSUME TypeOK, NEW l, Goto(0, l)
    PROVE  /\ pc'[0] = l
           /\ Debtors' = Debtors /\ Claimers' = Claimers
           /\ Runners' = Runners
  BY CountStay DEF Debtors, Claimers, Runners

\* What the step of worker w to label l does to the three counts.
LEMMA WorkerCounts ==
    ASSUME TypeOK, NEW w \in Workers, NEW l, Goto(w, l)
    PROVE  /\ pc'[0] = pc[0] /\ pc'[w] = l
           /\ Cardinality(Debtors') = Cardinality(Debtors)
                + (IF l \in {"check", "read_tail", "pop", "threw", "exited"}
                     THEN 1 ELSE 0)
                - (IF pc[w] \in {"check", "read_tail", "pop", "threw", "exited"}
                     THEN 1 ELSE 0)
           /\ Cardinality(Claimers') = Cardinality(Claimers)
                + (IF l \in {"read_tail", "pop", "threw"} THEN 1 ELSE 0)
                - (IF pc[w] \in {"read_tail", "pop", "threw"} THEN 1 ELSE 0)
           /\ Cardinality(Runners') = Cardinality(Runners)
                + (IF l = "run" THEN 1 ELSE 0)
                - (IF pc[w] = "run" THEN 1 ELSE 0)
  <1> DEFINE D == {"check", "read_tail", "pop", "threw", "exited"}
             C == {"read_tail", "pop", "threw"}
             R == {"run"}
  <1>1. \A L : Cardinality(At(L)) \in Nat
    BY WorkersFinite DEF At
  <1>2. Cardinality(At(D)') = Cardinality(At(D)) + (IF l \in D THEN 1 ELSE 0)
                                - (IF pc[w] \in D THEN 1 ELSE 0)
    <2> HIDE DEF D
    <2> QED  BY <1>1, CountMove
  <1>3. Cardinality(At(C)') = Cardinality(At(C)) + (IF l \in C THEN 1 ELSE 0)
                                - (IF pc[w] \in C THEN 1 ELSE 0)
    <2> HIDE DEF C
    <2> QED  BY <1>1, CountMove
  <1>4. Cardinality(At(R)') = Cardinality(At(R)) + (IF l \in R THEN 1 ELSE 0)
                                - (IF pc[w] \in R THEN 1 ELSE 0)
    <2> HIDE DEF R
    <2> QED  BY <1>1, CountMove
  <1>5. pc'[0] = pc[0] /\ pc'[w] = l
    BY CountMove
  <1> QED
    BY <1>2, <1>3, <1>4, <1>5, Zenon DEF Debtors, Claimers, Runners

\* The balance holds before the group is built.
LEMMA QueueInit == Init => QueueInv
  <1> SUFFICES ASSUME Init PROVE QueueInv
    OBVIOUS
  <1>1. pc[0] = "spawn" /\ \A w \in Workers : pc[w] = "unborn"
    BY ActorFacts DEF Init
  <1>2. Debtors = {} /\ Claimers = {} /\ Runners = {}
    BY <1>1 DEF Debtors, Claimers, Runners, At
  <1>3. Cardinality({}) = 0
    BY FS_EmptySet
  <1> QED
    BY <1>1, <1>2, <1>3 DEF Init, QueueInv, PermitConservation,
                            ClaimersHaveWork, PendingIsExact, StopPermits

\* Every step keeps the balance.
LEMMA QueueStep ==
    TypeControl /\ QueueInv /\ [Next]_vars => QueueInv'
  <1> SUFFICES ASSUME TypeControl, QueueInv, [Next]_vars PROVE QueueInv'
    OBVIOUS
  <1>a. TypeOK /\ ControlInv
    BY DEF TypeControl
  <1>b. /\ Cardinality(Debtors) \in Nat
        /\ Cardinality(Claimers) \in Nat
        /\ Cardinality(Runners) \in Nat
    BY WorkersFinite DEF Debtors, Claimers, Runners, At
  <1>c. /\ semaphore \in Nat /\ tailIndex \in Nat /\ headIndex \in Nat
        /\ num_pending \in Int /\ batch \in Nat /\ spawned \in Nat
    BY <1>a DEF TypeOK
  <1> USE <1>a, <1>b, <1>c
  <1> USE DEF QueueInv, PermitConservation, ClaimersHaveWork, PendingIsExact,
              StopPermits, flagVars, mainVars, queueVars, boostVars, localVars
  <1>1. CASE SpawnThread
    <2>1. spawned + 1 \in Workers /\ pc[spawned + 1] = "unborn"
      BY <1>1 DEF SpawnThread, ControlInv, Workers
    <2>2. /\ pc'[0] = "set_prio" /\ pc'[spawned + 1] = "spin_wait"
          /\ \A w \in Workers : w # spawned + 1 => pc'[w] = pc[w]
      BY <1>1, <2>1, ActorFacts DEF SpawnThread, TypeOK
    <2>3. Debtors' = Debtors /\ Claimers' = Claimers /\ Runners' = Runners
      BY <2>1, <2>2 DEF Debtors, Claimers, Runners, At
    <2> QED  BY <1>1, <2>2, <2>3 DEF SpawnThread
  <1>2. CASE SetThreadPrio
    BY <1>2, DispatcherCounts DEF SetThreadPrio
  <1>3. CASE GroupBuilt
    BY <1>3, DispatcherCounts DEF GroupBuilt
  <1>4. CASE SpinLoop
    BY <1>4, DispatcherCounts DEF SpinLoop
  <1>5. CASE WakeUpEmpty
    BY <1>5, DispatcherCounts DEF WakeUpEmpty
  <1>6. ASSUME NEW n \in 1..MaxBatch, EnqueueBulk(n) PROVE QueueInv'
    <2>1. batch = 0
      BY <1>6 DEF EnqueueBulk, ControlInv, PrioPc
    <2> QED  BY <1>6, <2>1, DispatcherCounts DEF EnqueueBulk
  <1>7. CASE EnqueueFails
    BY <1>7, DispatcherCounts DEF EnqueueFails
  <1>8. CASE AddPending
    BY <1>8, DispatcherCounts DEF AddPending, CallUpdatePrio, AfterPrio
  <1>9. CASE ReleaseBatch
    BY <1>9, DispatcherCounts DEF ReleaseBatch
  <1>10. CASE ReleaseToStop
    BY <1>10, DispatcherCounts DEF ReleaseToStop
  <1>11. CASE JoinAll
    BY <1>11, DispatcherCounts DEF JoinAll
  <1>12. ASSUME NEW a \in Actors, UpdatePrio(a) PROVE QueueInv'
    <2>1. /\ pc[a] \in PrioPc
          /\ \E l \in PrioPc \cup {AfterPrio(a)} : Goto(a, l)
          /\ UNCHANGED <<queueVars, mainVars>>
      BY <1>12 DEF UpdatePrio, PrioLoad, PrioCompare, PrioSet, PrioStore,
                   PrioPc
    <2>2. PICK l \in PrioPc \cup {AfterPrio(a)} : Goto(a, l)
      BY <2>1
    <2>3. CASE a = 0
      BY <2>1, <2>2, <2>3, DispatcherCounts DEF PrioPc, AfterPrio
    <2>4. CASE a # 0
      <3>1. a \in Workers /\ l \in PrioPc \cup {"spin_wait"}
        BY <2>2, <2>4 DEF Actors, Workers, PrioPc, AfterPrio
      <3> QED  BY <2>1, <2>2, <3>1, WorkerCounts DEF PrioPc
    <2> QED  BY <2>3, <2>4
  <1>13. ASSUME NEW w \in Workers, Worker(w) PROVE QueueInv'
    <2>1. CASE TryAcquire(w)
      BY <2>1, WorkerCounts DEF TryAcquire
    <2>2. CASE SpinPeriodOver(w)
      BY <2>2, WorkerCounts DEF SpinPeriodOver
    <2>3. CASE Acquire(w)
      BY <2>3, WorkerCounts DEF Acquire
    <2>4. CASE CheckRunning(w)
      <3>1. CASE ~Running /\ Goto(w, "exited")
        BY <2>4, <3>1, WorkerCounts DEF CheckRunning
      <3>2. CASE Running /\ Goto(w, "read_tail")
        <4>1. pc'[0] = pc[0] /\ pc[0] \notin {"join", "destroyed"}
          BY <3>2, WorkerCounts DEF Running, ControlInv, BeingDestroyed
        <4>2. Cardinality(Debtors') = Cardinality(Debtors)
          BY <2>4, <3>2, WorkerCounts DEF CheckRunning
        <4>3. Cardinality(Runners') = Cardinality(Runners)
          BY <2>4, <3>2, WorkerCounts DEF CheckRunning
        <4>4. Cardinality(Claimers') <= Cardinality(Debtors')
          <5>1. Claimers' \subseteq Debtors' /\ Debtors' \in SUBSET Workers
            BY DEF Claimers, Debtors, At
          <5> QED  BY <5>1, WorkersFinite, FS_Subset
        <4>5. Cardinality(Claimers') \in Nat
          BY WorkersFinite DEF Claimers, At
        <4> QED
          BY <2>4, <4>1, <4>2, <4>3, <4>4, <4>5 DEF CheckRunning
      <3> QED  BY <2>4, <3>1, <3>2 DEF CheckRunning
    <2>5. CASE ReadTail(w)
      BY <2>5, WorkerCounts DEF ReadTail
    <2>6. CASE Pop(w)
      BY <2>6, WorkerCounts DEF Pop
    <2>7. CASE PopFails(w)
      BY <2>7, WorkerCounts DEF PopFails
    <2>8. CASE FinishRun(w)
      <3>1. PICK l \in PrioPc \cup {"spin_wait"} : Goto(w, l)
        BY <2>8, ActorFacts DEF FinishRun, AfterRun, CallUpdatePrio,
                                AfterPrio, PrioPc
      <3>2. w \in Runners
        BY <2>8 DEF FinishRun, Runners, At, PrioPc
      <3>3. Cardinality(Runners) >= 1
        <4>1. IsFiniteSet(Runners)
          BY WorkersFinite DEF Runners, At
        <4>2. Cardinality(Runners) # 0
          BY <3>2, <4>1, FS_EmptySet
        <4> QED  BY <4>2
      <3> QED  BY <2>8, <3>1, <3>2, <3>3, WorkerCounts DEF FinishRun, PrioPc
    <2> QED  BY <1>13, <2>1, <2>2, <2>3, <2>4, <2>5, <2>6, <2>7, <2>8
             DEF Worker
  <1>14. CASE Cancel
    BY <1>14 DEF Cancel, Debtors, Claimers, Runners, At
  <1>15. CASE ContextShutdown
    BY <1>15 DEF ContextShutdown, Debtors, Claimers, Runners, At
  <1>16. CASE UNCHANGED vars
    BY <1>16 DEF vars, Debtors, Claimers, Runners, At
  <1> QED
    BY <1>1, <1>2, <1>3, <1>4, <1>5, <1>6, <1>7, <1>8, <1>9, <1>10, <1>11,
       <1>12, <1>13, <1>14, <1>15, <1>16 DEF Next, Step, Dispatch, Finished

\* The balance of permits, bundles and pending work in every reachable state.
LEMMA QueueCorrect == Spec => [](TypeControl /\ QueueInv)
  <1>1. Init => TypeControl /\ QueueInv
    BY TypeControlInit, QueueInit
  <1>2. TypeControl /\ QueueInv /\ [Next]_vars => (TypeControl /\ QueueInv)'
    BY TypeControlStep, QueueStep
  <1> QED  BY <1>1, <1>2, PTL DEF Spec

\* No permit is lost or invented by the dispatcher, the workers or the
\* destructor, for any number of threads and bundles.
THEOREM PermitsConserved == Spec => []PermitConservation
  <1>1. TypeControl /\ QueueInv => PermitConservation
    BY DEF QueueInv
  <1> QED  BY <1>1, QueueCorrect, PTL

\* A worker that goes to dequeue has a bundle waiting for it, for any number
\* of threads and bundles, whenever the executor is stopped.
THEOREM WorkForEveryClaimer == Spec => []ClaimersHaveWork
  <1>1. TypeControl /\ QueueInv => ClaimersHaveWork
    BY DEF QueueInv
  <1> QED  BY <1>1, QueueCorrect, PTL

\* num_pending counts the bundles that are not run to the end.
THEOREM PendingExact == Spec => []PendingIsExact
  <1>1. TypeControl /\ QueueInv => PendingIsExact
    BY DEF QueueInv
  <1> QED  BY <1>1, QueueCorrect, PTL

-----------------------------------------------------------------------------
(***************************************************************************)
(* Layer 3: failed dequeues                                                *)
(***************************************************************************)

\* The sole worker and the overtaken ones.
DequeueInv == OvertakenInv /\ SoleWorkerInv

\* A worker that is about to load the tail will find the head before it.
LEMMA HeadBeforeTail ==
    ASSUME TypeControl, QueueInv, NEW w \in Workers, pc[w] = "read_tail"
    PROVE  headIndex < tailIndex
  <1>1. w \in Claimers /\ IsFiniteSet(Claimers)
    BY WorkersFinite DEF Claimers, At
  <1>2. Cardinality(Claimers) \in Nat /\ Cardinality(Claimers) # 0
    BY <1>1, FS_EmptySet, FS_CardinalityType
  <1> QED  BY <1>2 DEF TypeControl, TypeOK, QueueInv, ClaimersHaveWork

\* No worker has failed before the group is built.
LEMMA DequeueInit == Init => DequeueInv
  <1> SUFFICES ASSUME Init PROVE DequeueInv
    OBVIOUS
  <1>1. \A w \in Workers : /\ pc[w] = "unborn" /\ failed_attempts[w] = 0
    BY ActorFacts DEF Init
  <1> QED  BY <1>1 DEF DequeueInv, OvertakenInv, SoleWorkerInv

\* Every step keeps the account of the failed attempts.
LEMMA DequeueStep ==
    TypeControl /\ QueueInv /\ DequeueInv /\ [Next]_vars => DequeueInv'
  <1> SUFFICES ASSUME TypeControl, QueueInv, DequeueInv, [Next]_vars
               PROVE  DequeueInv'
    OBVIOUS
  <1>a. TypeOK
    BY DEF TypeControl
  <1>b. /\ tailIndex \in Nat /\ headIndex \in Nat
        /\ tailSeen \in [Workers -> Nat]
        /\ failed_attempts \in [Workers -> Nat]
        /\ entryHead \in [Workers -> Nat]
    BY <1>a DEF TypeOK
  <1> USE <1>a, <1>b
  <1> USE DEF DequeueInv, OvertakenInv, SoleWorkerInv
  <1>1. CASE /\ UNCHANGED <<headIndex, localVars>>
             /\ \A w \in Workers : pc'[w] = pc[w]
    BY <1>1 DEF localVars
  <1>2. CASE SpawnThread
    <2>1. spawned + 1 \in Workers /\ pc[spawned + 1] = "unborn"
      BY <1>2 DEF SpawnThread, TypeControl, TypeOK, ControlInv, Workers
    <2>2. /\ pc'[spawned + 1] = "spin_wait"
          /\ \A w \in Workers : w # spawned + 1 => pc'[w] = pc[w]
      BY <1>2, <2>1, ActorFacts DEF SpawnThread, TypeOK
    <2> QED  BY <1>2, <2>1, <2>2 DEF SpawnThread, localVars, queueVars
  <1>3. ASSUME NEW l, Goto(0, l), UNCHANGED <<headIndex, localVars>>
        PROVE  DequeueInv'
    BY <1>1, <1>3, CountStay
  <1>4. CASE \/ SetThreadPrio \/ GroupBuilt \/ SpinLoop \/ WakeUpEmpty
             \/ Dispatch \/ EnqueueFails \/ AddPending \/ ReleaseBatch
             \/ ReleaseToStop \/ JoinAll
    BY <1>3, <1>4 DEF SetThreadPrio, GroupBuilt, SpinLoop, WakeUpEmpty,
         Dispatch, EnqueueBulk, EnqueueFails, AddPending, ReleaseBatch,
         ReleaseToStop, JoinAll, queueVars
  <1>5. ASSUME NEW w \in Workers, NEW l, Goto(w, l),
               pc[w] \notin {"read_tail", "pop", "threw"},
               l \notin {"read_tail", "pop", "threw"},
               UNCHANGED <<headIndex, localVars>>
        PROVE  DequeueInv'
    BY <1>5, CountMove DEF localVars
  <1>6. ASSUME NEW a \in Actors, UpdatePrio(a) PROVE DequeueInv'
    <2>1. /\ pc[a] \in PrioPc
          /\ \E l \in PrioPc \cup {AfterPrio(a)} : Goto(a, l)
          /\ UNCHANGED <<headIndex, localVars>>
      BY <1>6 DEF UpdatePrio, PrioLoad, PrioCompare, PrioSet, PrioStore,
                  PrioPc, queueVars
    <2>2. PICK l \in PrioPc \cup {AfterPrio(a)} : Goto(a, l)
      BY <2>1
    <2>3. CASE a = 0
      BY <1>3, <2>1, <2>2, <2>3
    <2>4. CASE a # 0
      <3>1. a \in Workers /\ l \in PrioPc \cup {"spin_wait"}
        BY <2>2, <2>4 DEF Actors, Workers, AfterPrio
      <3> QED  BY <1>5, <2>1, <2>2, <3>1 DEF PrioPc
    <2> QED  BY <2>3, <2>4
  <1>7. ASSUME NEW w \in Workers, Worker(w) PROVE DequeueInv'
    <2>1. CASE TryAcquire(w) \/ SpinPeriodOver(w) \/ Acquire(w)
      BY <1>5, <2>1 DEF TryAcquire, SpinPeriodOver, Acquire, queueVars
    <2>2. CASE CheckRunning(w)
      <3>1. CASE Goto(w, "exited") /\ UNCHANGED entryHead
        BY <1>5, <2>2, <3>1 DEF CheckRunning, queueVars, localVars
      <3>2. CASE /\ Goto(w, "read_tail")
                 /\ entryHead' = [entryHead EXCEPT ![w] = headIndex]
        BY <2>2, <3>2, CountMove DEF CheckRunning, queueVars
      <3> QED  BY <2>2, <3>1, <3>2 DEF CheckRunning
    <2>3. CASE ReadTail(w)
      <3>1. headIndex < tailIndex
        BY <2>3, HeadBeforeTail DEF ReadTail
      <3> QED  BY <2>3, <3>1, CountMove DEF ReadTail, queueVars
    <2>4. CASE Pop(w)
      <3>1. /\ pc'[w] = "run"
            /\ \A x \in Workers : x # w => pc'[x] = pc[x]
        BY <2>4, CountMove DEF Pop
      <3>2. /\ headIndex' = headIndex + 1
            /\ failed_attempts'[w] = 0
            /\ \A x \in Workers : x # w =>
                 /\ failed_attempts'[x] = failed_attempts[x]
                 /\ entryHead'[x] = entryHead[x]
                 /\ tailSeen'[x] = tailSeen[x]
        BY <2>4 DEF Pop
      <3>3. OvertakenInv'
        BY <3>1, <3>2
      <3>4. number_of_threads = 1 => \A x \in Workers : x = w
        BY DEF Workers
      <3>5. SoleWorkerInv'
        BY <3>1, <3>2, <3>4
      <3> QED  BY <3>3, <3>5
    <2>5. CASE PopFails(w)
      BY <2>5, CountMove DEF PopFails, queueVars
    <2>6. CASE FinishRun(w)
      <3>1. PICK l \in PrioPc \cup {"spin_wait"} : Goto(w, l)
        BY <2>6, ActorFacts DEF FinishRun, AfterRun, CallUpdatePrio,
                                AfterPrio, PrioPc
      <3> QED  BY <1>5, <2>6, <3>1 DEF FinishRun, PrioPc
    <2> QED  BY <1>7, <2>1, <2>2, <2>3, <2>4, <2>5, <2>6 DEF Worker
  <1>8. CASE Cancel \/ ContextShutdown \/ UNCHANGED vars
    BY <1>1, <1>8 DEF Cancel, ContextShutdown, vars, queueVars
  <1> QED
    BY <1>2, <1>4, <1>6, <1>7, <1>8 DEF Next, Step, Finished

\* The account of the failed attempts holds in every reachable state.
LEMMA DequeueCorrect == Spec => [](TypeControl /\ QueueInv /\ DequeueInv)
  <1>1. Init => TypeControl /\ QueueInv /\ DequeueInv
    BY TypeControlInit, QueueInit, DequeueInit
  <1>2. TypeControl /\ QueueInv /\ DequeueInv /\ [Next]_vars
          => (TypeControl /\ QueueInv /\ DequeueInv)'
    BY TypeControlStep, QueueStep, DequeueStep
  <1> QED  BY <1>1, <1>2, PTL DEF Spec

\* A worker fails to dequeue at most as often as others overtake it.
THEOREM FailuresAreOvertakings == Spec => []OvertakenAtEveryFailure
  <1>1. DequeueInv => OvertakenAtEveryFailure
    BY DEF DequeueInv, OvertakenInv, OvertakenAtEveryFailure, Claimers, At
  <1> QED  BY <1>1, DequeueCorrect, PTL

\* The worker of a group of one thread never fails to dequeue.
THEOREM SoleWorkerSucceeds == Spec => []SoleWorkerNeverFails
  <1>1. DequeueInv => SoleWorkerNeverFails
    BY DEF DequeueInv, SoleWorkerInv, SoleWorkerNeverFails
  <1> QED  BY <1>1, DequeueCorrect, PTL

-----------------------------------------------------------------------------
(***************************************************************************)
(* Layer 4: the boost flag                                                 *)
(***************************************************************************)

\* While the dispatcher is inside update_prio its batch is pending.
LEMMA DispatcherHasBatch ==
    ASSUME TypeControl, QueueInv, pc[0] \in PrioPc
    PROVE  num_pending > 0
  <1>1. Cardinality(Claimers) \in Nat /\ Cardinality(Runners) \in Nat
    BY WorkersFinite DEF Claimers, Runners, At
  <1> QED
    BY <1>1 DEF TypeControl, TypeOK, ControlInv, QueueInv, ClaimersHaveWork,
                PendingIsExact, PrioPc

\* No step raises the flag of a group without pending bundles.
LEMMA BoostStep ==
    TypeControl /\ QueueInv /\ BoostInv /\ [Next]_vars => BoostInv'
  <1> SUFFICES ASSUME TypeControl, QueueInv, BoostInv, [Next]_vars,
                      is_mutex_group
               PROVE  BoostInv'
    BY DEF BoostInv
  <1>a. TypeOK /\ ControlInv /\ number_of_threads = 1
    BY DEF TypeControl
  <1>b. Workers = {1} /\ Actors = {0, 1}
    BY <1>a DEF Workers, Actors
  <1>c. /\ pc \in [{0, 1} -> DispatcherPc \cup PrioPc \cup WorkerPc]
        /\ num_pending \in Int /\ batch \in Nat
        /\ should_boost \in [{0, 1} -> BOOLEAN] /\ is_boosted \in BOOLEAN
    BY <1>a, <1>b DEF TypeOK
  <1>d. num_pending >= 0
    BY DEF QueueInv, PendingIsExact
  <1> USE <1>c, <1>d
  <1> USE DEF BoostInv, BeingDestroyed, PrioPc, Goto, queueVars, boostVars
  <1>1. CASE SpawnThread
    <2>1. spawned = 0 /\ pc[1] = "unborn"
      BY <1>1, <1>a, <1>b DEF SpawnThread, TypeOK, ControlInv
    <2> QED  BY <1>1, <2>1 DEF SpawnThread
  <1>2. CASE \/ SetThreadPrio \/ GroupBuilt \/ SpinLoop \/ WakeUpEmpty
             \/ Dispatch \/ EnqueueFails \/ ReleaseBatch
             \/ ReleaseToStop \/ JoinAll
    BY <1>2 DEF SetThreadPrio, GroupBuilt, SpinLoop, WakeUpEmpty, Dispatch,
         EnqueueBulk, EnqueueFails, ReleaseBatch, ReleaseToStop, JoinAll
  <1>3. CASE AddPending
    <2>1. batch > 0
      BY <1>3, <1>a DEF AddPending, ControlInv
    <2> QED  BY <1>3, <2>1 DEF AddPending
  <1>4. CASE UpdatePrio(0)
    <2>1. num_pending > 0
      BY <1>4, DispatcherHasBatch DEF UpdatePrio, PrioLoad, PrioCompare,
                                      PrioSet, PrioStore
    <2> QED  BY <1>4, <2>1 DEF UpdatePrio, PrioLoad, PrioCompare, PrioSet,
                               PrioStore
  <1>5. CASE UpdatePrio(1)
    <2>1. CASE PrioLoad(1)
      BY <2>1 DEF PrioLoad
    <2>2. CASE PrioCompare(1)
      BY <2>2 DEF PrioCompare, AfterPrio
    <2>3. CASE PrioSet(1)
      BY <2>3 DEF PrioSet
    <2>4. CASE PrioStore(1)
      BY <2>4 DEF PrioStore, AfterPrio
    <2> QED  BY <1>5, <2>1, <2>2, <2>3, <2>4 DEF UpdatePrio
  <1>6. CASE \/ TryAcquire(1) \/ SpinPeriodOver(1) \/ Acquire(1)
             \/ CheckRunning(1) \/ ReadTail(1) \/ Pop(1) \/ PopFails(1)
    BY <1>6 DEF TryAcquire, SpinPeriodOver, Acquire, CheckRunning, ReadTail,
                Pop, PopFails
  <1>7. CASE FinishRun(1)
    BY <1>7 DEF FinishRun, AfterRun, CallUpdatePrio, AfterPrio
  <1>8. CASE Cancel \/ ContextShutdown \/ UNCHANGED vars
    BY <1>8 DEF Cancel, ContextShutdown, vars
  <1> QED
    BY <1>b, <1>1, <1>2, <1>3, <1>4, <1>5, <1>6, <1>7, <1>8
    DEF Next, Step, Finished, Worker

\* A mutex group in use that has nothing pending is not flagged as boosted,
\* however the two callers of update_prio overlapped.
THEOREM IdleNotFlagged == Spec => []IdleGroupIsNotFlagged
  <1>1. Init => BoostInv
    <2> SUFFICES ASSUME Init, is_mutex_group PROVE BoostInv
      BY DEF BoostInv
    <2>1. 1 \in Actors
      BY DEF Actors
    <2>2. pc[1] = "unborn" /\ ~is_boosted
      BY <2>1 DEF Init
    <2> QED  BY <2>2 DEF BoostInv, PrioPc
  <1>2. TypeControl /\ QueueInv /\ BoostInv /\ [Next]_vars => BoostInv'
    BY BoostStep
  <1>3. TypeControl /\ BoostInv => IdleGroupIsNotFlagged
    <2> SUFFICES ASSUME is_mutex_group
                 PROVE  TypeControl /\ BoostInv => IdleGroupIsNotFlagged
      BY DEF IdleGroupIsNotFlagged
    <2>1. 1 \in Actors
      BY DEF Actors
    <2> QED  BY <2>1 DEF IdleGroupIsNotFlagged, BoostInv
  <1> QED  BY <1>1, <1>2, <1>3, QueueCorrect, PTL DEF Spec
=============================================================================
