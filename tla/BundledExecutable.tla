-------------------------- MODULE BundledExecutable --------------------------
(***************************************************************************)
(* What becomes of a message or of a timer's tick: the executor's thread   *)
(* takes it and bundles it with its entity (take_and_bundle), collects the *)
(* bundles of a round by thread group and enqueues them                    *)
(* (populate_ready_queues); a worker of the group runs the bundle.  The    *)
(* ready queue is the FIFO queue that ConcurrentQueue implements, and a    *)
(* worker finds what was enqueued, as WorkerGroup shows; RTMemoryStrategy  *)
(* models how a round finds out what is ready.                             *)
(*                                                                         *)
(* The middleware, rclcpp's subscriptions and timers are external.         *)
(***************************************************************************)
EXTENDS Naturals, Sequences, FiniteSets

CONSTANTS
    Subscriptions, Timers,
    Serialized, Loaning,  \* subscriptions: is_serialized, can_loan_messages
    ThreadGroups,
    Listings,             \* which entities may have timing information
    TgidOf,               \* the thread group of those that have
    Workers, WorksFor,    \* the worker threads and the group of each
    Nothing,              \* no message: nullptr, or no bundle
    Blank,                \* a message that no take has filled in
    Garbage,              \* a pointer that was never initialised
    MaxArrivals,          \* bound: messages or ticks of each entity
    MaxFaults             \* bound: messages that expire and errors of
                          \* the middleware, altogether

Entities == Subscriptions \cup Timers

ASSUME BundledExecutableAssumption ==
    /\ Subscriptions \cap Timers = {}
    /\ Serialized \cup Loaning \subseteq Subscriptions
    /\ Listings \subseteq SUBSET Entities
    /\ TgidOf \in [UNION Listings -> ThreadGroups]
    /\ WorksFor \in [Workers -> ThreadGroups] /\ IsFiniteSet(Workers)
    /\ MaxArrivals \in [Entities -> Nat] /\ MaxFaults \in Nat
    /\ {Nothing, Blank, Garbage} \cap Nat = {}
    /\ Nothing \notin {Blank, Garbage} /\ Blank # Garbage

VARIABLES
    listed,     \* callback_handle_to_threadgroup_id: who has an entry
    arrived,    \* messages that arrived, ticks that came, of each entity
    gone,       \* how many of them are no longer waiting
    cancelled,  \* the timers that are cancelled
    loans,      \* messages <<s, i>> that the middleware has lent
    pc,         \* the executor's thread
    ready,      \* ready_subscriptions and ready_timers still to be taken
    bundles_by_tgid,
    queue,      \* the ready queue of each group
    worker,     \* what each worker does, with which bundle
    faults,     \* how many of them there were
    taken,      \* history: the messages and ticks that were taken
    failed,     \* history: takes that got no message
    handled,    \* history: what the callbacks were called with, in order
    kept        \* history: loans that the middleware did not take back

vars == <<listed, arrived, gone, cancelled, loans, pc, ready, bundles_by_tgid,
          queue, worker, faults, taken, failed, handled, kept>>

NoBundles == [g \in ThreadGroups |-> <<>>]
Idle == [pc |-> "idle", bundle |-> Nothing]

Init ==
    /\ listed \in Listings
    /\ arrived = [e \in Entities |-> 0] /\ gone = [e \in Entities |-> 0]
    /\ cancelled = {} /\ loans = {}
    /\ pc = "wait" /\ ready = {}
    /\ bundles_by_tgid = NoBundles /\ queue = NoBundles
    /\ worker = [w \in Workers |-> Idle]
    /\ faults = 0
    /\ taken = [e \in Entities |-> {}]
    /\ failed = [e \in Entities |-> 0]
    /\ handled = [e \in Entities |-> <<>>] /\ kept = {}

Waiting(e) == (gone[e] + 1)..arrived[e]

executorVars == <<pc, ready, bundles_by_tgid>>
runVars == <<queue, worker, handled, kept>>
takeVars == <<gone, loans, faults, taken, failed>>

-----------------------------------------------------------------------------
(***************************************************************************)
(* The middleware and the application                                      *)
(***************************************************************************)

\* A timer that is still due does not become due twice.
Arrives(e) ==
    /\ arrived[e] < MaxArrivals[e]
    /\ e \in Timers => e \notin cancelled /\ Waiting(e) = {}
    /\ arrived' = [arrived EXCEPT ![e] = @ + 1]
    /\ UNCHANGED <<listed, cancelled, executorVars, runVars, takeVars>>

\* The oldest message is overwritten or its lifespan ends; the executor may
\* already have found it.
Expires(s) ==
    /\ s \in Subscriptions /\ Waiting(s) # {}
    /\ faults < MaxFaults /\ faults' = faults + 1
    /\ gone' = [gone EXCEPT ![s] = @ + 1]
    /\ UNCHANGED <<listed, arrived, cancelled, loans, taken, failed,
                   executorVars, runVars>>

\* A callback of another entity cancels a timer.
CancelTimer(t) ==
    /\ t \in Timers \ cancelled
    /\ cancelled' = cancelled \cup {t}
    /\ UNCHANGED <<listed, arrived, executorVars, runVars, takeVars>>

-----------------------------------------------------------------------------
(***************************************************************************)
(* take_and_bundle                                                         *)
(***************************************************************************)

\* The class that take_and_bundle chooses.
Kind(s) == CASE s \in Serialized -> "serialized"
             [] s \in Loaning \ Serialized -> "loaned"
             [] OTHER -> "generic"

\* Mutant: the bundle's own message is not the one that is filled in.
TakenIntoACopy(s, i) == IF Kind(s) = "loaned" THEN i ELSE Blank

MessageTaken(s, i) == i

\* The message of a bundle whose take failed: create_message and
\* create_serialized_message made one, nothing sets loaned_msg.
MessageNotTaken(s) ==
    IF Kind(s) = "loaned" THEN {Nothing, Garbage} ELSE {Blank}

Bundle(e, m) == [entity |-> e, message |-> m]

\* Mutant: of a group the latest bundle is kept.
EmplaceLast(b) ==
    [bundles_by_tgid EXCEPT ![TgidOf[b.entity]] = <<b>>]

emplace_bundle(b) ==
    [bundles_by_tgid EXCEPT ![TgidOf[b.entity]] = Append(@, b)]

\* A bundle is not made, dropped with a warning, or emplaced.
Emplace(s, m) ==
    /\ bundles_by_tgid' = IF m = Nothing \/ s \notin listed THEN bundles_by_tgid
                          ELSE emplace_bundle(Bundle(s, m))
    /\ ready' = ready \ {s}
    /\ UNCHANGED pc

\* Subscriptions come before timers.
Taking(e) ==
    /\ pc = "take" /\ e \in ready
    /\ e \in Timers => ready \subseteq Timers
    /\ UNCHANGED <<listed, arrived, cancelled, runVars>>

TakeMessage(s) ==
    /\ Taking(s) /\ s \in Subscriptions /\ Waiting(s) # {}
    /\ LET i == gone[s] + 1 IN
          /\ gone' = [gone EXCEPT ![s] = i]
          /\ taken' = [taken EXCEPT ![s] = @ \cup {i}]
          /\ loans' = loans \cup (IF Kind(s) = "loaned" THEN {<<s, i>>} ELSE {})
          /\ Emplace(s, MessageTaken(s, i))
    /\ UNCHANGED <<faults, failed>>

\* There is none, or an RCLError, which try_take catches.  The result of
\* take_action is not looked at.
TakeFails(s) ==
    /\ Taking(s) /\ s \in Subscriptions
    /\ \/ Waiting(s) = {} /\ UNCHANGED faults
       \/ faults < MaxFaults /\ faults' = faults + 1
    /\ failed' = [failed EXCEPT ![s] = @ + 1]
    /\ \E m \in MessageNotTaken(s) : Emplace(s, m)
    /\ UNCHANGED <<gone, loans, taken>>

\* timer->call(): no bundle for a timer that is cancelled.
CallTimer(t) ==
    /\ Taking(t) /\ t \in Timers
    /\ t \in listed \/ t \in cancelled
    /\ IF t \in cancelled
       THEN Emplace(t, Nothing) /\ UNCHANGED <<gone, taken>>
       ELSE /\ gone' = [gone EXCEPT ![t] = arrived[t]]
            /\ taken' = [taken EXCEPT ![t] = @ \cup {arrived[t]}]
            /\ Emplace(t, arrived[t])
    /\ UNCHANGED <<loans, faults, failed>>

\* Every reason for populate_ready_queues to throw leaves by this: the bundles
\* of the round that are not enqueued are destroyed, without being run.
Throw == pc' = "ended" /\ ready' = {} /\ bundles_by_tgid' = NoBundles

\* "Timer callback handle not found in timing info."
UnlistedTimer(t) ==
    /\ Taking(t) /\ t \in Timers \ (listed \cup cancelled)
    /\ gone' = [gone EXCEPT ![t] = arrived[t]]
    /\ taken' = [taken EXCEPT ![t] = @ \cup {arrived[t]}]
    /\ Throw
    /\ UNCHANGED <<loans, faults, failed>>

\* RCLBadAlloc and RCLInvalidArgument are no RCLErrors.
TakeThrows(s) ==
    /\ Taking(s) /\ s \in Subscriptions
    /\ faults < MaxFaults /\ faults' = faults + 1
    /\ Throw
    /\ UNCHANGED <<gone, loans, taken, failed>>

-----------------------------------------------------------------------------
(***************************************************************************)
(* The rounds of spin                                                      *)
(***************************************************************************)

\* rcl_wait does not report a timer that is cancelled.
ReadyNow == {e \in Entities \ cancelled : Waiting(e) # {}}

\* wait_for_work and take_ready_handles.
Wake ==
    /\ pc = "wait" /\ ReadyNow # {}
    /\ pc' = "take" /\ ready' = ReadyNow
    /\ UNCHANGED <<listed, arrived, cancelled, bundles_by_tgid, runVars,
                   takeVars>>

\* Mutant: the bundles of a round come before those of earlier rounds.
EnqueuedFirst(q, bundles) == bundles \o q

Enqueued(q, bundles) == q \o bundles

\* Mutant: the bundles stay for the next round.
NotMoved(g) == bundles_by_tgid

Moved(g) == [bundles_by_tgid EXCEPT ![g] = <<>>]

\* One iteration of the loop over bundles_by_tgid.
EnqueueBulk(g) ==
    /\ pc = "take" /\ ready = {} /\ bundles_by_tgid[g] # <<>>
    /\ queue' = [queue EXCEPT ![g] = Enqueued(@, bundles_by_tgid[g])]
    /\ bundles_by_tgid' = Moved(g)
    /\ UNCHANGED <<listed, arrived, cancelled, pc, ready, worker, handled, kept,
                   takeVars>>

\* "Failed to enqueue ready bundles to worker group (out of memory)"
EnqueueThrows(g) ==
    /\ pc = "take" /\ ready = {} /\ bundles_by_tgid[g] # <<>>
    /\ Throw
    /\ UNCHANGED <<listed, arrived, cancelled, runVars, takeVars>>

RoundEnds ==
    /\ pc = "take" /\ ready = {} /\ bundles_by_tgid = NoBundles
    /\ pc' = "wait"
    /\ UNCHANGED <<listed, arrived, cancelled, ready, bundles_by_tgid, runVars,
                   takeVars>>

\* The loop of spin ends by cancel or shutdown.
SpinEnds ==
    /\ pc = "wait" /\ pc' = "ended"
    /\ UNCHANGED <<listed, arrived, cancelled, ready, bundles_by_tgid, runVars,
                   takeVars>>

-----------------------------------------------------------------------------
(***************************************************************************)
(* The workers                                                             *)
(***************************************************************************)

Working(w, label) ==
    /\ worker[w].pc = label
    /\ UNCHANGED <<listed, arrived, cancelled, gone, faults, taken, failed,
                   executorVars>>

Dequeue(w) ==
    LET g == WorksFor[w] IN
    /\ Working(w, "idle") /\ queue[g] # <<>>
    /\ worker' = [worker EXCEPT ![w] = [pc |-> "run", bundle |-> Head(queue[g])]]
    /\ queue' = [queue EXCEPT ![g] = Tail(@)]
    /\ UNCHANGED <<loans, handled, kept>>

Handle(b) == handled' = [handled EXCEPT ![b.entity] = Append(@, b.message)]
Free(w) == worker' = [worker EXCEPT ![w] = Idle]

\* execute_callback; there is nothing to give back.
RunTimer(w) ==
    LET b == worker[w].bundle IN
    /\ Working(w, "run") /\ b.entity \in Timers
    /\ Handle(b) /\ Free(w)
    /\ UNCHANGED <<queue, loans, kept>>

\* handle_message, handle_loaned_message or handle_serialized_message.
RunMessage(w) ==
    LET b == worker[w].bundle IN
    /\ Working(w, "run") /\ b.entity \in Subscriptions
    /\ Handle(b)
    /\ worker' = [worker EXCEPT ![w].pc = "return"]
    /\ UNCHANGED <<queue, loans, kept>>

\* return_message or return_serialized_message; the bundle is destroyed.
ReturnMessage(w) ==
    /\ Working(w, "return") /\ Kind(worker[w].bundle.entity) # "loaned"
    /\ Free(w)
    /\ UNCHANGED <<queue, loans, handled, kept>>

\* Mutant: nothing is given back.
NothingReturned(b) == {}

Returned(b) == {<<b.entity, b.message>>}

\* A loan is returned, successfully or not; then the bundle is destroyed.
ReturnLoan(w) ==
    LET b == worker[w].bundle IN
    /\ Working(w, "return") /\ Kind(b.entity) = "loaned"
    /\ \/ loans' = loans \ Returned(b) /\ UNCHANGED kept
       \/ loans \cap Returned(b) # {} /\ kept' = kept \cup Returned(b)
          /\ UNCHANGED loans
    /\ Free(w)
    /\ UNCHANGED <<queue, handled>>

\* A worker that sees the end, before its next bundle.
Exit(w) ==
    /\ pc = "ended" /\ Working(w, "idle")
    /\ worker' = [worker EXCEPT ![w].pc = "exited"]
    /\ UNCHANGED <<queue, loans, handled, kept>>

\* The queues are destroyed with the groups, after the workers are joined.
DestroyQueues ==
    /\ \A w \in Workers : worker[w].pc = "exited"
    /\ pc = "ended" /\ queue # NoBundles
    /\ queue' = NoBundles
    /\ UNCHANGED <<listed, arrived, cancelled, worker, handled, kept,
                   executorVars, takeVars>>

-----------------------------------------------------------------------------
Take(e) == \/ TakeMessage(e) \/ TakeFails(e) \/ CallTimer(e)
           \/ UnlistedTimer(e) \/ TakeThrows(e)

Round == \/ Wake \/ RoundEnds \/ \E e \in Entities : Take(e)
         \/ \E g \in ThreadGroups : EnqueueBulk(g)

Works(w) == \/ Dequeue(w) \/ RunTimer(w) \/ RunMessage(w)
            \/ ReturnMessage(w) \/ ReturnLoan(w)

Next ==
    \/ \E e \in Entities : Arrives(e) \/ Expires(e) \/ CancelTimer(e)
    \/ Round \/ SpinEnds \/ \E g \in ThreadGroups : EnqueueThrows(g)
    \/ \E w \in Workers : Works(w) \/ Exit(w)
    \/ DestroyQueues

\* The executor's thread and the workers go on.
Spec == Init /\ [][Next]_vars
             /\ WF_vars(Round) /\ \A w \in Workers : WF_vars(Works(w))

-----------------------------------------------------------------------------
(***************************************************************************)
(* Properties                                                              *)
(***************************************************************************)

Ended == pc = "ended"

\* The bundles between take_and_bundle and the callback.
Queued(e, m, s) == Cardinality({i \in DOMAIN s : s[i] = Bundle(e, m)})
Pending(e, m) ==
    Cardinality({w \in Workers : worker[w] = [pc |-> "run",
                                              bundle |-> Bundle(e, m)]})
      + IF e \in listed THEN Queued(e, m, queue[TgidOf[e]])
                               + Queued(e, m, bundles_by_tgid[TgidOf[e]])
        ELSE 0
Handled(e, m) == Cardinality({i \in DOMAIN handled[e] : handled[e][i] = m})

\* What was taken is handed to a callback once, by one worker: until then there
\* is one bundle for it, and it is dropped only when spin has ended or its
\* subscription is not in the timing information (populate_ready_queues).
TakenIsRunOnce ==
    \A e \in Entities : \A i \in taken[e] :
        /\ Handled(e, i) + Pending(e, i) <= 1
        /\ e \in listed /\ ~Ended => Handled(e, i) + Pending(e, i) = 1

\* A callback sees a blank message or a wild pointer only as often as a take
\* of its subscription failed (try_take); for messages that are not lent every
\* failed take leads to such a call, until spin ends.
NoMessageAfterFailedTake ==
    \A s \in listed \cap Subscriptions :
        LET empty == Handled(s, Blank) + Pending(s, Blank)
                       + Handled(s, Garbage) + Pending(s, Garbage)
        IN empty <= failed[s] /\ (Ended \/ Kind(s) = "loaned" \/ empty = failed[s])

\* A loan is out only as long as its bundle exists, unless the middleware did
\* not take it back, or the bundle was dropped: with a subscription that is not
\* in the timing information, or when spin ended.  No destructor returns it.
OnlyDroppedLoansStay ==
    \A l \in loans \ kept :
        \/ Pending(l[1], l[2]) = 1
        \/ \E w \in Workers : worker[w] = [pc |-> "return",
                                           bundle |-> Bundle(l[1], l[2])]
        \/ l[1] \notin listed \/ Ended

\* One worker (a mutex group) handles the messages of a subscription in the
\* order of their arrival.
SingleWorkersKeepOrder ==
    \A e \in listed :
        Cardinality({w \in Workers : WorksFor[w] = TgidOf[e]}) = 1 =>
            \A i, j \in DOMAIN handled[e] :
                i < j /\ {handled[e][i], handled[e][j]} \subseteq Nat =>
                    handled[e][i] < handled[e][j]

\* A message of a subscription with timing information reaches its callback,
\* unless it expires before it is taken, or spin ends.
EveryMessageIsHandled ==
    \A s \in Subscriptions : \A i \in 1..MaxArrivals[s] :
        s \in listed /\ i \in Waiting(s) ~>
            \/ Handled(s, i) > 0 \/ Ended
            \/ i <= gone[s] /\ i \notin taken[s]
==============================================================================
