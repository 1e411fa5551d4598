------------------------------ MODULE FreeList ------------------------------
(***************************************************************************)
(* moodycamel's FreeList, the lock-free list of free blocks: a stack whose *)
(* nodes have a reference count and a flag that says that the node should  *)
(* be on the list.  Consumers and the producer add blocks while others     *)
(* take them.  A step accesses one atomic; memory is sequentially          *)
(* consistent, and compare_exchange_strong does not fail spuriously.       *)
(***************************************************************************)
EXTENDS Naturals, FiniteSets

CONSTANTS
    Threads,
    Getters,   \* the threads that take blocks
    Nodes,
    null,
    MaxGets    \* bound: calls of try_get by one thread

ASSUME FreeListAssumption ==
    Getters \subseteq Threads /\ null \notin Nodes /\ MaxGets \in Nat

VARIABLES
    freeListHead,
    freeListRefs,  \* of each node: the count and SHOULD_BE_ON_FREELIST
    freeListNext,
    held,          \* the nodes each thread holds, outside of the list
    th,            \* each thread: where it is, the locals of its call
    gets           \* calls of try_get so far

vars == <<freeListHead, freeListRefs, freeListNext, held, th, gets>>

Refs(n, flag) == [count |-> n, should |-> flag]

\* "got" is the node of try_get (head, prevHead), "node" the one to be added.
Idle == [pc |-> "idle", got |-> null, head |-> null, next |-> null,
         node |-> null, refs |-> Refs(0, FALSE)]

\* Blocks come from the pool, into anybody's hands, before they are added.
Init ==
    /\ freeListHead = null
    /\ freeListRefs = [n \in Nodes |-> Refs(0, FALSE)]
    /\ freeListNext = [n \in Nodes |-> null]
    /\ \E owner \in [Nodes -> Threads] :
          held = [t \in Threads |-> {n \in Nodes : owner[n] = t}]
    /\ th = [t \in Threads |-> Idle]
    /\ gets = [t \in Threads |-> 0]

At(t, pc) == th[t].pc = pc
Goto(t, r) == th' = [th EXCEPT ![t] = r]

-----------------------------------------------------------------------------
(***************************************************************************)
(* add and add_knowing_refcount_is_zero                                    *)
(***************************************************************************)

LastReference(refs) == refs = Refs(0, FALSE)

\* Adding SHOULD_BE_ON_FREELIST flips the flag; who holds the last reference
\* adds the node.
Add(t, n) ==
    /\ At(t, "idle") /\ n \in held[t]
    /\ held' = [held EXCEPT ![t] = @ \ {n}]
    /\ freeListRefs' = [freeListRefs EXCEPT ![n].should = ~@]
    /\ Goto(t, IF LastReference(freeListRefs[n])
               THEN [Idle EXCEPT !.pc = "push_load", !.node = n] ELSE Idle)
    /\ UNCHANGED <<freeListHead, freeListNext, gets>>

PushLoad(t) ==
    /\ At(t, "push_load")
    /\ Goto(t, [th[t] EXCEPT !.pc = "push_next", !.next = freeListHead])
    /\ UNCHANGED <<freeListHead, freeListRefs, freeListNext, held, gets>>

PushNext(t) ==
    /\ At(t, "push_next")
    /\ freeListNext' = [freeListNext EXCEPT ![th[t].node] = th[t].next]
    /\ Goto(t, [th[t] EXCEPT !.pc = "push_refs"])
    /\ UNCHANGED <<freeListHead, freeListRefs, held, gets>>

PushedRefs(refs) == Refs(1, FALSE)

PushRefs(t) ==
    /\ At(t, "push_refs")
    /\ freeListRefs' = [freeListRefs EXCEPT ![th[t].node] = PushedRefs(@)]
    /\ Goto(t, [th[t] EXCEPT !.pc = "push_cas"])
    /\ UNCHANGED <<freeListHead, freeListNext, held, gets>>

\* A push inside try_get goes on with that loop.
PushDone(t) ==
    IF th[t].got = null THEN Idle
    ELSE [Idle EXCEPT !.pc = IF th[t].head = null THEN "idle" ELSE "get_refs",
                      !.got = th[t].head]

Reloaded(t) == freeListHead

PushCas(t) ==
    /\ At(t, "push_cas")
    /\ \/ /\ freeListHead = th[t].next
          /\ freeListHead' = th[t].node
          /\ Goto(t, PushDone(t))
       \/ /\ freeListHead # th[t].next
          /\ Goto(t, [th[t] EXCEPT !.pc = "push_failed", !.next = Reloaded(t)])
          /\ UNCHANGED freeListHead
    /\ UNCHANGED <<freeListRefs, freeListNext, held, gets>>

PushAgain(refs) == refs = Refs(1, FALSE)

PushFailed(t) ==
    LET n == th[t].node IN
    /\ At(t, "push_failed")
    /\ freeListRefs' = [freeListRefs EXCEPT ![n] = Refs(@.count - 1, ~@.should)]
    /\ Goto(t, IF PushAgain(freeListRefs[n])
               THEN [th[t] EXCEPT !.pc = "push_next"] ELSE PushDone(t))
    /\ UNCHANGED <<freeListHead, freeListNext, held, gets>>

-----------------------------------------------------------------------------
(***************************************************************************)
(* try_get                                                                 *)
(***************************************************************************)

TryGet(t) ==
    /\ At(t, "idle") /\ t \in Getters /\ gets[t] < MaxGets
    /\ gets' = [gets EXCEPT ![t] = @ + 1]
    /\ Goto(t, [Idle EXCEPT !.pc = "get_head"])
    /\ UNCHANGED <<freeListHead, freeListRefs, freeListNext, held>>

\* The head is loaded, and null returned when there is none.
GetHead(t) ==
    /\ At(t, "get_head")
    /\ Goto(t, IF freeListHead = null THEN Idle
               ELSE [Idle EXCEPT !.pc = "get_refs", !.got = freeListHead])
    /\ UNCHANGED <<freeListHead, freeListRefs, freeListNext, held, gets>>

GetRefs(t) ==
    LET refs == freeListRefs[th[t].got] IN
    /\ At(t, "get_refs")
    /\ Goto(t, IF refs.count = 0 THEN [Idle EXCEPT !.pc = "get_head"]
               ELSE [th[t] EXCEPT !.pc = "get_acquire", !.refs = refs])
    /\ UNCHANGED <<freeListHead, freeListRefs, freeListNext, held, gets>>

\* Mutant: the count is raised without comparing it.
AcquireBlindly(t) == TRUE

Unchanged(t) == freeListRefs[th[t].got] = th[t].refs

GetAcquire(t) ==
    /\ At(t, "get_acquire")
    /\ \/ /\ Unchanged(t)
          /\ freeListRefs' = [freeListRefs EXCEPT ![th[t].got].count = @ + 1]
          /\ Goto(t, [th[t] EXCEPT !.pc = "get_next", !.refs = Refs(0, FALSE)])
       \/ /\ ~Unchanged(t)
          /\ Goto(t, [Idle EXCEPT !.pc = "get_head"])
          /\ UNCHANGED freeListRefs
    /\ UNCHANGED <<freeListHead, freeListNext, held, gets>>

GetNext(t) ==
    /\ At(t, "get_next")
    /\ Goto(t, [th[t] EXCEPT !.pc = "get_cas",
                             !.next = freeListNext[th[t].got]])
    /\ UNCHANGED <<freeListHead, freeListRefs, freeListNext, held, gets>>

\* The node is taken off the list, or the head has changed.
GetCas(t) ==
    /\ At(t, "get_cas")
    /\ \/ /\ freeListHead = th[t].got
          /\ freeListHead' = th[t].next
          /\ Goto(t, [th[t] EXCEPT !.pc = "get_done", !.next = null])
       \/ /\ freeListHead # th[t].got
          /\ Goto(t, [th[t] EXCEPT !.pc = "get_release", !.next = null,
                                   !.head = freeListHead])
          /\ UNCHANGED freeListHead
    /\ UNCHANGED <<freeListRefs, freeListNext, held, gets>>

\* Two references less: the thread's and the list's.
GetDone(t) ==
    LET n == th[t].got IN
    /\ At(t, "get_done")
    /\ freeListRefs' = [freeListRefs EXCEPT ![n].count = @ - 2]
    /\ held' = [held EXCEPT ![t] = @ \cup {n}]
    /\ Goto(t, Idle)
    /\ UNCHANGED <<freeListHead, freeListNext, gets>>

\* Mutant: the node is not added by the last one to release it.
NobodyAdds(refs) == FALSE

MustAdd(refs) == refs = Refs(1, TRUE)

\* The reference is given up; the last one adds a node that should be on the
\* list.  Then the loop goes on with the head that the exchange found.
GetRelease(t) ==
    LET n == th[t].got IN
    /\ At(t, "get_release")
    /\ freeListRefs' = [freeListRefs EXCEPT ![n].count = @ - 1]
    /\ Goto(t, IF MustAdd(freeListRefs[n])
               THEN [th[t] EXCEPT !.pc = "push_load", !.node = n]
               ELSE PushDone(t))
    /\ UNCHANGED <<freeListHead, freeListNext, held, gets>>

-----------------------------------------------------------------------------
Inside(t) ==
    \/ PushLoad(t) \/ PushNext(t) \/ PushRefs(t) \/ PushCas(t) \/ PushFailed(t)
    \/ GetHead(t) \/ GetRefs(t) \/ GetAcquire(t) \/ GetNext(t) \/ GetCas(t)
    \/ GetDone(t) \/ GetRelease(t)

Next == \E t \in Threads : \/ TryGet(t) \/ Inside(t)
                           \/ \E n \in Nodes : Add(t, n)

Spec == Init /\ [][Next]_vars

-----------------------------------------------------------------------------
(***************************************************************************)
(* Properties                                                              *)
(***************************************************************************)

\* The list: the smallest set with the head, and with the next of its nodes.
Closed(S) ==
    /\ freeListHead \in S \cup {null}
    /\ \A n \in S : freeListNext[n] \in S \cup {null}
OnList == {n \in Nodes : \A S \in SUBSET Nodes : Closed(S) => n \in S}

\* The node of a successful exchange is held by whoever is about to return it.
Taken == [t \in Threads |-> held[t] \cup (IF At(t, "get_done") THEN {th[t].got}
                                                               ELSE {})]

\* The list implements NodePool: it never gives one block to two threads.
Pool == INSTANCE NodePool WITH held <- Taken
ImplementsPool == Pool!Spec

\* The threads that add_knowing_refcount_is_zero runs in for a node.
Adders(n) == {t \in Threads : th[t].node = n}

\* A node whose add is left to whoever drops the last reference.
LeftBehind(n) ==
    Adders(n) = {} /\ freeListRefs[n].should /\ freeListRefs[n].count > 0

\* Every block is in one place: one thread holds it, or one thread adds it ("we
\* run only one copy of this method per node at a time"), or it is on the list,
\* or its flag is up and somebody's reference will make him add it.  In
\* particular the flag of a block on the list, or in somebody's hands, is down
\* (the assertion of try_get), and none is lost when nobody is inside.
EveryBlockIsInOnePlace ==
    \A n \in Nodes :
        LET holders == {t \in Threads : n \in Taken[t]}
            other   == {p \in {"list", "left"} :
                          IF p = "list" THEN n \in OnList ELSE LeftBehind(n)}
        IN Cardinality(holders) + Cardinality(Adders(n)) + Cardinality(other) = 1
=============================================================================
