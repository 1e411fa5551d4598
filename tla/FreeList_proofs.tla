--------------------------- MODULE FreeList_proofs ---------------------------
(***************************************************************************)
(* The lock-free list of free blocks keeps every block in one place, for   *)
(* any number of threads, blocks and calls, and so implements the pool.    *)
(***************************************************************************)
EXTENDS FreeList, FiniteSetTheorems, TLAPS

USE FreeListAssumption

-----------------------------------------------------------------------------
(***************************************************************************)
(* The inductive invariant                                                 *)
(***************************************************************************)

NodeOrNull == Nodes \cup {null}
RefsType   == [count : Nat, should : BOOLEAN]
Pushing    == {"push_load", "push_next", "push_refs", "push_cas", "push_failed"}
EarlyPoints == {"push_load", "push_next", "push_refs"}
Using      == {"get_next", "get_cas", "get_done", "get_release"}
Points     == {"idle", "get_head", "get_refs", "get_acquire"} \cup Pushing \cup Using
CallType   == [pc : Points, got : NodeOrNull, head : NodeOrNull,
               next : NodeOrNull, node : NodeOrNull, refs : RefsType]

TypeOK ==
    /\ freeListHead \in NodeOrNull
    /\ freeListRefs \in [Nodes -> RefsType]
    /\ freeListNext \in [Nodes -> NodeOrNull]
    /\ held \in [Threads -> SUBSET Nodes]
    /\ th \in [Threads -> CallType]

\* What the locals of a call say.  While a node is in use, or is being added,
\* its next does not change.
CallsOK ==
    \A t \in Threads :
        /\ th[t].node # null <=> th[t].pc \in Pushing
        /\ th[t].pc \in Using \cup {"get_refs", "get_acquire"} => th[t].got # null
        /\ At(t, "get_acquire") => th[t].refs.count > 0
        /\ At(t, "get_cas") => th[t].next = freeListNext[th[t].got]
        /\ th[t].pc \in {"push_refs", "push_cas"} =>
             th[t].next = freeListNext[th[t].node]

\* On the list no two nodes have the same next, and the head is nobody's next.
Chained ==
    /\ \A n \in OnList : freeListNext[n] \in Nodes =>
                           freeListNext[n] # freeListHead
    /\ \A m, n \in OnList : freeListNext[m] \in Nodes
                            /\ freeListNext[m] = freeListNext[n] => m = n

\* t takes n, adds n, adds it and has not made it visible yet, or has it in
\* one of these ways.
Takes(t, n) == At(t, "get_done") /\ th[t].got = n
Adds(t, n)  == th[t].node = n
Early(t, n) == Adds(t, n) /\ th[t].pc \in EarlyPoints
Has(t, n)   == n \in held[t] \/ Takes(t, n) \/ Adds(t, n)

\* A node is with one thread, or on the list, or left behind; its flag is up
\* in the hands of an early adder and where it was left behind.
PlacedAt(n) ==
    /\ \A t, u \in Threads : Has(t, n) /\ Has(u, n) => t = u
    /\ \A t \in Threads : ~(n \in held[t] /\ (Takes(t, n) \/ Adds(t, n)))
    /\ \A t \in Threads : Has(t, n) =>
         n \notin OnList /\ (freeListRefs[n].should <=> Early(t, n))
    /\ n \in OnList => ~freeListRefs[n].should
    /\ \/ \E t \in Threads : Has(t, n)
       \/ n \in OnList
       \/ freeListRefs[n].should /\ freeListRefs[n].count > 0
Placed == \A n \in Nodes : PlacedAt(n)

\* The references are those of the threads that use the node, and that of the
\* list, which is there before the node and stays until the taker is done.
Users(n) == {t \in Threads : th[t].got = n /\ th[t].pc \in Using}
ListRef(n) ==
    \/ n \in OnList
    \/ \E t \in Threads : Takes(t, n) \/ (Adds(t, n) /\ ~Early(t, n))

CountedAt(n) ==
    /\ IsFiniteSet(Users(n))
    /\ freeListRefs[n].count = Cardinality(Users(n))
                                 + (IF ListRef(n) THEN 1 ELSE 0)
    /\ \A t \in Threads : Early(t, n) => freeListRefs[n].count = 0
Counted == \A n \in Nodes : CountedAt(n)

IInv == TypeOK /\ CallsOK /\ Chained /\ Placed /\ Counted

-----------------------------------------------------------------------------
(***************************************************************************)
(* The list                                                                *)
(***************************************************************************)

LEMMA OnListIsLeast ==
    ASSUME TypeOK
    PROVE  /\ OnList \in SUBSET Nodes /\ Closed(OnList)
           /\ \A S \in SUBSET Nodes : Closed(S) => OnList \subseteq S
  <1>1. \A S \in SUBSET Nodes : Closed(S) => OnList \subseteq S
    BY DEF OnList
  <1>2. freeListHead \in OnList \cup {null}
    BY DEF OnList, Closed, TypeOK, NodeOrNull
  <1>3. \A n \in OnList : freeListNext[n] \in OnList \cup {null}
    BY DEF OnList, Closed, TypeOK, NodeOrNull
  <1> QED  BY <1>1, <1>2, <1>3 DEF OnList, Closed

\* Writing the next of a node that is not on the list leaves the list alone.
LEMMA OnListStays ==
    ASSUME TypeOK, TypeOK', freeListHead' = freeListHead,
           \A n \in OnList : freeListNext'[n] = freeListNext[n]
    PROVE  OnList' = OnList
  <1>1. OnList \in SUBSET Nodes /\ Closed(OnList)
    BY OnListIsLeast
  <1>2. ASSUME NEW S \in SUBSET Nodes, S = OnList PROVE OnList' \subseteq S
    <2>1. Closed(S)'
      BY <1>1, <1>2 DEF Closed
    <2> QED  BY <2>1 DEF OnList
  <1>3. ASSUME NEW S \in SUBSET Nodes, Closed(S)' PROVE OnList \subseteq S
    <2>1. Closed(S \cap OnList)
      BY <1>1, <1>3 DEF Closed
    <2> QED  BY <1>1, <2>1, OnListIsLeast
  <1>4. OnList \subseteq OnList'
    BY <1>1, <1>3 DEF OnList
  <1> QED  BY <1>1, <1>2, <1>4

\* A node whose next is the head is put before it.
LEMMA OnListPushed ==
    ASSUME TypeOK, freeListNext' = freeListNext,
           NEW n \in Nodes, freeListNext[n] = freeListHead, freeListHead' = n
    PROVE  OnList' = OnList \cup {n}
  <1>1. OnList \in SUBSET Nodes /\ Closed(OnList)
    BY OnListIsLeast
  <1>2. ASSUME NEW S \in SUBSET Nodes, S = OnList \cup {n}
        PROVE  OnList' \subseteq S
    <2>1. Closed(S)'
      BY <1>1, <1>2 DEF Closed
    <2> QED  BY <2>1 DEF OnList
  <1>3. ASSUME NEW S \in SUBSET Nodes, Closed(S)'
        PROVE  n \in S /\ OnList \subseteq S
    <2>1. n \in S
      BY <1>3 DEF Closed
    <2>2. Closed(S)
      BY <1>3, <2>1 DEF Closed
    <2> QED  BY <2>1, <2>2, OnListIsLeast
  <1>4. OnList \cup {n} \subseteq OnList'
    BY <1>1, <1>3 DEF OnList
  <1> QED  BY <1>1, <1>2, <1>4

\* The head is taken off.
LEMMA OnListPopped ==
    ASSUME TypeOK, Chained, freeListNext' = freeListNext,
           NEW n \in Nodes, freeListHead = n, freeListHead' = freeListNext[n]
    PROVE  n \in OnList /\ OnList' = OnList \ {n}
  <1>1. OnList \in SUBSET Nodes /\ Closed(OnList)
    BY OnListIsLeast
  <1>2. n \in OnList
    BY <1>1 DEF Closed
  <1>3. ASSUME NEW S \in SUBSET Nodes, S = OnList \ {n}
        PROVE  OnList' \subseteq S
    <2>1. \A m \in OnList : freeListNext[m] \in S \cup {null}
      BY <1>1, <1>3 DEF Closed, Chained
    <2>2. Closed(S)'
      BY <1>2, <1>3, <2>1 DEF Closed
    <2> QED  BY <2>2 DEF OnList
  <1>4. ASSUME NEW S \in SUBSET Nodes, Closed(S)' PROVE OnList \ {n} \subseteq S
    <2>1. Closed(S \cup {n})
      BY <1>4 DEF Closed
    <2> QED  BY <2>1, OnListIsLeast
  <1>5. OnList \ {n} \subseteq OnList'
    BY <1>1, <1>4 DEF OnList
  <1> QED  BY <1>1, <1>2, <1>3, <1>5

-----------------------------------------------------------------------------
(***************************************************************************)
(* What a step leaves alone                                                *)
(***************************************************************************)

SameFor(n) ==
    /\ freeListRefs'[n] = freeListRefs[n]
    /\ n \in OnList' <=> n \in OnList
    /\ \A u \in Threads : /\ n \in held'[u] <=> n \in held[u]
                          /\ Takes(u, n)' <=> Takes(u, n)
                          /\ Adds(u, n)'  <=> Adds(u, n)
                          /\ Early(u, n)' <=> Early(u, n)
    /\ Users(n)' = Users(n)

LEMMA SameForHolds ==
    ASSUME NEW n \in Nodes, PlacedAt(n), CountedAt(n), SameFor(n)
    PROVE  PlacedAt(n)' /\ CountedAt(n)'
  <1>1. \A u \in Threads : Has(u, n)' <=> Has(u, n)
    BY DEF Has, SameFor
  <1>2. ListRef(n)' <=> ListRef(n)
    BY DEF ListRef, SameFor
  <1>3. PlacedAt(n)'
    BY <1>1 DEF PlacedAt, SameFor
  <1>4. CountedAt(n)'
    BY <1>2 DEF CountedAt, SameFor
  <1> QED  BY <1>3, <1>4

LEMMA Moves ==
    ASSUME TypeOK, NEW t \in Threads, NEW r \in CallType, Goto(t, r)
    PROVE  /\ th' \in [Threads -> CallType] /\ th'[t] = r
           /\ \A u \in Threads \ {t} : th'[u] = th[u]
  BY DEF TypeOK, Goto

\* A step within a call that neither gets nor gives up anything.
LEMMA Quiet ==
    ASSUME IInv, NEW t \in Threads, UNCHANGED <<freeListRefs, held>>,
           OnList' = OnList, \A u \in Threads \ {t} : th'[u] = th[u],
           th'[t].node = th[t].node,
           th'[t].pc \in EarlyPoints <=> th[t].pc \in EarlyPoints,
           ~At(t, "get_done"), ~At(t, "get_done")',
           \/ th[t].pc \notin Using /\ th'[t].pc \notin Using
           \/ th[t].pc \in Using /\ th'[t].pc \in Using /\ th'[t].got = th[t].got
    PROVE  Placed' /\ Counted'
  <1> SUFFICES ASSUME NEW n \in Nodes PROVE PlacedAt(n)' /\ CountedAt(n)'
    BY DEF Placed, Counted
  <1>1. \A u \in Threads : /\ Takes(u, n)' <=> Takes(u, n)
                           /\ Adds(u, n)'  <=> Adds(u, n)
                           /\ Early(u, n)' <=> Early(u, n)
    BY DEF Takes, Adds, Early, At
  <1>2. Users(n)' = Users(n)
    BY DEF Users
  <1>3. SameFor(n)
    BY <1>1, <1>2 DEF SameFor
  <1> QED  BY <1>3, SameForHolds DEF IInv, Placed, Counted

\* The locals of the other threads stay as true as they were, unless the next
\* of a node is written that they use or add.
LEMMA OtherCalls ==
    ASSUME CallsOK, NEW t \in Threads, \A u \in Threads \ {t} : th'[u] = th[u],
           \A u \in Threads \ {t} :
             /\ At(u, "get_cas") => freeListNext'[th[u].got] = freeListNext[th[u].got]
             /\ th[u].pc \in {"push_refs", "push_cas"} =>
                  freeListNext'[th[u].node] = freeListNext[th[u].node],
           /\ th'[t].node # null <=> th'[t].pc \in Pushing
           /\ th'[t].pc \in Using \cup {"get_refs", "get_acquire"} =>
                th'[t].got # null
           /\ th'[t].pc = "get_acquire" => th'[t].refs.count > 0
           /\ th'[t].pc = "get_cas" => th'[t].next = freeListNext'[th'[t].got]
           /\ th'[t].pc \in {"push_refs", "push_cas"} =>
                th'[t].next = freeListNext'[th'[t].node]
    PROVE  CallsOK'
  BY DEF CallsOK, At

LEMMA SameChain ==
    ASSUME Chained, OnList' = OnList, freeListHead' = freeListHead,
           \A n \in OnList : freeListNext'[n] = freeListNext[n]
    PROVE  Chained'
  BY DEF Chained

LEMMA InitHolds == Init => IInv
  <1> SUFFICES ASSUME Init PROVE IInv
    OBVIOUS
  <1>1. PICK owner \in [Nodes -> Threads] :
          held = [t \in Threads |-> {n \in Nodes : owner[n] = t}]
    BY DEF Init
  <1>2. /\ Idle \in CallType /\ Idle.pc = "idle" /\ Idle.node = null
        /\ freeListHead = null /\ th = [t \in Threads |-> Idle]
        /\ \A n \in Nodes : freeListRefs[n] = [count |-> 0, should |-> FALSE]
    BY DEF Init, Idle, CallType, Points, NodeOrNull, RefsType, Refs
  <1>3. TypeOK
    BY <1>1, <1>2 DEF Init, TypeOK, NodeOrNull, RefsType, Refs
  <1>4. CallsOK
    BY <1>2 DEF CallsOK, At, Pushing, Using
  <1>5. OnList = {}
    <2>1. Closed({})
      BY <1>2 DEF Closed
    <2> QED  BY <1>3, <2>1, OnListIsLeast
  <1>6. Chained
    BY <1>5 DEF Chained
  <1>7. ASSUME NEW n \in Nodes PROVE PlacedAt(n) /\ CountedAt(n)
    <2>1. \A t \in Threads : /\ ~Takes(t, n) /\ ~Adds(t, n) /\ ~Early(t, n)
                             /\ Has(t, n) <=> owner[n] = t
      BY <1>1, <1>2 DEF Takes, Adds, Early, Has, At
    <2>2. Users(n) = {} /\ ~ListRef(n)
      BY <1>2, <1>5, <2>1 DEF Users, Using, ListRef
    <2>3. PlacedAt(n)
      BY <1>1, <1>2, <1>5, <2>1 DEF PlacedAt
    <2>4. CountedAt(n)
      BY <1>2, <2>1, <2>2, FS_EmptySet DEF CountedAt
    <2> QED  BY <2>3, <2>4
  <1> QED  BY <1>3, <1>4, <1>6, <1>7 DEF IInv, Placed, Counted

-----------------------------------------------------------------------------
(***************************************************************************)
(* Steps that read                                                         *)
(***************************************************************************)

\* Reading the head, a count or a next, and failing exchanges.
Reading(t) ==
    \/ PushLoad(t) \/ TryGet(t) \/ GetHead(t) \/ GetRefs(t) \/ GetNext(t)
    \/ /\ PushCas(t) /\ UNCHANGED freeListHead
       /\ freeListHead # th[t].next
    \/ /\ GetAcquire(t) /\ UNCHANGED freeListRefs
       /\ ~Unchanged(t)
    \/ /\ GetCas(t) /\ UNCHANGED freeListHead
       /\ freeListHead # th[t].got

LEMMA ReadingHolds ==
    ASSUME IInv, NEW t \in Threads, Reading(t)
    PROVE  IInv'
  <1>1. TypeOK /\ CallsOK /\ Chained /\ th[t] \in CallType
    BY DEF IInv, TypeOK
  <1>2. UNCHANGED <<freeListHead, freeListRefs, freeListNext, held>>
    BY DEF Reading, PushLoad, TryGet, GetHead, GetRefs, GetNext, PushCas,
           GetAcquire, GetCas
  <1> DEFINE c == th[t]
             Step(r) ==
               /\ r \in CallType /\ r.node = c.node
               /\ r.pc \in EarlyPoints <=> c.pc \in EarlyPoints
               /\ c.pc # "get_done" /\ r.pc # "get_done"
               /\ \/ c.pc \notin Using /\ r.pc \notin Using
                  \/ c.pc \in Using /\ r.pc \in Using /\ r.got = c.got
               /\ r.pc \in Using \cup {"get_refs", "get_acquire"} => r.got # null
               /\ r.pc = "get_acquire" => r.refs.count > 0
               /\ r.pc = "get_cas" => r.next = freeListNext[r.got]
               /\ r.pc \notin {"push_refs", "push_cas"}
               /\ r.pc \in Pushing <=> c.pc \in Pushing
  <1>3. PICK r : Goto(t, r) /\ Step(r)
    <2> USE DEF CallType, Points, Pushing, Using, EarlyPoints, At
    <2>1. CASE PushLoad(t)
      <3>1. Goto(t, [c EXCEPT !.pc = "push_next", !.next = freeListHead])
        BY <2>1 DEF PushLoad
      <3>2. Step([c EXCEPT !.pc = "push_next", !.next = freeListHead])
        BY <1>1, <2>1 DEF PushLoad, CallsOK, TypeOK
      <3> QED  BY <3>1, <3>2
    <2>2. CASE TryGet(t)
      <3>1. Goto(t, [Idle EXCEPT !.pc = "get_head"])
        BY <2>2 DEF TryGet
      <3>2. Step([Idle EXCEPT !.pc = "get_head"])
        BY <1>1, <2>2 DEF TryGet, CallsOK, Idle, Refs, RefsType, NodeOrNull
      <3> QED  BY <3>1, <3>2
    <2>3. CASE GetHead(t)
      <3>1. CASE freeListHead = null
        <4>1. Step(Idle)
          BY <1>1, <2>3 DEF GetHead, CallsOK, Idle, Refs, RefsType, NodeOrNull
        <4> QED  BY <2>3, <3>1, <4>1 DEF GetHead
      <3>2. CASE freeListHead # null
        <4>1. Step([Idle EXCEPT !.pc = "get_refs", !.got = freeListHead])
          BY <1>1, <2>3, <3>2
             DEF GetHead, CallsOK, Idle, Refs, RefsType, NodeOrNull, TypeOK
        <4> QED  BY <2>3, <3>2, <4>1 DEF GetHead
      <3> QED  BY <3>1, <3>2
    <2>4. CASE GetRefs(t)
      <3> DEFINE refs == freeListRefs[c.got]
      <3>1. c.pc = "get_refs" /\ c.got \in Nodes
        BY <1>1, <2>4 DEF GetRefs, CallsOK, NodeOrNull
      <3>2. refs \in RefsType
        BY <1>1, <3>1 DEF TypeOK
      <3>3. CASE refs.count = 0
        <4>1. Step([Idle EXCEPT !.pc = "get_head"])
          BY <1>1, <3>1 DEF CallsOK, Idle, Refs, RefsType, NodeOrNull
        <4> QED  BY <2>4, <3>3, <4>1 DEF GetRefs
      <3>4. CASE refs.count # 0
        <4>1. Goto(t, [c EXCEPT !.pc = "get_acquire", !.refs = refs])
          BY <2>4, <3>4 DEF GetRefs
        <4>2. refs.count > 0
          BY <3>2, <3>4 DEF RefsType
        <4> HIDE DEF refs
        <4>3. Step([c EXCEPT !.pc = "get_acquire", !.refs = refs])
          BY <1>1, <3>1, <3>2, <4>2
        <4> QED  BY <4>1, <4>3
      <3> QED  BY <3>3, <3>4
    <2>5. CASE GetNext(t)
      <3>1. c.pc = "get_next" /\ c.got \in Nodes
        BY <1>1, <2>5 DEF GetNext, CallsOK, NodeOrNull
      <3>2. Goto(t, [c EXCEPT !.pc = "get_cas", !.next = freeListNext[c.got]])
        BY <2>5 DEF GetNext
      <3>3. Step([c EXCEPT !.pc = "get_cas", !.next = freeListNext[c.got]])
        BY <1>1, <3>1 DEF TypeOK, NodeOrNull
      <3> QED  BY <3>2, <3>3
    <2>6. CASE PushCas(t) /\ freeListHead # th[t].next
      <3>1. c.pc = "push_cas"
            /\ Goto(t, [c EXCEPT !.pc = "push_failed", !.next = freeListHead])
        BY <2>6 DEF PushCas, Reloaded
      <3>2. Step([c EXCEPT !.pc = "push_failed", !.next = freeListHead])
        BY <1>1, <3>1 DEF TypeOK
      <3> QED  BY <3>1, <3>2
    <2>7. CASE GetAcquire(t) /\ ~Unchanged(t)
      <3>1. c.pc = "get_acquire" /\ Goto(t, [Idle EXCEPT !.pc = "get_head"])
        BY <2>7 DEF GetAcquire
      <3>2. Step([Idle EXCEPT !.pc = "get_head"])
        BY <1>1, <3>1 DEF CallsOK, Idle, Refs, RefsType, NodeOrNull
      <3> QED  BY <3>1, <3>2
    <2>8. CASE GetCas(t) /\ freeListHead # th[t].got
      <3>1. /\ c.pc = "get_cas" /\ c.got # null
            /\ Goto(t, [c EXCEPT !.pc = "get_release", !.next = null,
                                 !.head = freeListHead])
        BY <1>1, <2>8 DEF GetCas, CallsOK
      <3>2. Step([c EXCEPT !.pc = "get_release", !.next = null,
                           !.head = freeListHead])
        BY <1>1, <3>1 DEF TypeOK, NodeOrNull
      <3> QED  BY <3>1, <3>2
    <2> QED
      BY <2>1, <2>2, <2>3, <2>4, <2>5, <2>6, <2>7, <2>8 DEF Reading
  <1>4. /\ th' \in [Threads -> CallType] /\ th'[t] = r
        /\ \A u \in Threads \ {t} : th'[u] = th[u]
    BY <1>1, <1>3, Moves
  <1>5. TypeOK'
    BY <1>1, <1>2, <1>4 DEF TypeOK
  <1>6. OnList' = OnList
    BY <1>1, <1>2, <1>5, OnListStays
  <1>7. Placed' /\ Counted'
    BY <1>2, <1>3, <1>4, <1>6, Quiet DEF At
  <1>8. CallsOK'
    BY <1>1, <1>2, <1>3, <1>4, OtherCalls DEF CallsOK
  <1>9. Chained'
    BY <1>1, <1>2, <1>6, SameChain
  <1> QED  BY <1>5, <1>7, <1>8, <1>9 DEF IInv

-----------------------------------------------------------------------------
(***************************************************************************)
(* Steps that write                                                        *)
(***************************************************************************)

\* A step of t that is about node n alone.
AboutOne(t, n) ==
    /\ \A u \in Threads \ {t} : th'[u] = th[u] /\ held'[u] = held[u]
    /\ \A m \in Nodes \ {n} : /\ freeListRefs'[m] = freeListRefs[m]
                              /\ m \in held'[t] <=> m \in held[t]
                              /\ m \in OnList' <=> m \in OnList
    /\ th[t].node \in {n, null} /\ th'[t].node \in {n, null}
    /\ th[t].pc \in Using => th[t].got = n
    /\ th'[t].pc \in Using => th'[t].got = n

LEMMA OneNode ==
    ASSUME Placed, Counted, NEW t \in Threads, NEW n \in Nodes, AboutOne(t, n),
           PlacedAt(n)', CountedAt(n)'
    PROVE  Placed' /\ Counted'
  <1> SUFFICES ASSUME NEW m \in Nodes \ {n} PROVE PlacedAt(m)' /\ CountedAt(m)'
    BY DEF Placed, Counted
  <1>1. m # null /\ m # n
    OBVIOUS
  <1>2. \A u \in Threads : /\ Takes(u, m)' <=> Takes(u, m)
                           /\ Adds(u, m)'  <=> Adds(u, m)
                           /\ Early(u, m)' <=> Early(u, m)
    BY <1>1 DEF AboutOne, Takes, Adds, Early, At, Using
  <1>3. Users(m)' = Users(m)
    BY <1>1 DEF AboutOne, Users
  <1>4. SameFor(m)
    BY <1>2, <1>3 DEF SameFor, AboutOne
  <1> QED  BY <1>4, SameForHolds DEF Placed, Counted

LEMMA NoUsers ==
    ASSUME NEW n \in Nodes, CountedAt(n)
    PROVE  /\ Cardinality(Users(n)) \in Nat
           /\ freeListRefs[n].count = 0 => Users(n) = {} /\ ~ListRef(n)
  <1>1. Cardinality(Users(n)) \in Nat
    BY FS_CardinalityType DEF CountedAt
  <1>2. freeListRefs[n].count = 0 => Cardinality(Users(n)) = 0 /\ ~ListRef(n)
    BY <1>1 DEF CountedAt
  <1> QED  BY <1>1, <1>2, FS_EmptySet DEF CountedAt

\* The users of a node, when t joins or leaves them.
LEMMA UsersJoined ==
    ASSUME NEW n \in Nodes, CountedAt(n), NEW t \in Threads,
           \A u \in Threads \ {t} : th'[u] = th[u],
           ~(th[t].pc \in Using /\ th[t].got = n),
           th'[t].pc \in Using, th'[t].got = n
    PROVE  /\ IsFiniteSet(Users(n)')
           /\ Cardinality(Users(n)') = Cardinality(Users(n)) + 1
  <1>1. Users(n)' = Users(n) \cup {t} /\ t \notin Users(n)
    BY DEF Users
  <1> QED  BY <1>1, FS_AddElement DEF CountedAt

LEMMA UsersLeft ==
    ASSUME NEW n \in Nodes, CountedAt(n), NEW t \in Threads,
           \A u \in Threads \ {t} : th'[u] = th[u],
           th[t].pc \in Using, th[t].got = n,
           th'[t].pc \notin Using
    PROVE  /\ IsFiniteSet(Users(n)')
           /\ Cardinality(Users(n)') = Cardinality(Users(n)) - 1
           /\ Cardinality(Users(n)) >= 1
  <1>1. Users(n)' = Users(n) \ {t} /\ t \in Users(n)
    BY DEF Users
  <1>2. /\ IsFiniteSet(Users(n)')
        /\ Cardinality(Users(n)') = Cardinality(Users(n)) - 1
    BY <1>1, FS_RemoveElement DEF CountedAt
  <1>3. Cardinality(Users(n)) # 0
    BY <1>1, FS_EmptySet DEF CountedAt
  <1> QED  BY <1>2, <1>3, NoUsers

LEMMA UsersSame ==
    ASSUME NEW n \in Nodes, NEW t \in Threads,
           \A u \in Threads \ {t} : th'[u] = th[u],
           \/ th[t].pc \notin Using /\ th'[t].pc \notin Using
           \/ th[t].pc \in Using /\ th'[t].pc \in Using /\ th'[t].got = th[t].got
    PROVE  Users(n)' = Users(n)
  BY DEF Users

\* The next of a node is written while it is in nobody else's hands.
LEMMA PushNextHolds ==
    ASSUME IInv, NEW t \in Threads, PushNext(t)
    PROVE  IInv'
  <1> DEFINE c == th[t]
             n == c.node
             r == [c EXCEPT !.pc = "push_refs"]
  <1>1. TypeOK /\ CallsOK /\ Chained /\ Placed /\ Counted /\ c \in CallType
    BY DEF IInv, TypeOK
  <1>2. c.pc = "push_next" /\ n \in Nodes
    BY <1>1 DEF PushNext, At, CallsOK, Pushing, CallType, NodeOrNull
  <1>3. /\ UNCHANGED <<freeListHead, freeListRefs, held>>
        /\ freeListNext' = [freeListNext EXCEPT ![n] = c.next] /\ Goto(t, r)
    BY DEF PushNext
  <1>4. /\ r \in CallType /\ r.pc = "push_refs" /\ r.node = n
        /\ r.next = c.next
    BY <1>1 DEF CallType, Points, Pushing
  <1>5. /\ th' \in [Threads -> CallType] /\ th'[t] = r
        /\ \A u \in Threads \ {t} : th'[u] = th[u]
    BY <1>1, <1>3, <1>4, Moves
  <1> HIDE DEF r, n
  <1>6. /\ freeListNext' \in [Nodes -> NodeOrNull] /\ freeListNext'[n] = c.next
        /\ \A m \in Nodes \ {n} : freeListNext'[m] = freeListNext[m]
    BY <1>1, <1>2, <1>3 DEF TypeOK, CallType
  <1>7. TypeOK'
    BY <1>1, <1>3, <1>5, <1>6 DEF TypeOK
  <1>8. Early(t, n) /\ Has(t, n)
    BY <1>2 DEF Early, Has, Adds, EarlyPoints, n
  <1>9. n \notin OnList /\ (\A u \in Threads : Has(u, n) => u = t)
    BY <1>1, <1>2, <1>8 DEF Placed, PlacedAt
  <1>10. Users(n) = {}
    BY <1>1, <1>2, <1>8, NoUsers DEF Counted, CountedAt
  <1>11. OnList' = OnList /\ \A m \in OnList : freeListNext'[m] = freeListNext[m]
    BY <1>1, <1>3, <1>6, <1>7, <1>9, OnListStays, OnListIsLeast
  <1>12. Placed' /\ Counted'
    BY <1>2, <1>3, <1>4, <1>5, <1>11, Quiet DEF At, EarlyPoints, Using, n
  <1>13. ASSUME NEW u \in Threads \ {t}
         PROVE  /\ At(u, "get_cas") =>
                     freeListNext'[th[u].got] = freeListNext[th[u].got]
                /\ th[u].pc \in {"push_refs", "push_cas"} =>
                     freeListNext'[th[u].node] = freeListNext[th[u].node]
    <2>1. CASE At(u, "get_cas")
      <3>1. th[u].got \in Nodes /\ th[u].got # n
        BY <1>1, <1>10, <2>1
           DEF TypeOK, CallsOK, CallType, At, Using, NodeOrNull, Users
      <3> QED  BY <1>6, <2>1, <3>1 DEF At
    <2>2. CASE th[u].pc \in {"push_refs", "push_cas"}
      <3>1. th[u].node \in Nodes /\ th[u].node # n
        BY <1>1, <1>9, <2>2
           DEF TypeOK, CallsOK, CallType, Pushing, NodeOrNull, Has, Adds
      <3> QED  BY <1>6, <2>2, <3>1 DEF At
    <2> QED  BY <2>1, <2>2
  <1>14. CallsOK'
    <2>1. n # null
      BY <1>2
    <2> QED
      BY <1>1, <1>2, <1>4, <1>5, <1>6, <1>13, <2>1, OtherCalls
         DEF Pushing, Using
  <1>15. Chained'
    BY <1>1, <1>3, <1>11, SameChain
  <1> QED  BY <1>7, <1>12, <1>14, <1>15 DEF IInv

\* Nobody but t has n.
Sole(t, n) == \A u \in Threads \ {t} : ~Has(u, n)

\* The reference of the list, if t alone may have n.
SoleRef(t, n) ==
    n \in OnList \/ Takes(t, n) \/ (Adds(t, n) /\ ~Early(t, n))

LEMMA SoleListRef ==
    ASSUME NEW t \in Threads, NEW n \in Nodes
    PROVE  /\ Sole(t, n) => (ListRef(n) <=> SoleRef(t, n))
           /\ Sole(t, n)' => (ListRef(n)' <=> SoleRef(t, n)')
  BY DEF Sole, ListRef, SoleRef, Has

LEMMA OthersKeep ==
    ASSUME NEW t \in Threads, NEW n \in Nodes,
           \A u \in Threads \ {t} : th'[u] = th[u] /\ held'[u] = held[u]
    PROVE  /\ \A u \in Threads \ {t} : /\ Takes(u, n)' <=> Takes(u, n)
                                       /\ Adds(u, n)'  <=> Adds(u, n)
                                       /\ Early(u, n)' <=> Early(u, n)
                                       /\ Has(u, n)'   <=> Has(u, n)
           /\ Sole(t, n)' <=> Sole(t, n)
  BY DEF Takes, Adds, Early, Has, At, Sole

LEMMA OwnerIsSole ==
    ASSUME NEW t \in Threads, NEW n \in Nodes, PlacedAt(n)
    PROVE  /\ Has(t, n) => Sole(t, n)
           /\ n \in OnList => Sole(t, n) /\ ~Has(t, n)
  BY DEF PlacedAt, Sole

\* Where a node of which t disposes alone is after a step.
LEMMA SoleHolds ==
    ASSUME NEW t \in Threads, NEW n \in Nodes, Sole(t, n)',
           ~(n \in held'[t] /\ (Takes(t, n)' \/ Adds(t, n)')),
           Has(t, n)' => n \notin OnList'
                         /\ (freeListRefs'[n].should <=> Early(t, n)'),
           n \in OnList' => ~freeListRefs'[n].should,
           \/ Has(t, n)'
           \/ n \in OnList'
           \/ freeListRefs'[n].should /\ freeListRefs'[n].count > 0,
           IsFiniteSet(Users(n)'),
           freeListRefs'[n].count = Cardinality(Users(n)')
                                      + (IF SoleRef(t, n)' THEN 1 ELSE 0),
           Early(t, n)' => freeListRefs'[n].count = 0
    PROVE  PlacedAt(n)' /\ CountedAt(n)'
  <1>1. \A u \in Threads \ {t} : ~Has(u, n)' /\ ~Early(u, n)'
    BY DEF Sole, Has, Early
  <1>2. PlacedAt(n)'
    BY <1>1 DEF PlacedAt, Has
  <1>3. CountedAt(n)'
    BY <1>1, SoleListRef DEF CountedAt
  <1> QED  BY <1>2, <1>3

\* A block is given back: added by t, or left to whoever still uses it.
LEMMA AddHolds ==
    ASSUME IInv, NEW t \in Threads, NEW n \in Nodes, Add(t, n)
    PROVE  IInv'
  <1> DEFINE c == th[t]
             k == freeListRefs[n].count
             s == freeListRefs[n].should
             r == IF LastReference(freeListRefs[n])
                  THEN [Idle EXCEPT !.pc = "push_load", !.node = n] ELSE Idle
  <1>1. TypeOK /\ CallsOK /\ Chained /\ Placed /\ Counted /\ c \in CallType
    BY DEF IInv, TypeOK
  <1>2. /\ c.pc = "idle" /\ n \in held[t] /\ c.node = null
        /\ UNCHANGED <<freeListHead, freeListNext>>
        /\ held' = [held EXCEPT ![t] = @ \ {n}] /\ Goto(t, r)
    BY <1>1 DEF Add, At, CallsOK, Pushing
  <1>3. /\ k \in Nat /\ s \in BOOLEAN
        /\ freeListRefs[n] = [count |-> k, should |-> s]
    BY <1>1 DEF TypeOK, RefsType
  <1>4. /\ freeListRefs' \in [Nodes -> RefsType]
        /\ freeListRefs'[n] = [count |-> k, should |-> ~s]
        /\ \A m \in Nodes \ {n} : freeListRefs'[m] = freeListRefs[m]
    BY <1>1, <1>3 DEF Add, TypeOK, RefsType
  <1>5. /\ r \in CallType /\ r.pc \in {"idle", "push_load"}
        /\ LastReference(freeListRefs[n]) => r.pc = "push_load" /\ r.node = n
        /\ ~LastReference(freeListRefs[n]) => r.pc = "idle" /\ r.node = null
    BY DEF CallType, Points, Pushing, Idle, Refs, RefsType, NodeOrNull
  <1>6. LastReference(freeListRefs[n]) <=> k = 0 /\ ~s
    <2> HIDE DEF k, s
    <2>1. [count |-> k, should |-> s] = [count |-> 0, should |-> FALSE]
            <=> k = 0 /\ s = FALSE
      OBVIOUS
    <2> QED  BY <1>3, <2>1 DEF LastReference, Refs
  <1>7. /\ th' \in [Threads -> CallType] /\ th'[t] = r
        /\ \A u \in Threads \ {t} : th'[u] = th[u]
    BY <1>1, <1>2, <1>5, Moves
  <1>8. /\ held' \in [Threads -> SUBSET Nodes] /\ held'[t] = held[t] \ {n}
        /\ \A u \in Threads \ {t} : held'[u] = held[u]
    BY <1>1, <1>2 DEF TypeOK
  <1> HIDE DEF r, k, s
  <1>9. TypeOK'
    BY <1>1, <1>2, <1>4, <1>7, <1>8 DEF TypeOK
  <1>10. OnList' = OnList
    BY <1>1, <1>2, <1>9, OnListStays
  <1>11. Has(t, n) /\ ~Takes(t, n) /\ ~Adds(t, n) /\ ~Early(t, n)
    BY <1>2 DEF Has, Takes, Adds, Early, At
  <1>12. n \notin OnList /\ ~s /\ Sole(t, n)
    BY <1>1, <1>11, OwnerIsSole DEF Placed, PlacedAt, s
  <1>13. Sole(t, n)'
    BY <1>7, <1>8, <1>12, OthersKeep
  <1>14. Users(n)' = Users(n)
    BY <1>2, <1>5, <1>7, UsersSame DEF Using
  <1>15. IsFiniteSet(Users(n)) /\ k = Cardinality(Users(n)) /\ k \in Nat
    BY <1>1, <1>3, <1>11, <1>12, SoleListRef, NoUsers
       DEF Counted, CountedAt, SoleRef, k
  <1>16. /\ n \notin held'[t] /\ ~Takes(t, n)'
         /\ Has(t, n)' <=> k = 0
         /\ Adds(t, n)' <=> k = 0
         /\ Early(t, n)' <=> k = 0
    BY <1>5, <1>6, <1>7, <1>8, <1>12
       DEF Has, Takes, Adds, Early, EarlyPoints, At
  <1>17. PlacedAt(n)' /\ CountedAt(n)'
    <2>1. freeListRefs'[n].should /\ freeListRefs'[n].count = k
      <3>1. PICK up : up = ~s
        OBVIOUS
      <3>2. freeListRefs'[n] = [count |-> k, should |-> up]
        BY <1>4, <3>1
      <3>3. freeListRefs'[n].should = up /\ freeListRefs'[n].count = k
        BY <3>2
      <3> QED  BY <1>12, <3>1, <3>3
    <2>2. ~SoleRef(t, n)' /\ n \notin OnList'
      BY <1>10, <1>12, <1>16 DEF SoleRef
    <2>3. Has(t, n)' \/ freeListRefs'[n].count > 0
      BY <1>15, <1>16, <2>1
    <2>4. /\ IsFiniteSet(Users(n)')
          /\ freeListRefs'[n].count = Cardinality(Users(n)')
                                        + (IF SoleRef(t, n)' THEN 1 ELSE 0)
      BY <1>14, <1>15, <2>1, <2>2
    <2> QED
      BY <1>13, <1>16, <2>1, <2>2, <2>3, <2>4, SoleHolds
  <1>18. AboutOne(t, n)
    BY <1>2, <1>4, <1>5, <1>7, <1>8, <1>10 DEF AboutOne, Using
  <1>19. Placed' /\ Counted'
    BY <1>1, <1>17, <1>18, OneNode
  <1>20. CallsOK'
    BY <1>1, <1>2, <1>5, <1>7, OtherCalls DEF Pushing, Using
  <1>21. Chained'
    BY <1>1, <1>2, <1>10, SameChain
  <1> QED  BY <1>9, <1>19, <1>20, <1>21 DEF IInv

LEMMA RefsWritten ==
    ASSUME TypeOK, NEW n \in Nodes, NEW k \in Nat, NEW up \in BOOLEAN,
           freeListRefs' = [freeListRefs EXCEPT ![n] = [count |-> k, should |-> up]]
    PROVE  /\ freeListRefs' \in [Nodes -> RefsType]
           /\ freeListRefs'[n].count = k /\ freeListRefs'[n].should = up
           /\ \A m \in Nodes \ {n} : freeListRefs'[m] = freeListRefs[m]
  <1>1. [count |-> k, should |-> up] \in RefsType
    BY DEF RefsType
  <1>2. freeListRefs'[n] = [count |-> k, should |-> up]
    BY DEF TypeOK
  <1>3. freeListRefs'[n].count = k /\ freeListRefs'[n].should = up
    BY <1>2
  <1> QED  BY <1>1, <1>3 DEF TypeOK

LEMMA RefsParts ==
    ASSUME TypeOK, NEW n \in Nodes
    PROVE  /\ freeListRefs[n].count \in Nat /\ freeListRefs[n].should \in BOOLEAN
           /\ freeListRefs[n] = [count |-> freeListRefs[n].count,
                                 should |-> freeListRefs[n].should]
           /\ \A k, up : freeListRefs[n] = Refs(k, up) <=>
                freeListRefs[n].count = k /\ freeListRefs[n].should = up
  <1>1. /\ freeListRefs[n].count \in Nat /\ freeListRefs[n].should \in BOOLEAN
        /\ freeListRefs[n] = [count |-> freeListRefs[n].count,
                              should |-> freeListRefs[n].should]
    BY DEF TypeOK, RefsType
  <1>2. ASSUME NEW k, NEW up
        PROVE  freeListRefs[n] = Refs(k, up) <=>
                 freeListRefs[n].count = k /\ freeListRefs[n].should = up
    <2>1. PICK c, s : c = freeListRefs[n].count /\ s = freeListRefs[n].should
      OBVIOUS
    <2>2. [count |-> c, should |-> s] = [count |-> k, should |-> up]
            <=> c = k /\ s = up
      <3>1. ASSUME [count |-> c, should |-> s] = [count |-> k, should |-> up]
            PROVE  c = k /\ s = up
        <4>1. /\ [count |-> c, should |-> s].count = [count |-> k, should |-> up].count
              /\ [count |-> c, should |-> s].should = [count |-> k, should |-> up].should
          BY <3>1
        <4> QED  BY <4>1
      <3> QED  BY <3>1
    <2> QED  BY <1>1, <2>1, <2>2 DEF Refs
  <1> QED  BY <1>1, <1>2

LEMMA RefsAre ==
    ASSUME TypeOK, NEW n \in Nodes, NEW k \in Nat, NEW up \in BOOLEAN
    PROVE  freeListRefs[n] = Refs(k, up) <=>
             freeListRefs[n].count = k /\ (freeListRefs[n].should <=> up)
  <1>1. \A l, s : freeListRefs[n] = Refs(l, s) <=>
          freeListRefs[n].count = l /\ freeListRefs[n].should = s
    BY RefsParts
  <1>2. freeListRefs[n] = Refs(k, up) <=>
          freeListRefs[n].count = k /\ freeListRefs[n].should = up
    BY <1>1, Zenon
  <1>3. freeListRefs[n].should \in BOOLEAN
    BY RefsParts
  <1>4. freeListRefs[n].should = up <=> (freeListRefs[n].should <=> up)
    BY <1>3
  <1> QED  BY <1>2, <1>4, Zenon

LEMMA PushDoneCall ==
    ASSUME TypeOK, NEW t \in Threads
    PROVE  /\ PushDone(t) \in CallType /\ PushDone(t).node = null
           /\ PushDone(t).pc \in {"idle", "get_refs"}
           /\ PushDone(t).pc = "get_refs" => PushDone(t).got # null
  <1>1. th[t].head \in NodeOrNull
    BY DEF TypeOK, CallType
  <1> QED
    BY <1>1 DEF PushDone, CallType, Points, Idle, Refs, RefsType, NodeOrNull

\* A step of t about a node of which t disposes alone: the call becomes r, the
\* node has k references and its flag is up.
SoleAfter(t, n, r, k, up) ==
    /\ r \in CallType /\ Goto(t, r) /\ k \in Nat /\ up \in BOOLEAN
    /\ freeListRefs' = [freeListRefs EXCEPT ![n] = [count |-> k, should |-> up]]
    /\ held' \in [Threads -> SUBSET Nodes]
    /\ \A u \in Threads \ {t} : held'[u] = held[u]
    /\ \A m \in Nodes \ {n} : m \in held'[t] <=> m \in held[t]
    /\ \A m \in Nodes \ {n} : m \in OnList' <=> m \in OnList
    /\ freeListNext' = freeListNext /\ freeListHead' \in NodeOrNull
    /\ Chained'

CallAfter(t, n, r) ==
    /\ Sole(t, n) /\ th[t].node \in {n, null} /\ r.node \in {n, null}
    /\ th[t].pc \in Using => th[t].got = n
    /\ r.pc \in Using => r.got = n
    /\ r.node # null <=> r.pc \in Pushing
    /\ r.pc \notin {"get_acquire", "get_cas"}
    /\ r.pc = "get_refs" => r.got # null
    /\ r.pc \in {"push_refs", "push_cas"} => r.next = freeListNext[r.node]

NodeAfter(t, n, r, k, up) ==
    /\ ~(n \in held'[t] /\ (r.pc = "get_done" \/ r.pc \in Pushing))
    /\ n \in held'[t] \/ r.pc = "get_done" \/ r.pc \in Pushing =>
         n \notin OnList' /\ (up <=> r.pc \in EarlyPoints)
    /\ n \in OnList' => ~up
    /\ \/ n \in held'[t] \/ r.pc = "get_done" \/ r.pc \in Pushing
       \/ n \in OnList'
       \/ up /\ k > 0
    /\ IsFiniteSet(Users(n)')
    /\ k = Cardinality(Users(n)')
             + (IF \/ n \in OnList' \/ r.pc = "get_done"
                   \/ r.pc \in Pushing \ EarlyPoints THEN 1 ELSE 0)
    /\ r.pc \in EarlyPoints => k = 0

LEMMA SoleAfterHolds ==
    ASSUME IInv, NEW t \in Threads, NEW n \in Nodes, NEW r, NEW k, NEW up,
           SoleAfter(t, n, r, k, up), CallAfter(t, n, r),
           NodeAfter(t, n, r, k, up)
    PROVE  IInv'
  <1>1. TypeOK /\ CallsOK /\ Chained /\ Placed /\ Counted
    BY DEF IInv
  <1>2. /\ freeListRefs' \in [Nodes -> RefsType]
        /\ freeListRefs'[n].count = k /\ freeListRefs'[n].should = up
        /\ \A m \in Nodes \ {n} : freeListRefs'[m] = freeListRefs[m]
    BY <1>1, RefsWritten DEF SoleAfter
  <1>3. /\ th' \in [Threads -> CallType] /\ th'[t] = r
        /\ \A u \in Threads \ {t} : th'[u] = th[u] /\ held'[u] = held[u]
    BY <1>1, Moves DEF SoleAfter
  <1>4. TypeOK'
    BY <1>1, <1>2, <1>3 DEF TypeOK, SoleAfter
  <1>5. n # null
    OBVIOUS
  <1>6. CallsOK'
    BY <1>1, <1>3, <1>5, OtherCalls DEF Using, CallAfter, SoleAfter
  <1>7. /\ Takes(t, n)' <=> r.pc = "get_done"
        /\ Adds(t, n)'  <=> r.pc \in Pushing
        /\ Early(t, n)' <=> r.pc \in EarlyPoints
    BY <1>3, <1>5
       DEF Takes, Adds, Early, At, Using, EarlyPoints, Pushing, CallAfter
  <1>8. Has(t, n)' <=> n \in held'[t] \/ r.pc = "get_done" \/ r.pc \in Pushing
    BY <1>7 DEF Has
  <1>9. SoleRef(t, n)' <=> \/ n \in OnList' \/ r.pc = "get_done"
                           \/ r.pc \in Pushing \ EarlyPoints
    BY <1>7 DEF SoleRef
  <1>10. Sole(t, n)'
    BY <1>3, OthersKeep DEF CallAfter
  <1>11. PlacedAt(n)' /\ CountedAt(n)'
    BY <1>2, <1>7, <1>8, <1>9, <1>10, SoleHolds DEF NodeAfter
  <1>12. AboutOne(t, n)
    BY <1>2, <1>3 DEF AboutOne, SoleAfter, CallAfter
  <1>13. Placed' /\ Counted'
    BY <1>1, <1>11, <1>12, OneNode
  <1>14. Chained'
    BY DEF SoleAfter
  <1> QED  BY <1>4, <1>6, <1>13, <1>14 DEF IInv


\* What the adder of a node knows.
LEMMA Adder ==
    ASSUME IInv, NEW t \in Threads, th[t].pc \in Pushing
    PROVE  /\ th[t].node \in Nodes /\ Sole(t, th[t].node)
           /\ th[t].node \notin OnList /\ th[t].node \notin held[t]
           /\ freeListRefs[th[t].node].should <=> th[t].pc \in EarlyPoints
           /\ th[t].pc \in EarlyPoints => Users(th[t].node) = {}
           /\ IsFiniteSet(Users(th[t].node))
           /\ Cardinality(Users(th[t].node)) \in Nat
           /\ freeListRefs[th[t].node].count = Cardinality(Users(th[t].node))
                + (IF th[t].pc \in EarlyPoints THEN 0 ELSE 1)
  <1>1. PICK n : n = th[t].node
    OBVIOUS
  <1>2. n \in Nodes
    BY <1>1 DEF IInv, TypeOK, CallType, CallsOK, NodeOrNull
  <1>3. /\ Has(t, n) /\ Adds(t, n) /\ ~Takes(t, n)
        /\ Early(t, n) <=> th[t].pc \in EarlyPoints
    BY <1>1 DEF Has, Adds, Early, Takes, At, Pushing
  <1>4. /\ Sole(t, n) /\ n \notin OnList /\ n \notin held[t]
        /\ freeListRefs[n].should <=> th[t].pc \in EarlyPoints
    BY <1>2, <1>3, OwnerIsSole DEF IInv, Placed, PlacedAt
  <1>5. ListRef(n) <=> ~(th[t].pc \in EarlyPoints)
    BY <1>2, <1>3, <1>4, SoleListRef DEF SoleRef
  <1>6. /\ IsFiniteSet(Users(n)) /\ Cardinality(Users(n)) \in Nat
        /\ freeListRefs[n].count = Cardinality(Users(n))
             + (IF th[t].pc \in EarlyPoints THEN 0 ELSE 1)
        /\ Early(t, n) => freeListRefs[n].count = 0
        /\ freeListRefs[n].count = 0 => Users(n) = {}
    BY <1>2, <1>5, NoUsers DEF IInv, Counted, CountedAt
  <1> QED  BY <1>1, <1>2, <1>3, <1>4, <1>6

LEMMA PushRefsHolds ==
    ASSUME IInv, NEW t \in Threads, PushRefs(t)
    PROVE  IInv'
  <1> DEFINE c == th[t]
  <1>1. TypeOK /\ CallsOK /\ Chained /\ c \in CallType
    BY DEF IInv, TypeOK
  <1>0. PICK n, r : n = c.node /\ r = [c EXCEPT !.pc = "push_cas"]
    OBVIOUS
  <1>2. /\ c.pc = "push_refs" /\ Goto(t, r)
        /\ UNCHANGED <<freeListHead, freeListNext, held>>
        /\ freeListRefs' = [freeListRefs EXCEPT
                              ![n] = [count |-> 1, should |-> FALSE]]
    BY <1>0 DEF PushRefs, At, PushedRefs, Refs
  <1>3. /\ n \in Nodes /\ Sole(t, n) /\ n \notin OnList /\ n \notin held[t]
        /\ Users(n) = {} /\ c.next = freeListNext[n]
    BY <1>0, <1>1, <1>2, Adder DEF Pushing, EarlyPoints, CallsOK
  <1>4. /\ r \in CallType /\ r.pc = "push_cas" /\ r.node = n /\ r.next = c.next
    BY <1>0, <1>1 DEF CallType, Points, Pushing
  <1>5. /\ th'[t] = r /\ \A u \in Threads \ {t} : th'[u] = th[u]
    BY <1>1, <1>2, <1>4, Moves
  <1>6. TypeOK'
    BY <1>1, <1>2, <1>3, <1>4, Moves, RefsWritten DEF TypeOK
  <1>7. OnList' = OnList /\ Chained'
    BY <1>1, <1>2, <1>6, OnListStays, SameChain
  <1>8. Users(n)' = {}
    BY <1>2, <1>3, <1>4, <1>5, UsersSame DEF Using
  <1>9. IsFiniteSet(Users(n)') /\ Cardinality(Users(n)') = 0
    BY <1>8, FS_EmptySet
  <1>10. SoleAfter(t, n, r, 1, FALSE)
    BY <1>1, <1>2, <1>4, <1>7 DEF SoleAfter, TypeOK
  <1>11. CallAfter(t, n, r)
    BY <1>0, <1>2, <1>3, <1>4 DEF CallAfter, Using, Pushing
  <1>12. NodeAfter(t, n, r, 1, FALSE)
    BY <1>2, <1>3, <1>4, <1>7, <1>9 DEF NodeAfter, Pushing, EarlyPoints
  <1> QED  BY <1>3, <1>10, <1>11, <1>12, SoleAfterHolds

\* The node that was added becomes the head.
LEMMA PushCasHolds ==
    ASSUME IInv, NEW t \in Threads, PushCas(t), freeListHead = th[t].next,
           freeListHead' = th[t].node, Goto(t, PushDone(t))
    PROVE  IInv'
  <1> DEFINE c == th[t]
  <1>1. TypeOK /\ CallsOK /\ Chained /\ c \in CallType
    BY DEF IInv, TypeOK
  <1>0. PICK n, r, k :
          n = c.node /\ r = PushDone(t) /\ k = freeListRefs[n].count
    OBVIOUS
  <1>2. /\ c.pc = "push_cas" /\ UNCHANGED <<freeListNext, freeListRefs, held>>
        /\ freeListHead' = n /\ Goto(t, r)
    BY <1>0 DEF PushCas, At
  <1>3. /\ n \in Nodes /\ Sole(t, n) /\ n \notin OnList /\ n \notin held[t]
        /\ ~freeListRefs[n].should /\ freeListNext[n] = freeListHead
        /\ IsFiniteSet(Users(n)) /\ Cardinality(Users(n)) \in Nat
        /\ k = Cardinality(Users(n)) + 1
    BY <1>0, <1>1, <1>2, Adder DEF Pushing, EarlyPoints, CallsOK
  <1>4. /\ r \in CallType /\ r.pc \in {"idle", "get_refs"} /\ r.node = null
        /\ r.pc = "get_refs" => r.got # null
    BY <1>0, <1>1, PushDoneCall
  <1>5. /\ k \in Nat
        /\ freeListRefs' = [freeListRefs EXCEPT ![n] = [count |-> k, should |-> FALSE]]
    <2>1. k \in Nat
      BY <1>3
    <2>2. freeListRefs[n].should = FALSE
      BY <1>1, <1>3, RefsParts
    <2>3. freeListRefs[n] = [count |-> freeListRefs[n].count,
                             should |-> freeListRefs[n].should]
      BY <1>1, <1>3, RefsParts
    <2>4. freeListRefs[n] = [count |-> k, should |-> FALSE]
      BY <1>0, <2>2, <2>3, Zenon
    <2> QED  BY <1>1, <1>2, <1>3, <2>1, <2>4 DEF TypeOK
  <1>6. OnList' = OnList \cup {n}
    BY <1>1, <1>2, <1>3, OnListPushed
  <1>7. Chained'
    <2>1. /\ freeListHead \in OnList \cup {null}
          /\ \A m \in OnList : freeListNext[m] \in OnList \cup {null}
      BY <1>1, OnListIsLeast DEF Closed
    <2>2. \A m \in OnList' : freeListNext'[m] \in Nodes =>
                               freeListNext'[m] # freeListHead'
      BY <1>2, <1>3, <1>6, <2>1
    <2>3. \A l, m \in OnList' : freeListNext'[l] \in Nodes
            /\ freeListNext'[l] = freeListNext'[m] => l = m
      BY <1>1, <1>2, <1>3, <1>6 DEF Chained
    <2> QED  BY <2>2, <2>3 DEF Chained
  <1>8. th'[t] = r /\ \A u \in Threads \ {t} : th'[u] = th[u]
    BY <1>1, <1>2, <1>4, Moves
  <1>9. Users(n)' = Users(n)
    BY <1>2, <1>3, <1>4, <1>8, UsersSame DEF Using
  <1>10. SoleAfter(t, n, r, k, FALSE)
    BY <1>1, <1>2, <1>3, <1>4, <1>5, <1>6, <1>7
       DEF SoleAfter, TypeOK, NodeOrNull
  <1>11. CallAfter(t, n, r)
    BY <1>0, <1>2, <1>3, <1>4 DEF CallAfter, Using, Pushing
  <1>12. NodeAfter(t, n, r, k, FALSE)
    BY <1>2, <1>3, <1>4, <1>6, <1>9 DEF NodeAfter, Pushing, EarlyPoints
  <1> QED  BY <1>3, <1>10, <1>11, <1>12, SoleAfterHolds

\* After a failed push the node is left behind, or pushed again if nobody
\* else uses it.
LEMMA PushFailedHolds ==
    ASSUME IInv, NEW t \in Threads, PushFailed(t)
    PROVE  IInv'
  <1> DEFINE c == th[t]
  <1>1. TypeOK /\ CallsOK /\ Chained /\ c \in CallType
    BY DEF IInv, TypeOK
  <1>0. PICK n, k, r :
          /\ n = c.node /\ k = freeListRefs[n].count
          /\ r = IF PushAgain(freeListRefs[n])
                 THEN [c EXCEPT !.pc = "push_next"] ELSE PushDone(t)
    OBVIOUS
  <1>2. /\ c.pc = "push_failed" /\ UNCHANGED <<freeListHead, freeListNext, held>>
        /\ Goto(t, r)
        /\ freeListRefs' = [freeListRefs EXCEPT
                              ![n] = [count |-> k - 1,
                                      should |-> ~freeListRefs[n].should]]
    BY <1>0 DEF PushFailed, At, Refs
  <1>3. /\ n \in Nodes /\ Sole(t, n) /\ n \notin OnList /\ n \notin held[t]
        /\ ~freeListRefs[n].should
        /\ IsFiniteSet(Users(n)) /\ Cardinality(Users(n)) \in Nat
        /\ k = Cardinality(Users(n)) + 1
    BY <1>0, <1>1, <1>2, Adder DEF Pushing, EarlyPoints
  <1>4. freeListRefs[n].should = FALSE
    BY <1>1, <1>3, RefsParts
  <1>5. freeListRefs' = [freeListRefs EXCEPT
                           ![n] = [count |-> k - 1, should |-> TRUE]]
    BY <1>2, <1>4
  <1>6. PushAgain(freeListRefs[n]) <=> k = 1
    <2>1. freeListRefs[n] = Refs(1, FALSE) <=>
            freeListRefs[n].count = 1 /\ (freeListRefs[n].should <=> FALSE)
      BY <1>1, <1>3, RefsAre
    <2> QED  BY <1>0, <1>4, <2>1 DEF PushAgain
  <1>7. /\ r \in CallType
        /\ k = 1 => r.pc = "push_next" /\ r.node = n
        /\ k # 1 => /\ r.pc \in {"idle", "get_refs"} /\ r.node = null
                    /\ r.pc = "get_refs" => r.got # null
    <2>1. /\ [c EXCEPT !.pc = "push_next"] \in CallType
          /\ [c EXCEPT !.pc = "push_next"].pc = "push_next"
          /\ [c EXCEPT !.pc = "push_next"].node = n
      BY <1>0, <1>1 DEF CallType, Points, Pushing
    <2>2. CASE k = 1
      BY <1>0, <1>6, <2>1, <2>2
    <2>3. CASE k # 1
      BY <1>0, <1>1, <1>6, <2>3, PushDoneCall
    <2> QED  BY <2>2, <2>3
  <1>8. k - 1 \in Nat
    BY <1>3
  <1>9. th'[t] = r /\ \A u \in Threads \ {t} : th'[u] = th[u]
    BY <1>1, <1>2, <1>7, Moves
  <1>10. TypeOK'
    BY <1>1, <1>2, <1>3, <1>5, <1>7, <1>8, Moves, RefsWritten DEF TypeOK
  <1>11. OnList' = OnList /\ Chained'
    BY <1>1, <1>2, <1>10, OnListStays, SameChain
  <1>12. Users(n)' = Users(n)
    <2>1. th'[t].pc \notin Using /\ th[t].pc \notin Using
      BY <1>2, <1>7, <1>9 DEF Using
    <2> QED  BY <1>3, <1>9, <2>1, UsersSame
  <1>13. SoleAfter(t, n, r, k - 1, TRUE)
    BY <1>1, <1>2, <1>5, <1>7, <1>8, <1>11 DEF SoleAfter, TypeOK
  <1>14. CallAfter(t, n, r)
    <2>1. CASE k = 1
      BY <1>0, <1>2, <1>3, <1>7, <2>1 DEF CallAfter, Using, Pushing
    <2>2. CASE k # 1
      BY <1>0, <1>2, <1>3, <1>7, <2>2 DEF CallAfter, Using, Pushing
    <2> QED  BY <2>1, <2>2
  <1>15. NodeAfter(t, n, r, k - 1, TRUE)
    <2>1. CASE k = 1
      BY <1>2, <1>3, <1>7, <1>11, <1>12, <2>1 DEF NodeAfter, Pushing, EarlyPoints
    <2>2. CASE k # 1
      BY <1>2, <1>3, <1>7, <1>11, <1>12, <2>2 DEF NodeAfter, Pushing, EarlyPoints
    <2> QED  BY <2>1, <2>2
  <1> QED  BY <1>3, <1>13, <1>14, <1>15, SoleAfterHolds

\* A step of t that gets or gives up its reference of n, and nothing else.
CountAfter(t, n, r, k) ==
    /\ r \in CallType /\ Goto(t, r) /\ k \in Nat
    /\ freeListRefs' = [freeListRefs EXCEPT
                          ![n] = [count |-> k, should |-> freeListRefs[n].should]]
    /\ UNCHANGED <<freeListHead, freeListNext, held>>
    /\ th[t].node = null /\ r.node = null
    /\ th[t].pc # "get_done"
    /\ r.pc \in {"idle", "get_refs", "get_next"}
    /\ r.pc \in {"get_refs", "get_next"} => r.got # null
    /\ th[t].pc \in Using => th[t].got = n
    /\ r.pc \in Using => r.got = n
    /\ freeListRefs[n].count > 0
    /\ freeListRefs[n].should => k > 0
    /\ IsFiniteSet(Users(n)')
    /\ k = Cardinality(Users(n)') + (IF ListRef(n) THEN 1 ELSE 0)

LEMMA CountAfterHolds ==
    ASSUME IInv, NEW t \in Threads, NEW n \in Nodes, NEW r, NEW k,
           CountAfter(t, n, r, k)
    PROVE  IInv'
  <1>1. TypeOK /\ CallsOK /\ Chained /\ Placed /\ Counted
    BY DEF IInv
  <1>2. PICK s \in BOOLEAN : s = freeListRefs[n].should
    BY <1>1, RefsParts
  <1>3. /\ freeListRefs' \in [Nodes -> RefsType]
        /\ freeListRefs'[n].count = k /\ freeListRefs'[n].should = s
        /\ \A m \in Nodes \ {n} : freeListRefs'[m] = freeListRefs[m]
    BY <1>1, <1>2, RefsWritten DEF CountAfter
  <1>4. /\ th' \in [Threads -> CallType] /\ th'[t] = r
        /\ \A u \in Threads \ {t} : th'[u] = th[u]
    BY <1>1, Moves DEF CountAfter
  <1>5. TypeOK'
    BY <1>1, <1>3, <1>4 DEF TypeOK, CountAfter
  <1>6. OnList' = OnList /\ Chained'
    BY <1>1, <1>5, OnListStays, SameChain DEF CountAfter
  <1>7. CallsOK'
    BY <1>1, <1>4, OtherCalls DEF CountAfter, Using, Pushing
  <1>8. n # null
    OBVIOUS
  <1>9. \A u \in Threads : /\ Takes(u, n)' <=> Takes(u, n)
                           /\ Adds(u, n)'  <=> Adds(u, n)
                           /\ Early(u, n)' <=> Early(u, n)
                           /\ Has(u, n)'   <=> Has(u, n)
    BY <1>4, <1>8 DEF CountAfter, Takes, Adds, Early, Has, At
  <1>10. ListRef(n)' <=> ListRef(n)
    BY <1>6, <1>9 DEF ListRef
  <1>11. PlacedAt(n)
    BY <1>1 DEF Placed
  <1>12. PlacedAt(n)'
    <2>1. /\ \A u, v \in Threads : Has(u, n)' /\ Has(v, n)' => u = v
          /\ \A u \in Threads : ~(n \in held'[u] /\ (Takes(u, n)' \/ Adds(u, n)'))
      BY <1>9, <1>11 DEF PlacedAt, CountAfter
    <2>2. /\ \A u \in Threads : Has(u, n)' =>
               n \notin OnList' /\ (freeListRefs'[n].should <=> Early(u, n)')
          /\ n \in OnList' => ~freeListRefs'[n].should
      BY <1>2, <1>3, <1>6, <1>9, <1>11 DEF PlacedAt
    <2>3. \/ \E u \in Threads : Has(u, n)'
          \/ n \in OnList'
          \/ freeListRefs'[n].should /\ freeListRefs'[n].count > 0
      BY <1>2, <1>3, <1>6, <1>9, <1>11 DEF PlacedAt, CountAfter
    <2> QED  BY <2>1, <2>2, <2>3 DEF PlacedAt
  <1>13. CountedAt(n)'
    <2>1. \A u \in Threads : ~Early(u, n)'
      BY <1>1, <1>9 DEF Counted, CountedAt, CountAfter
    <2> QED  BY <1>3, <1>10, <2>1 DEF CountedAt, CountAfter
  <1>14. AboutOne(t, n)
    BY <1>3, <1>4, <1>6 DEF AboutOne, CountAfter
  <1>15. Placed' /\ Counted'
    BY <1>1, <1>12, <1>13, <1>14, OneNode
  <1> QED  BY <1>5, <1>6, <1>7, <1>15 DEF IInv

\* A write of the count alone.
LEMMA CountWritten ==
    ASSUME TypeOK, NEW n \in Nodes, NEW k
    PROVE  [freeListRefs[n] EXCEPT !.count = k]
             = [count |-> k, should |-> freeListRefs[n].should]
  <1>1. PICK c, s : c = freeListRefs[n].count /\ s = freeListRefs[n].should
    OBVIOUS
  <1>2. freeListRefs[n] = [count |-> c, should |-> s]
    BY <1>1, RefsParts
  <1>3. [[count |-> c, should |-> s] EXCEPT !.count = k] = [count |-> k, should |-> s]
    OBVIOUS
  <1> QED  BY <1>1, <1>2, <1>3, Zenon

\* Whoever finds the count as he read it gets a reference.
LEMMA GetAcquireHolds ==
    ASSUME IInv, NEW t \in Threads, GetAcquire(t), Unchanged(t),
           freeListRefs' = [freeListRefs EXCEPT ![th[t].got].count = @ + 1],
           Goto(t, [th[t] EXCEPT !.pc = "get_next", !.refs = Refs(0, FALSE)])
    PROVE  IInv'
  <1> DEFINE c == th[t]
  <1>1. TypeOK /\ CallsOK /\ Placed /\ Counted /\ c \in CallType
    BY DEF IInv, TypeOK
  <1>2. PICK n, k, r : /\ n = c.got /\ k = freeListRefs[n].count + 1
                       /\ r = [c EXCEPT !.pc = "get_next", !.refs = Refs(0, FALSE)]
    OBVIOUS
  <1>3. /\ c.pc = "get_acquire" /\ n \in Nodes /\ c.node = null
        /\ freeListRefs[n] = c.refs /\ c.refs.count > 0 /\ Goto(t, r)
        /\ UNCHANGED <<freeListHead, freeListNext, held>>
    BY <1>1, <1>2
       DEF GetAcquire, At, CallsOK, CallType, NodeOrNull, Unchanged, Pushing
  <1>4. /\ freeListRefs[n].count \in Nat /\ freeListRefs[n].count > 0
        /\ k \in Nat /\ k > 0
    <2>1. freeListRefs[n].count = c.refs.count /\ freeListRefs[n].count \in Nat
      BY <1>1, <1>3, RefsParts
    <2> QED  BY <1>2, <1>3, <2>1
  <1>5. freeListRefs' = [freeListRefs EXCEPT
                           ![n] = [count |-> k, should |-> freeListRefs[n].should]]
    <2>1. freeListRefs' = [freeListRefs EXCEPT
                             ![n] = [freeListRefs[n] EXCEPT !.count = k]]
      BY <1>1, <1>2, <1>3 DEF TypeOK
    <2> QED  BY <1>1, <1>3, <2>1, CountWritten, Zenon
  <1>6. /\ r \in CallType /\ r.pc = "get_next" /\ r.node = null /\ r.got = n
    BY <1>1, <1>2, <1>3 DEF CallType, Points, Using, Refs, RefsType
  <1>7. /\ th'[t] = r /\ \A u \in Threads \ {t} : th'[u] = th[u]
    BY <1>1, <1>2, <1>6, Moves
  <1>8. CountedAt(n)
    BY <1>1, <1>3 DEF Counted
  <1>9. /\ IsFiniteSet(Users(n)')
        /\ Cardinality(Users(n)') = Cardinality(Users(n)) + 1
        /\ Cardinality(Users(n)) \in Nat
    BY <1>3, <1>6, <1>7, <1>8, UsersJoined, NoUsers DEF Using
  <1>10. k = Cardinality(Users(n)') + (IF ListRef(n) THEN 1 ELSE 0)
    BY <1>2, <1>8, <1>9 DEF CountedAt
  <1>11. n # null
    BY <1>3
  <1>12. CountAfter(t, n, r, k)
    BY <1>3, <1>4, <1>5, <1>6, <1>9, <1>10, <1>11 DEF CountAfter, Using
  <1> QED  BY <1>3, <1>12, CountAfterHolds

\* The head is taken off, and its next is still the one that was read.
LEMMA GetCasHolds ==
    ASSUME IInv, NEW t \in Threads, GetCas(t), freeListHead = th[t].got,
           freeListHead' = th[t].next,
           Goto(t, [th[t] EXCEPT !.pc = "get_done", !.next = null])
    PROVE  IInv'
  <1> DEFINE c == th[t]
  <1>1. TypeOK /\ CallsOK /\ Chained /\ Placed /\ Counted /\ c \in CallType
    BY DEF IInv, TypeOK
  <1>2. PICK n, k, r : /\ n = c.got /\ k = freeListRefs[n].count
                       /\ r = [c EXCEPT !.pc = "get_done", !.next = null]
    OBVIOUS
  <1>3. /\ c.pc = "get_cas" /\ n \in Nodes /\ c.node = null
        /\ freeListHead = n /\ freeListHead' = freeListNext[n] /\ Goto(t, r)
        /\ UNCHANGED <<freeListRefs, freeListNext, held>>
    BY <1>1, <1>2 DEF GetCas, At, CallsOK, CallType, NodeOrNull, Pushing, Using
  <1>4. n \in OnList /\ OnList' = OnList \ {n}
    BY <1>1, <1>3, OnListPopped
  <1>5. Chained'
    <2>1. \A m \in OnList' : freeListNext'[m] \in Nodes =>
                               freeListNext'[m] # freeListHead'
      BY <1>1, <1>3, <1>4 DEF Chained
    <2>2. \A l, m \in OnList' : freeListNext'[l] \in Nodes
            /\ freeListNext'[l] = freeListNext'[m] => l = m
      BY <1>1, <1>3, <1>4 DEF Chained
    <2> QED  BY <2>1, <2>2 DEF Chained
  <1>6. /\ Sole(t, n) /\ n \notin held[t] /\ freeListRefs[n].should = FALSE
    <2>1. PlacedAt(n) /\ freeListRefs[n].should \in BOOLEAN
      BY <1>1, <1>3, RefsParts DEF Placed
    <2> QED  BY <1>3, <1>4, <2>1, OwnerIsSole DEF PlacedAt, Has
  <1>7. /\ r \in CallType /\ r.pc = "get_done" /\ r.node = null /\ r.got = n
    BY <1>1, <1>2, <1>3 DEF CallType, Points, Using, NodeOrNull
  <1>8. th'[t] = r /\ \A u \in Threads \ {t} : th'[u] = th[u]
    BY <1>1, <1>2, <1>7, Moves
  <1>9. Users(n)' = Users(n)
    <2>1. /\ th[t].pc \in Using /\ th'[t].pc \in Using
          /\ th'[t].got = th[t].got
      BY <1>2, <1>3, <1>7, <1>8 DEF Using
    <2> QED  BY <1>3, <1>8, <2>1, UsersSame
  <1>10. IsFiniteSet(Users(n)) /\ k \in Nat /\ k = Cardinality(Users(n)) + 1
    BY <1>1, <1>2, <1>3, <1>4, RefsParts DEF Counted, CountedAt, ListRef
  <1>11. freeListRefs' = [freeListRefs EXCEPT ![n] = [count |-> k, should |-> FALSE]]
    <2>1. freeListRefs[n] = [count |-> freeListRefs[n].count,
                             should |-> freeListRefs[n].should]
      BY <1>1, <1>3, RefsParts
    <2>2. freeListRefs[n] = [count |-> k, should |-> FALSE]
      BY <1>2, <1>6, <2>1, Zenon
    <2> QED  BY <1>1, <1>3, <2>2 DEF TypeOK
  <1>12. SoleAfter(t, n, r, k, FALSE)
    <2>1. freeListHead' \in NodeOrNull /\ held' \in [Threads -> SUBSET Nodes]
      BY <1>1, <1>3 DEF TypeOK
    <2>2. \A m \in Nodes \ {n} : m \in OnList' <=> m \in OnList
      BY <1>4
    <2> QED  BY <1>3, <1>5, <1>7, <1>10, <1>11, <2>1, <2>2 DEF SoleAfter
  <1>13. CallAfter(t, n, r)
    BY <1>2, <1>3, <1>6, <1>7 DEF CallAfter, Using, Pushing
  <1>14. NodeAfter(t, n, r, k, FALSE)
    BY <1>3, <1>4, <1>6, <1>7, <1>9, <1>10 DEF NodeAfter, Pushing, EarlyPoints
  <1> QED  BY <1>3, <1>12, <1>13, <1>14, SoleAfterHolds

\* The taker gives up his reference and the one of the list.
LEMMA GetDoneHolds ==
    ASSUME IInv, NEW t \in Threads, GetDone(t)
    PROVE  IInv'
  <1> DEFINE c == th[t]
  <1>1. TypeOK /\ CallsOK /\ Chained /\ Placed /\ Counted /\ c \in CallType
    BY DEF IInv, TypeOK
  <1>2. PICK n, k : n = c.got /\ k = freeListRefs[n].count - 2
    OBVIOUS
  <1>3. /\ c.pc = "get_done" /\ n \in Nodes /\ c.node = null
        /\ UNCHANGED <<freeListHead, freeListNext>> /\ Goto(t, Idle)
        /\ held' = [held EXCEPT ![t] = @ \cup {n}]
        /\ freeListRefs' = [freeListRefs EXCEPT ![n].count = @ - 2]
    BY <1>1, <1>2 DEF GetDone, At, CallsOK, CallType, NodeOrNull, Pushing, Using
  <1>4. Has(t, n) /\ Takes(t, n) /\ ~Adds(t, n)
    BY <1>2, <1>3 DEF Has, Takes, Adds, At
  <1>5. PlacedAt(n) /\ CountedAt(n)
    BY <1>1, <1>3 DEF Placed, Counted
  <1>6. Sole(t, n) /\ n \notin OnList /\ freeListRefs[n].should = FALSE
    <2>1. freeListRefs[n].should \in BOOLEAN
      BY <1>1, <1>3, RefsParts
    <2> QED  BY <1>3, <1>4, <1>5, <2>1, OwnerIsSole DEF PlacedAt, Early
  <1>7. /\ Idle \in CallType /\ Idle.pc = "idle" /\ Idle.node = null
    BY DEF CallType, Points, Idle, Refs, RefsType, NodeOrNull
  <1>8. th'[t] = Idle /\ \A u \in Threads \ {t} : th'[u] = th[u]
    BY <1>1, <1>3, <1>7, Moves
  <1>9. /\ IsFiniteSet(Users(n)') /\ Cardinality(Users(n)) \in Nat
        /\ Cardinality(Users(n)') = Cardinality(Users(n)) - 1
        /\ Cardinality(Users(n)) >= 1
    BY <1>2, <1>3, <1>5, <1>7, <1>8, UsersLeft, NoUsers DEF Using
  <1>10. k = Cardinality(Users(n)') /\ k \in Nat
    BY <1>2, <1>4, <1>5, <1>9 DEF CountedAt, ListRef
  <1>11. freeListRefs' = [freeListRefs EXCEPT ![n] = [count |-> k, should |-> FALSE]]
    <2>1. freeListRefs' = [freeListRefs EXCEPT
                             ![n] = [freeListRefs[n] EXCEPT !.count = k]]
      BY <1>1, <1>2, <1>3 DEF TypeOK
    <2>2. [freeListRefs[n] EXCEPT !.count = k]
            = [count |-> k, should |-> freeListRefs[n].should]
      BY <1>1, <1>3, CountWritten
    <2> QED  BY <1>6, <2>1, <2>2, Zenon
  <1>12. /\ held' \in [Threads -> SUBSET Nodes] /\ held'[t] = held[t] \cup {n}
         /\ \A u \in Threads \ {t} : held'[u] = held[u]
    BY <1>1, <1>3 DEF TypeOK
  <1>13. TypeOK'
    BY <1>1, <1>3, <1>7, <1>10, <1>11, <1>12, Moves, RefsWritten DEF TypeOK
  <1>14. OnList' = OnList /\ Chained'
    BY <1>1, <1>3, <1>13, OnListStays, SameChain
  <1>15. SoleAfter(t, n, Idle, k, FALSE)
    BY <1>1, <1>3, <1>7, <1>10, <1>11, <1>12, <1>14 DEF SoleAfter, TypeOK
  <1>16. CallAfter(t, n, Idle)
    BY <1>2, <1>3, <1>6, <1>7 DEF CallAfter, Using, Pushing
  <1>17. NodeAfter(t, n, Idle, k, FALSE)
    BY <1>6, <1>7, <1>9, <1>10, <1>12, <1>14 DEF NodeAfter, Pushing, EarlyPoints
  <1> QED  BY <1>3, <1>15, <1>16, <1>17, SoleAfterHolds

\* Who gives up the last reference of a node that was left behind adds it.
LEMMA GetReleaseHolds ==
    ASSUME IInv, NEW t \in Threads, GetRelease(t)
    PROVE  IInv'
  <1> DEFINE c == th[t]
  <1>1. TypeOK /\ CallsOK /\ Chained /\ Placed /\ Counted /\ c \in CallType
    BY DEF IInv, TypeOK
  <1>2. PICK n, k, r :
          /\ n = c.got /\ k = freeListRefs[n].count - 1
          /\ r = IF MustAdd(freeListRefs[n])
                 THEN [c EXCEPT !.pc = "push_load", !.node = n] ELSE PushDone(t)
    OBVIOUS
  <1>3. /\ c.pc = "get_release" /\ n \in Nodes /\ c.node = null
        /\ UNCHANGED <<freeListHead, freeListNext, held>> /\ Goto(t, r)
        /\ freeListRefs' = [freeListRefs EXCEPT ![n].count = @ - 1]
    BY <1>1, <1>2
       DEF GetRelease, At, CallsOK, CallType, NodeOrNull, Pushing, Using
  <1>4. PlacedAt(n) /\ CountedAt(n)
    BY <1>1, <1>3 DEF Placed, Counted
  <1>5. /\ [c EXCEPT !.pc = "push_load", !.node = n] \in CallType
        /\ [c EXCEPT !.pc = "push_load", !.node = n].pc = "push_load"
        /\ [c EXCEPT !.pc = "push_load", !.node = n].node = n
    BY <1>1, <1>3 DEF CallType, Points, Pushing, NodeOrNull
  <1>6. /\ PushDone(t) \in CallType /\ PushDone(t).node = null
        /\ PushDone(t).pc \in {"idle", "get_refs"}
        /\ PushDone(t).pc = "get_refs" => PushDone(t).got # null
    BY <1>1, PushDoneCall
  <1>7. /\ r \in CallType
        /\ MustAdd(freeListRefs[n]) => r.pc = "push_load" /\ r.node = n
        /\ ~MustAdd(freeListRefs[n]) => /\ r.pc \in {"idle", "get_refs"}
                                        /\ r.node = null
                                        /\ r.pc = "get_refs" => r.got # null
    BY <1>2, <1>5, <1>6
  <1>8. th'[t] = r /\ \A u \in Threads \ {t} : th'[u] = th[u]
    BY <1>1, <1>3, <1>7, Moves
  <1>9. /\ IsFiniteSet(Users(n)') /\ Cardinality(Users(n)) \in Nat
        /\ Cardinality(Users(n)') = Cardinality(Users(n)) - 1
        /\ Cardinality(Users(n)) >= 1
    <2>1. r.pc \notin Using
      BY <1>7 DEF Using
    <2> QED  BY <1>2, <1>3, <1>4, <1>8, <2>1, UsersLeft, NoUsers DEF Using
  <1>10. /\ k = Cardinality(Users(n)') + (IF ListRef(n) THEN 1 ELSE 0)
         /\ k \in Nat /\ freeListRefs[n].count > 0
    BY <1>2, <1>4, <1>9 DEF CountedAt
  <1>11. MustAdd(freeListRefs[n]) <=>
           freeListRefs[n].count = 1 /\ freeListRefs[n].should
    BY <1>1, <1>3, RefsAre DEF MustAdd
  <1>12. freeListRefs' = [freeListRefs EXCEPT
                            ![n] = [count |-> k, should |-> freeListRefs[n].should]]
    <2>1. freeListRefs' = [freeListRefs EXCEPT
                             ![n] = [freeListRefs[n] EXCEPT !.count = k]]
      BY <1>1, <1>2, <1>3 DEF TypeOK
    <2> QED  BY <1>1, <1>3, <2>1, CountWritten, Zenon
  <1>13. freeListRefs[n].count \in Nat /\ freeListRefs[n].should \in BOOLEAN
    BY <1>1, <1>3, RefsParts
  <1>14. CASE MustAdd(freeListRefs[n])
    <2>1. freeListRefs[n].should = TRUE /\ k = 0
      BY <1>2, <1>11, <1>13, <1>14
    <2>2. n \notin OnList /\ \A u \in Threads : ~Has(u, n)
      BY <1>4, <1>10, <2>1 DEF PlacedAt, CountedAt
    <2>3. freeListRefs' = [freeListRefs EXCEPT ![n] = [count |-> k, should |-> TRUE]]
      BY <1>12, <2>1
    <2>4. TypeOK'
      BY <1>1, <1>3, <1>7, <1>10, <2>3, Moves, RefsWritten DEF TypeOK
    <2>5. OnList' = OnList /\ Chained'
      BY <1>1, <1>3, <2>4, OnListStays, SameChain
    <2>6. Cardinality(Users(n)') = 0
      BY <1>2, <1>9, <1>10, <2>1
    <2>7. SoleAfter(t, n, r, k, TRUE)
      BY <1>1, <1>3, <1>7, <1>10, <2>3, <2>5 DEF SoleAfter, TypeOK
    <2>8. CallAfter(t, n, r)
      BY <1>2, <1>3, <1>7, <1>14, <2>2 DEF CallAfter, Using, Pushing, Sole
    <2>9. NodeAfter(t, n, r, k, TRUE)
      BY <1>3, <1>7, <1>9, <1>14, <2>1, <2>2, <2>5, <2>6
         DEF NodeAfter, Pushing, EarlyPoints, Has
    <2> QED  BY <1>3, <2>7, <2>8, <2>9, SoleAfterHolds
  <1>15. CASE ~MustAdd(freeListRefs[n])
    <2>1. freeListRefs[n].should => k > 0
      BY <1>2, <1>10, <1>11, <1>13, <1>15
    <2>2. CountAfter(t, n, r, k)
      BY <1>2, <1>3, <1>7, <1>9, <1>10, <1>12, <1>15, <2>1 DEF CountAfter, Using
    <2> QED  BY <1>3, <2>2, CountAfterHolds
  <1> QED  BY <1>14, <1>15

LEMMA NextHolds == IInv /\ [Next]_vars => IInv'
  <1> SUFFICES ASSUME IInv, [Next]_vars PROVE IInv'
    OBVIOUS
  <1>1. CASE UNCHANGED vars
    <2>1. UNCHANGED <<freeListHead, freeListRefs, freeListNext, held, th>>
      BY <1>1 DEF vars
    <2>2. OnList' = OnList
      BY <2>1 DEF OnList, Closed
    <2>3. TypeOK' /\ CallsOK' /\ Chained'
      BY <2>1, <2>2 DEF IInv, TypeOK, CallsOK, Chained, At
    <2>4. ASSUME NEW n \in Nodes PROVE PlacedAt(n)' /\ CountedAt(n)'
      <3>1. SameFor(n)
        BY <2>1, <2>2 DEF SameFor, Takes, Adds, Early, At, Users
      <3> QED  BY <3>1, SameForHolds DEF IInv, Placed, Counted
    <2> QED  BY <2>3, <2>4 DEF IInv, Placed, Counted
  <1>2. ASSUME NEW t \in Threads, TryGet(t) \/ Inside(t) PROVE IInv'
    <2>1. CASE PushCas(t)
      BY <2>1, PushCasHolds, ReadingHolds DEF PushCas, Reading
    <2>2. CASE GetAcquire(t)
      BY <2>2, GetAcquireHolds, ReadingHolds DEF GetAcquire, Reading
    <2>3. CASE GetCas(t)
      BY <2>3, GetCasHolds, ReadingHolds DEF GetCas, Reading
    <2>4. CASE PushLoad(t) \/ TryGet(t) \/ GetHead(t) \/ GetRefs(t) \/ GetNext(t)
      BY <2>4, ReadingHolds DEF Reading
    <2>5. CASE PushNext(t) \/ PushRefs(t) \/ PushFailed(t)
      BY <2>5, PushNextHolds, PushRefsHolds, PushFailedHolds
    <2>6. CASE GetDone(t) \/ GetRelease(t)
      BY <2>6, GetDoneHolds, GetReleaseHolds
    <2> QED  BY <1>2, <2>1, <2>2, <2>3, <2>4, <2>5, <2>6 DEF Inside
  <1>3. ASSUME NEW t \in Threads, NEW n \in Nodes, Add(t, n) PROVE IInv'
    BY <1>3, AddHolds
  <1> QED  BY <1>1, <1>2, <1>3 DEF Next

-----------------------------------------------------------------------------
(***************************************************************************)
(* The theorems                                                            *)
(***************************************************************************)

TakenIs ==
    /\ Taken \in [Threads -> SUBSET Nodes]
    /\ \A t \in Threads, n \in Nodes :
         n \in Taken[t] <=> n \in held[t] \/ Takes(t, n)

LEMMA TakenParts == IInv => TakenIs
  <1> SUFFICES ASSUME IInv PROVE TakenIs
    OBVIOUS
  <1>1. TypeOK /\ CallsOK
    BY DEF IInv
  <1>2. \A t \in Threads : At(t, "get_done") => th[t].got \in Nodes
    BY <1>1 DEF TypeOK, CallsOK, At, CallType, NodeOrNull, Using
  <1>3. \A t \in Threads : held[t] \in SUBSET Nodes
    BY <1>1 DEF TypeOK
  <1> QED  BY <1>2, <1>3 DEF Taken, Takes, TakenIs

Holders(n)   == {t \in Threads : n \in Taken[t]}
Elsewhere(n) == {p \in {"list", "left"} :
                   IF p = "list" THEN n \in OnList ELSE LeftBehind(n)}

LEMMA OnePlace == IInv => EveryBlockIsInOnePlace
  <1> SUFFICES ASSUME IInv, NEW n \in Nodes
               PROVE  Cardinality(Holders(n)) + Cardinality(Adders(n))
                        + Cardinality(Elsewhere(n)) = 1
    BY DEF EveryBlockIsInOnePlace, Holders, Elsewhere
  <1>1. PlacedAt(n)
    BY DEF IInv, Placed
  <1>2. \A t \in Threads : /\ t \in Holders(n) <=> n \in held[t] \/ Takes(t, n)
                           /\ t \in Adders(n) <=> Adds(t, n)
                           /\ ~(Takes(t, n) /\ Adds(t, n))
    BY TakenParts
       DEF TakenIs, Holders, Adders, Adds, Takes, At, IInv, CallsOK, Pushing
  <1>3. Holders(n) \subseteq Threads /\ Adders(n) \subseteq Threads
    BY DEF Holders, Adders
  <1>4. Cardinality({}) = 0 /\ \A x : Cardinality({x}) = 1
    BY FS_EmptySet, FS_Singleton
  <1>5. CASE \E t \in Threads : n \in held[t] \/ Takes(t, n)
    <2>1. PICK t \in Threads : n \in held[t] \/ Takes(t, n)
      BY <1>5
    <2>2. Holders(n) = {t} /\ Adders(n) = {}
      BY <1>1, <1>2, <1>3, <2>1 DEF PlacedAt, Has
    <2>3. n \notin OnList /\ ~LeftBehind(n)
      BY <1>1, <1>2, <2>1 DEF PlacedAt, Has, Early, LeftBehind
    <2>4. Elsewhere(n) = {}
      BY <2>3 DEF Elsewhere
    <2>5. /\ Cardinality(Holders(n)) = 1
          /\ Cardinality(Adders(n)) = 0
          /\ Cardinality(Elsewhere(n)) = 0
      BY <1>4, <2>2, <2>4, Zenon
    <2> QED  BY <2>5
  <1>6. CASE \E t \in Threads : Adds(t, n)
    <2>1. PICK t \in Threads : Adds(t, n)
      BY <1>6
    <2>2. Holders(n) = {} /\ Adders(n) = {t}
      BY <1>1, <1>2, <1>3, <2>1 DEF PlacedAt, Has
    <2>3. n \notin OnList /\ ~LeftBehind(n)
      BY <1>1, <1>2, <2>1, <2>2 DEF PlacedAt, Has, LeftBehind
    <2>4. Elsewhere(n) = {}
      BY <2>3 DEF Elsewhere
    <2>5. /\ Cardinality(Holders(n)) = 0
          /\ Cardinality(Adders(n)) = 1
          /\ Cardinality(Elsewhere(n)) = 0
      BY <1>4, <2>2, <2>4, Zenon
    <2> QED  BY <2>5
  <1>7. CASE \A t \in Threads : ~(n \in held[t] \/ Takes(t, n) \/ Adds(t, n))
    <2>1. Holders(n) = {} /\ Adders(n) = {}
      BY <1>2, <1>3, <1>7
    <2>2. n \in OnList <=> ~LeftBehind(n)
      BY <1>1, <1>7, <2>1 DEF PlacedAt, Has, LeftBehind
    <2>3. Elsewhere(n) = {"list"} \/ Elsewhere(n) = {"left"}
      BY <2>2 DEF Elsewhere
    <2>4. /\ Cardinality(Holders(n)) = 0
          /\ Cardinality(Adders(n)) = 0
          /\ Cardinality(Elsewhere(n)) = 1
      BY <1>4, <2>1, <2>3, Zenon
    <2> QED  BY <2>4
  <1> QED  BY <1>5, <1>6, <1>7

\* A block is in one place: with the thread that holds or takes it, with the
\* thread that adds it, on the list, or left behind for whoever drops the last
\* reference of it (the reference counts of FreeList).
THEOREM BlocksAreInOnePlace == Spec => []EveryBlockIsInOnePlace
  <1>1. Init => IInv
    BY InitHolds
  <1>2. IInv /\ [Next]_vars => IInv'
    BY NextHolds
  <1>3. IInv => EveryBlockIsInOnePlace
    BY OnePlace
  <1> QED  BY <1>1, <1>2, <1>3, PTL DEF Spec

-----------------------------------------------------------------------------
LEMMA TakenStays ==
    ASSUME IInv, IInv', NEW t \in Threads, held' = held,
           \A u \in Threads \ {t} : th'[u] = th[u],
           ~At(t, "get_done"), ~At(t, "get_done")'
    PROVE  Taken' = Taken
  <1>1. \A u \in Threads, n \in Nodes : Takes(u, n)' <=> Takes(u, n)
    BY DEF Takes, At
  <1>2. TakenIs /\ TakenIs'
    BY TakenParts, PTL
  <1>3. \A u \in Threads, n \in Nodes : n \in Taken'[u] <=> n \in Taken[u]
    BY <1>1, <1>2 DEF TakenIs
  <1> QED  BY <1>2, <1>3 DEF TakenIs

LEMMA StartsAsPool == Init => Pool!Init
  <1> SUFFICES ASSUME Init PROVE Pool!Init
    OBVIOUS
  <1>1. IInv
    BY InitHolds
  <1>2. \A t, u \in Threads : t # u => Taken[t] \cap Taken[u] = {}
    BY <1>1, TakenParts DEF TakenIs, IInv, Placed, PlacedAt, Has
  <1> QED  BY <1>1, <1>2, TakenParts DEF TakenIs, Pool!Init, Pool!Exclusive

LEMMA AddGivesBack ==
    ASSUME IInv, IInv', NEW t \in Threads, NEW n \in Nodes, Add(t, n)
    PROVE  Pool!GiveBack(t)
  <1>1. TypeOK
    BY DEF IInv
  <1>2. /\ At(t, "idle") /\ n \in held[t] /\ held'[t] = held[t] \ {n}
        /\ \A u \in Threads \ {t} : held'[u] = held[u]
    BY <1>1 DEF Add, TypeOK
  <1>3. PICK r : Goto(t, r) /\ r.pc \in {"idle", "push_load"}
    <2>1. CASE LastReference(freeListRefs[n])
      <3>1. [Idle EXCEPT !.pc = "push_load", !.node = n].pc = "push_load"
        BY DEF Idle
      <3> QED  BY <2>1, <3>1 DEF Add
    <2>2. CASE ~LastReference(freeListRefs[n])
      <3>1. Idle.pc = "idle"
        BY DEF Idle
      <3> QED  BY <2>2, <3>1 DEF Add
    <2> QED  BY <2>1, <2>2
  <1>4. th'[t] = r /\ \A u \in Threads \ {t} : th'[u] = th[u]
    BY <1>1, <1>3 DEF Goto, TypeOK
  <1>5. \A u \in Threads, m \in Nodes : Takes(u, m)' <=> Takes(u, m)
    BY <1>2, <1>3, <1>4 DEF Takes, At
  <1>6. TakenIs /\ TakenIs'
    BY TakenParts, PTL
  <1>7. \A m \in Nodes : ~Takes(t, m)
    BY <1>2 DEF Takes, At
  <1>8. n \in Taken[t] /\ Taken'[t] = Taken[t] \ {n}
    BY <1>2, <1>5, <1>6, <1>7 DEF TakenIs
  <1>9. \A u \in Threads \ {t} : Taken'[u] = Taken[u]
    BY <1>2, <1>5, <1>6 DEF TakenIs
  <1>10. Taken' = [Taken EXCEPT ![t] = @ \ {n}]
    BY <1>6, <1>8, <1>9 DEF TakenIs
  <1> QED  BY <1>8, <1>10 DEF Pool!GiveBack

LEMMA GetCasTakes ==
    ASSUME IInv, IInv', NEW t \in Threads, GetCas(t), freeListHead = th[t].got,
           freeListHead' = th[t].next,
           Goto(t, [th[t] EXCEPT !.pc = "get_done", !.next = null])
    PROVE  Pool!Take(t)
  <1>1. TypeOK /\ CallsOK /\ Placed /\ th[t] \in CallType
    BY DEF IInv, TypeOK
  <1>2. PICK n : n = th[t].got
    OBVIOUS
  <1>3. /\ At(t, "get_cas") /\ n \in Nodes /\ freeListHead = n /\ held' = held
    BY <1>1, <1>2 DEF GetCas, At, CallsOK, CallType, NodeOrNull, Using
  <1>4. /\ th'[t].pc = "get_done" /\ th'[t].got = n
        /\ \A u \in Threads \ {t} : th'[u] = th[u]
    BY <1>1, <1>2 DEF Goto, TypeOK, CallType
  <1>5. n \in OnList
    BY <1>1, <1>3, OnListIsLeast DEF Closed
  <1>6. TakenIs /\ TakenIs'
    BY TakenParts, PTL
  <1>7. \A u \in Threads : n \notin Taken[u]
    BY <1>1, <1>3, <1>5, TakenParts DEF TakenIs, Placed, PlacedAt, Has
  <1>8. \A u \in Threads, m \in Nodes :
          Takes(u, m)' <=> Takes(u, m) \/ (u = t /\ m = n)
    BY <1>3, <1>4 DEF Takes, At
  <1>9. Taken'[t] = Taken[t] \cup {n}
    BY <1>3, <1>6, <1>8 DEF TakenIs
  <1>10. \A u \in Threads \ {t} : Taken'[u] = Taken[u]
    BY <1>3, <1>6, <1>8 DEF TakenIs
  <1>11. Taken' = [Taken EXCEPT ![t] = @ \cup {n}]
    BY <1>6, <1>9, <1>10 DEF TakenIs
  <1>12. n \in Nodes \ Pool!HeldBySomeone
    BY <1>3, <1>7 DEF Pool!HeldBySomeone
  <1> QED  BY <1>11, <1>12 DEF Pool!Take

LEMMA GetDoneStutters ==
    ASSUME IInv, IInv', NEW t \in Threads, GetDone(t)
    PROVE  Taken' = Taken
  <1>1. TypeOK /\ CallsOK /\ th[t] \in CallType
    BY DEF IInv, TypeOK
  <1>2. PICK n : n = th[t].got
    OBVIOUS
  <1>3. /\ At(t, "get_done") /\ n \in Nodes /\ held'[t] = held[t] \cup {n}
        /\ \A u \in Threads \ {t} : held'[u] = held[u] /\ th'[u] = th[u]
        /\ th'[t].pc = "idle"
    BY <1>1, <1>2
       DEF GetDone, Goto, Idle, TypeOK, At, CallsOK, CallType, NodeOrNull, Using
  <1>4. \A m \in Nodes : /\ Takes(t, m) <=> m = n
                         /\ ~Takes(t, m)'
    BY <1>2, <1>3 DEF Takes, At
  <1>5. \A u \in Threads \ {t}, m \in Nodes : Takes(u, m)' <=> Takes(u, m)
    BY <1>3 DEF Takes, At
  <1>6. TakenIs /\ TakenIs'
    BY TakenParts, PTL
  <1>7. \A u \in Threads, m \in Nodes : m \in Taken'[u] <=> m \in Taken[u]
    <2>1. \A m \in Nodes : m \in Taken'[t] <=> m \in Taken[t]
      BY <1>3, <1>4, <1>6 DEF TakenIs
    <2>2. \A u \in Threads \ {t}, m \in Nodes : m \in Taken'[u] <=> m \in Taken[u]
      BY <1>3, <1>5, <1>6 DEF TakenIs
    <2> QED  BY <2>1, <2>2
  <1> QED  BY <1>6, <1>7 DEF TakenIs

LEMMA StepsAsPool == IInv /\ IInv' /\ [Next]_vars => [Pool!Next]_Taken
  <1> SUFFICES ASSUME IInv, IInv', [Next]_vars PROVE [Pool!Next]_Taken
    OBVIOUS
  <1>1. CASE UNCHANGED vars
    BY <1>1 DEF vars, Taken, At
  <1>2. ASSUME NEW t \in Threads, NEW n \in Nodes, Add(t, n) PROVE Pool!Next
    BY <1>2, AddGivesBack DEF Pool!Next
  <1>3. ASSUME NEW t \in Threads, TryGet(t) \/ Inside(t)
        PROVE  [Pool!Next]_Taken
    <2>1. TypeOK /\ th[t] \in CallType
      BY DEF IInv, TypeOK
    <2>2. CASE GetDone(t)
      BY <2>2, GetDoneStutters
    <2>3. CASE GetCas(t) /\ freeListHead = th[t].got /\ freeListHead' = th[t].next
               /\ Goto(t, [th[t] EXCEPT !.pc = "get_done", !.next = null])
      BY <2>3, GetCasTakes DEF Pool!Next
    <2>4. CASE GetCas(t) /\ freeListHead # th[t].got
      <3>1. /\ held' = held /\ th'[t].pc = "get_release" /\ th[t].pc = "get_cas"
            /\ \A u \in Threads \ {t} : th'[u] = th[u]
        BY <2>1, <2>4 DEF GetCas, Goto, At, TypeOK, CallType
      <3> QED  BY <3>1, TakenStays DEF At
    <2> DEFINE Within ==
                 /\ held' = held /\ th[t].pc # "get_done" /\ th'[t].pc # "get_done"
                 /\ \A u \in Threads \ {t} : th'[u] = th[u]
    <2>5. CASE \/ PushLoad(t) \/ PushNext(t) \/ PushRefs(t) \/ PushCas(t)
               \/ PushFailed(t) \/ GetRelease(t)
      <3>1. PushDone(t).pc # "get_done"
        BY <2>1, PushDoneCall DEF IInv
      <3>2. ASSUME PushLoad(t) PROVE Within
        BY <2>1, <3>2 DEF PushLoad, Goto, At, TypeOK, CallType
      <3>3. ASSUME PushNext(t) PROVE Within
        BY <2>1, <3>3 DEF PushNext, Goto, At, TypeOK, CallType
      <3>4. ASSUME PushRefs(t) PROVE Within
        BY <2>1, <3>4 DEF PushRefs, Goto, At, TypeOK, CallType
      <3>5. ASSUME PushCas(t) PROVE Within
        <4>1. held' = held /\ th[t].pc = "push_cas"
          BY <3>5 DEF PushCas, At
        <4>2. CASE Goto(t, PushDone(t))
          BY <2>1, <3>1, <4>1, <4>2 DEF Goto, TypeOK
        <4>3. CASE Goto(t, [th[t] EXCEPT !.pc = "push_failed",
                                         !.next = Reloaded(t)])
          BY <2>1, <4>1, <4>3 DEF Goto, TypeOK, CallType
        <4> QED  BY <3>5, <4>2, <4>3 DEF PushCas
      <3>6. ASSUME PushFailed(t) PROVE Within
        BY <2>1, <3>1, <3>6 DEF PushFailed, Goto, At, TypeOK, CallType
      <3>7. ASSUME GetRelease(t) PROVE Within
        BY <2>1, <3>1, <3>7 DEF GetRelease, Goto, At, TypeOK, CallType
      <3>8. Within
        BY <2>5, <3>2, <3>3, <3>4, <3>5, <3>6, <3>7
      <3> QED  BY <3>8, TakenStays DEF At
    <2>6. CASE \/ TryGet(t) \/ GetHead(t) \/ GetRefs(t) \/ GetAcquire(t)
               \/ GetNext(t)
      <3>1. Idle.pc = "idle" /\ \A pc : [Idle EXCEPT !.pc = pc].pc = pc
        BY DEF Idle
      <3>2. ASSUME TryGet(t) PROVE Within
        BY <2>1, <3>1, <3>2 DEF TryGet, Goto, At, TypeOK
      <3>3. ASSUME GetHead(t) PROVE Within
        BY <2>1, <3>3 DEF GetHead, Goto, At, TypeOK, Idle
      <3>4. ASSUME GetRefs(t) PROVE Within
        BY <2>1, <3>4 DEF GetRefs, Goto, At, TypeOK, Idle, CallType
      <3>5. ASSUME GetAcquire(t) PROVE Within
        <4>1. held' = held /\ th[t].pc = "get_acquire"
          BY <3>5 DEF GetAcquire, At
        <4>2. CASE Goto(t, [th[t] EXCEPT !.pc = "get_next", !.refs = Refs(0, FALSE)])
          BY <2>1, <4>1, <4>2 DEF Goto, TypeOK, CallType
        <4>3. CASE Goto(t, [Idle EXCEPT !.pc = "get_head"])
          BY <2>1, <4>1, <4>3 DEF Goto, TypeOK, Idle
        <4> QED  BY <3>5, <4>2, <4>3 DEF GetAcquire
      <3>6. ASSUME GetNext(t) PROVE Within
        BY <2>1, <3>6 DEF GetNext, Goto, At, TypeOK, CallType
      <3>7. Within
        BY <2>6, <3>2, <3>3, <3>4, <3>5, <3>6
      <3> QED  BY <3>7, TakenStays DEF At
    <2> QED  BY <1>3, <2>2, <2>3, <2>4, <2>5, <2>6 DEF Inside, GetCas
  <1> QED  BY <1>1, <1>2, <1>3 DEF Next

\* The list implements a pool: it never gives one block to two threads, nor a
\* block that somebody has.
THEOREM ListIsPool == Spec => ImplementsPool
  <1>1. Init => IInv /\ Pool!Init
    BY InitHolds, StartsAsPool
  <1>2. IInv /\ [Next]_vars => IInv'
    BY NextHolds
  <1>3. IInv /\ IInv' /\ [Next]_vars => [Pool!Next]_Taken
    BY StepsAsPool
  <1> QED  BY <1>1, <1>2, <1>3, PTL DEF Spec, ImplementsPool, Pool!Spec
=============================================================================
