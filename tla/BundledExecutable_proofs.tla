----------------------- MODULE BundledExecutable_proofs -----------------------
(***************************************************************************)
(* What was taken is run once and in order, whatever the entities, groups  *)
(* and workers are.  The argument counts, for an entity and a message, the *)
(* bundles and the calls: only a take makes one more of them, and only the *)
(* end of spin makes fewer.                                                *)
(***************************************************************************)
EXTENDS BundledExecutable, FiniteSetTheorems, TLAPS

USE BundledExecutableAssumption

-----------------------------------------------------------------------------
(***************************************************************************)
(* The inductive invariant                                                 *)
(***************************************************************************)

Msgs       == Nat \cup {Blank, Garbage}
BundleType == [entity : Entities, message : Msgs]
WorkerPCs  == {"idle", "run", "return", "exited"}
WorkerType == [pc : WorkerPCs, bundle : BundleType \cup {Nothing}]

\* The bundles of a group that no worker has, in the order of their entities'
\* takes.  Enqueuing moves the border between the queue and the round.
Line(g) == queue[g] \o bundles_by_tgid[g]

TypeOK ==
    /\ listed \in Listings
    /\ arrived \in [Entities -> Nat] /\ gone \in [Entities -> Nat]
    /\ loans \subseteq Entities \X Nat
    /\ bundles_by_tgid \in [ThreadGroups -> Seq(BundleType)]
    /\ queue \in [ThreadGroups -> Seq(BundleType)]
    /\ worker \in [Workers -> WorkerType]
    /\ taken \in [Entities -> SUBSET Nat]
    /\ failed \in [Entities -> Nat]
    /\ handled \in [Entities -> Seq(Msgs)]

\* Between rounds nothing is bundled; a timer that is ready is due until it is
\* called.
RoundsOK ==
    /\ pc # "take" => bundles_by_tgid = NoBundles
    /\ ready \subseteq Entities
    /\ \A e \in Entities : gone[e] <= arrived[e]
    /\ \A e \in ready \cap Timers : gone[e] < arrived[e]

\* A bundle is of a listed entity, and with the group that serves it.
Home ==
    /\ \A g \in ThreadGroups : \A i \in DOMAIN Line(g) :
         Line(g)[i].entity \in listed /\ TgidOf[Line(g)[i].entity] = g
    /\ \A w \in Workers : worker[w].pc \in {"run", "return"} =>
         /\ worker[w].bundle \in BundleType
         /\ worker[w].bundle.entity \in listed
         /\ TgidOf[worker[w].bundle.entity] = WorksFor[w]

Count(x, s) == Cardinality({i \in DOMAIN s : s[i] = x})
Runs(w, b)  == worker[w].pc = "run" /\ worker[w].bundle = b
Runners(b)  == {w \in Workers : Runs(w, b)}

\* The calls and the bundles of a message: those in line, and those a worker
\* runs.
Bundles(e, m) ==
    Cardinality(Runners(Bundle(e, m)))
      + (IF e \in listed THEN Count(Bundle(e, m), Line(TgidOf[e])) ELSE 0)
Amount(e, m) == Count(m, handled[e]) + Bundles(e, m)

TakenOnce ==
    \A e \in Entities :
        /\ \A i \in taken[e] : i <= gone[e]
        /\ \A i \in Nat : Amount(e, i) <= 1 /\ (Amount(e, i) > 0 => i \in taken[e])
        /\ e \in listed /\ ~Ended => \A i \in taken[e] : Amount(e, i) = 1

Empty(s) == Amount(s, Blank) + Amount(s, Garbage)

FailuresCounted ==
    \A s \in listed \cap Subscriptions :
        /\ Empty(s) <= failed[s]
        /\ Ended \/ Kind(s) = "loaned" \/ Empty(s) = failed[s]

Returns(w, b) == worker[w].pc = "return" /\ worker[w].bundle = b

LoansOut ==
    \A s \in Entities : \A i \in Nat : <<s, i>> \in loans \ kept =>
        /\ Kind(s) = "loaned" /\ i \in taken[s]
        /\ \/ Count(i, handled[s]) = 0
           \/ \E w \in Workers : Returns(w, Bundle(s, i))
           \/ s \notin listed \/ Ended

\* Numbers are in order; a blank message has no place in it.
Before(a, b) == a \in Nat /\ b \in Nat => a < b
Past(e, m)   == m \in Nat => m <= gone[e]
Sorted(s)    == \A i, j \in DOMAIN s : i < j => Before(s[i], s[j])

LinesInOrder ==
    \A g \in ThreadGroups : \A i, j \in DOMAIN Line(g) :
        i < j /\ Line(g)[i].entity = Line(g)[j].entity =>
            Before(Line(g)[i].message, Line(g)[j].message)

NothingAhead ==
    /\ \A g \in ThreadGroups : \A i \in DOMAIN Line(g) :
         Past(Line(g)[i].entity, Line(g)[i].message)
    /\ \A w \in Workers : worker[w].pc = "run" =>
         Past(worker[w].bundle.entity, worker[w].bundle.message)
    /\ \A e \in Entities : \A i \in DOMAIN handled[e] : Past(e, handled[e][i])

\* Where one worker serves an entity, its calls come before what he runs, and
\* that comes before what is in line.
Alone(e) == \A v, w \in Workers :
              WorksFor[v] = TgidOf[e] /\ WorksFor[w] = TgidOf[e] => v = w

OneInOrder(e) ==
    /\ Sorted(handled[e])
    /\ \A i \in DOMAIN handled[e] : \A w \in Workers :
         worker[w].pc = "run" /\ worker[w].bundle.entity = e =>
             Before(handled[e][i], worker[w].bundle.message)
    /\ \A k \in DOMAIN Line(TgidOf[e]) : Line(TgidOf[e])[k].entity = e =>
         /\ \A i \in DOMAIN handled[e] :
              Before(handled[e][i], Line(TgidOf[e])[k].message)
         /\ \A w \in Workers :
              worker[w].pc = "run" /\ worker[w].bundle.entity = e =>
                Before(worker[w].bundle.message, Line(TgidOf[e])[k].message)
OneWorkerInOrder == \A e \in listed : Alone(e) => OneInOrder(e)

IInv == /\ TypeOK /\ RoundsOK /\ Home
        /\ TakenOnce /\ FailuresCounted /\ LoansOut
        /\ LinesInOrder /\ NothingAhead /\ OneWorkerInOrder

-----------------------------------------------------------------------------
(***************************************************************************)
(* Counting in sequences                                                   *)
(***************************************************************************)

Places(x, s) == {i \in DOMAIN s : s[i] = x}

LEMMA PlacesFinite ==
    ASSUME NEW T, NEW s \in Seq(T), NEW x
    PROVE  /\ IsFiniteSet(Places(x, s)) /\ Places(x, s) \subseteq 1..Len(s)
           /\ Count(x, s) = Cardinality(Places(x, s)) /\ Count(x, s) \in Nat
           /\ Count(x, s) > 0 <=> \E i \in DOMAIN s : s[i] = x
  <1>1. Places(x, s) \subseteq 1..Len(s)
    BY DEF Places
  <1>2. IsFiniteSet(1..Len(s))
    BY FS_Interval
  <1>3. IsFiniteSet(Places(x, s))
    BY <1>1, <1>2, FS_Subset
  <1>4. Count(x, s) = Cardinality(Places(x, s)) /\ Count(x, s) \in Nat
    BY <1>3, FS_CardinalityType DEF Count, Places
  <1>5. Count(x, s) = 0 <=> Places(x, s) = {}
    BY <1>3, <1>4, FS_EmptySet
  <1> QED  BY <1>1, <1>3, <1>4, <1>5 DEF Places

LEMMA CountEmpty ==
    ASSUME NEW x
    PROVE  Count(x, <<>>) = 0
  <1>1. {i \in DOMAIN <<>> : <<>>[i] = x} = {}
    OBVIOUS
  <1> QED  BY <1>1, FS_EmptySet DEF Count

LEMMA CountConcat ==
    ASSUME NEW T, NEW s \in Seq(T), NEW t \in Seq(T), NEW x
    PROVE  Count(x, s \o t) = Count(x, s) + Count(x, t)
  <1> DEFINE moved == {i + Len(s) : i \in Places(x, t)}
             f     == [i \in Places(x, t) |-> i + Len(s)]
  <1>1. s \o t \in Seq(T) /\ Len(s) \in Nat /\ Len(t) \in Nat
    OBVIOUS
  <1>2. /\ IsFiniteSet(Places(x, s)) /\ IsFiniteSet(Places(x, t))
        /\ Places(x, s) \subseteq 1..Len(s) /\ Places(x, t) \subseteq 1..Len(t)
        /\ Count(x, s) = Cardinality(Places(x, s)) /\ Count(x, s) \in Nat
        /\ Count(x, t) = Cardinality(Places(x, t)) /\ Count(x, t) \in Nat
        /\ Count(x, s \o t) = Cardinality(Places(x, s \o t))
    BY <1>1, PlacesFinite
  <1>3. f \in Bijection(Places(x, t), moved)
    BY <1>1, <1>2 DEF Bijection, Injection, Surjection, IsInjective
  <1>4. IsFiniteSet(moved) /\ Cardinality(moved) = Count(x, t)
    BY <1>2, <1>3, FS_Bijection DEF ExistsBijection
  <1>5. Places(x, s \o t) = Places(x, s) \cup moved
    <2>1. ASSUME NEW i \in 1..Len(s) + Len(t)
          PROVE  i \in Places(x, s \o t) <=> i \in Places(x, s) \/ i \in moved
      <3>1. CASE i <= Len(s)
        <4>1. (s \o t)[i] = s[i] /\ i \in DOMAIN s /\ i \in DOMAIN (s \o t)
          BY <1>1, <2>1, <3>1
        <4>2. i \notin moved
          BY <1>1, <1>2, <3>1
        <4> QED  BY <4>1, <4>2 DEF Places
      <3>2. CASE i > Len(s)
        <4>1. (s \o t)[i] = t[i - Len(s)] /\ i - Len(s) \in DOMAIN t
              /\ i \in DOMAIN (s \o t)
          BY <1>1, <2>1, <3>2
        <4>2. i \notin Places(x, s)
          BY <1>1, <1>2, <3>2
        <4>3. i \in moved <=> i - Len(s) \in Places(x, t)
          <5>1. ASSUME NEW j \in Places(x, t), i = j + Len(s)
                PROVE  i - Len(s) \in Places(x, t)
            <6>1. j \in Int /\ i - Len(s) = j
              BY <1>1, <1>2, <5>1
            <6> QED  BY <5>1, <6>1
          <5>2. ASSUME i - Len(s) \in Places(x, t) PROVE i \in moved
            <6>1. i = (i - Len(s)) + Len(s)
              BY <1>1
            <6> QED  BY <5>2, <6>1
          <5> QED  BY <5>1, <5>2
        <4> QED  BY <4>1, <4>2, <4>3 DEF Places
      <3> QED  BY <1>1, <2>1, <3>1, <3>2
    <2>2. /\ Places(x, s \o t) \subseteq 1..Len(s) + Len(t)
          /\ Places(x, s) \subseteq 1..Len(s) + Len(t)
          /\ moved \subseteq 1..Len(s) + Len(t)
      BY <1>1, <1>2 DEF Places
    <2> QED  BY <2>1, <2>2
  <1>6. Places(x, s) \cap moved = {}
    BY <1>1, <1>2
  <1>7. Cardinality(Places(x, s) \cap moved) = 0
    BY <1>6, FS_EmptySet
  <1> HIDE DEF moved, f
  <1>8. Cardinality(Places(x, s) \cup moved)
          = Cardinality(Places(x, s)) + Cardinality(moved)
              - Cardinality(Places(x, s) \cap moved)
    BY <1>2, <1>4, FS_Union
  <1>9. Count(x, s \o t) = Count(x, s) + Count(x, t) - 0
    BY <1>2, <1>4, <1>5, <1>7, <1>8, Zenon
  <1> QED  BY <1>2, <1>9

LEMMA CountOne ==
    ASSUME NEW x, NEW y
    PROVE  Count(x, <<y>>) = IF y = x THEN 1 ELSE 0
  <1>1. CASE y = x
    <2>1. {i \in DOMAIN <<y>> : <<y>>[i] = x} = {1}
      BY <1>1
    <2> QED  BY <1>1, <2>1, FS_Singleton DEF Count
  <1>2. CASE y # x
    <2>1. {i \in DOMAIN <<y>> : <<y>>[i] = x} = {}
      BY <1>2
    <2> QED  BY <1>2, <2>1, FS_EmptySet DEF Count
  <1> QED  BY <1>1, <1>2

LEMMA CountAppend ==
    ASSUME NEW T, NEW s \in Seq(T), NEW y \in T, NEW x
    PROVE  Count(x, Append(s, y)) = Count(x, s) + (IF y = x THEN 1 ELSE 0)
  <1>1. <<y>> \in Seq(T) /\ Append(s, y) = s \o <<y>>
    OBVIOUS
  <1>2. Count(x, s \o <<y>>) = Count(x, s) + Count(x, <<y>>)
    BY <1>1, CountConcat
  <1> QED  BY <1>1, <1>2, CountOne

LEMMA CountHead ==
    ASSUME NEW T, NEW s \in Seq(T), s # <<>>, NEW x
    PROVE  /\ Head(s) \in T /\ Tail(s) \in Seq(T)
           /\ Count(x, s) = Count(x, Tail(s)) + (IF Head(s) = x THEN 1 ELSE 0)
  <1>1. /\ Head(s) \in T /\ Tail(s) \in Seq(T) /\ <<Head(s)>> \in Seq(T)
        /\ s = <<Head(s)>> \o Tail(s)
    OBVIOUS
  <1>2. Count(x, <<Head(s)>> \o Tail(s)) = Count(x, <<Head(s)>>) + Count(x, Tail(s))
    BY <1>1, CountConcat
  <1>3. Count(x, Tail(s)) \in Nat
    BY <1>1, PlacesFinite
  <1>4. Count(x, <<Head(s)>>) = IF Head(s) = x THEN 1 ELSE 0
    BY CountOne
  <1>5. Count(x, s) = Count(x, <<Head(s)>>) + Count(x, Tail(s))
    BY <1>1, <1>2, Zenon
  <1> QED  BY <1>1, <1>3, <1>4, <1>5

-----------------------------------------------------------------------------
(***************************************************************************)
(* Amounts                                                                 *)
(***************************************************************************)

LEMMA LineType ==
    ASSUME TypeOK, NEW g \in ThreadGroups
    PROVE  Line(g) \in Seq(BundleType)
  BY DEF TypeOK, Line

LEMMA ListedGroups ==
    ASSUME TypeOK
    PROVE  /\ listed \subseteq Entities
           /\ \A e \in listed : TgidOf[e] \in ThreadGroups
  BY DEF TypeOK

LEMMA AmountType ==
    ASSUME TypeOK, NEW e \in Entities, NEW m
    PROVE  /\ Count(m, handled[e]) \in Nat /\ IsFiniteSet(Runners(Bundle(e, m)))
           /\ Cardinality(Runners(Bundle(e, m))) \in Nat
           /\ e \in listed => Count(Bundle(e, m), Line(TgidOf[e])) \in Nat
           /\ Bundles(e, m) \in Nat /\ Amount(e, m) \in Nat
  <1>1. handled[e] \in Seq(Msgs)
    BY DEF TypeOK
  <1>2. Count(m, handled[e]) \in Nat
    BY <1>1, PlacesFinite
  <1>3. IsFiniteSet(Runners(Bundle(e, m)))
    BY FS_Subset DEF Runners
  <1>4. Cardinality(Runners(Bundle(e, m))) \in Nat
    BY <1>3, FS_CardinalityType
  <1>5. ASSUME e \in listed PROVE Count(Bundle(e, m), Line(TgidOf[e])) \in Nat
    BY <1>5, ListedGroups, LineType, PlacesFinite
  <1>6. Bundles(e, m) \in Nat
    BY <1>4, <1>5 DEF Bundles
  <1> QED  BY <1>2, <1>3, <1>4, <1>5, <1>6 DEF Amount

\* The counts that the properties speak of.
LEMMA AmountIs ==
    ASSUME TypeOK, NEW e \in Entities, NEW m
    PROVE  Handled(e, m) = Count(m, handled[e]) /\ Pending(e, m) = Bundles(e, m)
  <1>1. Handled(e, m) = Count(m, handled[e])
    BY DEF Handled, Count
  <1>2. {w \in Workers : worker[w] = [pc |-> "run", bundle |-> Bundle(e, m)]}
          = Runners(Bundle(e, m))
    BY DEF Runners, Runs, TypeOK, WorkerType
  <1>3. ASSUME e \in listed
        PROVE  Queued(e, m, queue[TgidOf[e]]) + Queued(e, m, bundles_by_tgid[TgidOf[e]])
                 = Count(Bundle(e, m), Line(TgidOf[e]))
    <2>1. /\ queue[TgidOf[e]] \in Seq(BundleType)
          /\ bundles_by_tgid[TgidOf[e]] \in Seq(BundleType)
      BY <1>3, ListedGroups DEF TypeOK
    <2>2. Count(Bundle(e, m), Line(TgidOf[e]))
            = Count(Bundle(e, m), queue[TgidOf[e]])
                + Count(Bundle(e, m), bundles_by_tgid[TgidOf[e]])
      BY <2>1, CountConcat DEF Line
    <2> QED  BY <2>2 DEF Queued, Count
  <1>4. Pending(e, m) = Bundles(e, m)
    BY <1>2, <1>3 DEF Pending, Bundles
  <1> QED  BY <1>1, <1>4

\* Steps that leave the lines and the calls as they are.
LineSame   == \A g \in ThreadGroups : Line(g)' = Line(g)
WorkerSame == \A w \in Workers :
                \/ worker'[w] = worker[w]
                \/ /\ worker[w].pc \notin {"run", "return"}
                   /\ worker'[w].pc \notin {"run", "return"}

LEMMA SameRuns ==
    ASSUME WorkerSame
    PROVE  /\ \A w \in Workers : \A b : Runs(w, b)' <=> Runs(w, b)
           /\ \A w \in Workers : \A b : Returns(w, b)' <=> Returns(w, b)
           /\ \A b : Runners(b)' = Runners(b)
  <1>1. /\ \A w \in Workers : \A b : Runs(w, b)' <=> Runs(w, b)
        /\ \A w \in Workers : \A b : Returns(w, b)' <=> Returns(w, b)
    BY DEF Runs, Returns, WorkerSame
  <1> QED  BY <1>1 DEF Runners

LEMMA SameAmount ==
    ASSUME TypeOK, listed' = listed, LineSame, WorkerSame, handled' = handled,
           NEW e \in Entities, NEW m
    PROVE  Amount(e, m)' = Amount(e, m)
  <1>1. Runners(Bundle(e, m))' = Runners(Bundle(e, m))
    BY SameRuns DEF Runners, Runs, WorkerSame
  <1>2. e \in listed => Line(TgidOf[e])' = Line(TgidOf[e])
    BY ListedGroups DEF LineSame
  <1> QED  BY <1>1, <1>2 DEF Amount, Bundles, Count

QuietOrder ==
    /\ LineSame /\ WorkerSame /\ UNCHANGED <<listed, handled>>
    /\ gone' \in [Entities -> Nat]
    /\ \A e \in Entities : gone[e] <= gone'[e]

LEMMA QuietOrderHolds ==
    ASSUME IInv, QuietOrder
    PROVE  Home' /\ LinesInOrder' /\ NothingAhead' /\ OneWorkerInOrder'
  <1>1. TypeOK /\ Home /\ LinesInOrder /\ NothingAhead /\ OneWorkerInOrder
    BY DEF IInv
  <1>2. /\ \A e \in Entities : gone[e] \in Nat /\ gone'[e] \in Nat
        /\ listed \subseteq Entities /\ \A e \in listed : TgidOf[e] \in ThreadGroups
    BY <1>1, ListedGroups DEF TypeOK, QuietOrder
  <1>3. Home'
    BY <1>1 DEF Home, QuietOrder, LineSame, WorkerSame
  <1>4. LinesInOrder'
    BY <1>1 DEF LinesInOrder, QuietOrder, LineSame
  <1>5. \A e \in Entities : \A m : Past(e, m) => Past(e, m)'
    BY <1>2 DEF Past, QuietOrder
  <1>6. NothingAhead'
    <2>1. \A g \in ThreadGroups : \A i \in DOMAIN Line(g) :
            Line(g)[i].entity \in Entities
      BY <1>1, <1>2 DEF Home
    <2>2. \A w \in Workers : worker[w].pc = "run" =>
            worker[w].bundle.entity \in Entities
      BY <1>1, <1>2 DEF Home
    <2> QED
      BY <1>1, <1>5, <2>1, <2>2 DEF NothingAhead, QuietOrder, LineSame, WorkerSame
  <1>7. OneWorkerInOrder'
    <2> SUFFICES ASSUME NEW e \in listed, Alone(e)
                 PROVE  OneInOrder(e)'
      BY DEF OneWorkerInOrder, Alone, QuietOrder
    <2>1. OneInOrder(e) /\ TgidOf[e] \in ThreadGroups
      BY <1>1, <1>2 DEF OneWorkerInOrder
    <2> QED  BY <2>1 DEF OneInOrder, Sorted, QuietOrder, LineSame, WorkerSame
  <1> QED  BY <1>3, <1>4, <1>6, <1>7

Quiet == QuietOrder /\ UNCHANGED <<taken, failed, loans, kept>> /\ (Ended => Ended')

LEMMA QuietHolds ==
    ASSUME IInv, TypeOK', RoundsOK', Quiet
    PROVE  IInv'
  <1>1. TypeOK /\ TakenOnce /\ FailuresCounted /\ LoansOut
    BY DEF IInv
  <1>2. \A e \in Entities : gone[e] \in Nat /\ gone'[e] \in Nat
    BY <1>1 DEF TypeOK
  <1>3. \A e \in Entities : \A m : Amount(e, m)' = Amount(e, m)
    BY <1>1, SameAmount DEF Quiet, QuietOrder
  <1>4. TakenOnce'
    BY <1>1, <1>2, <1>3 DEF TakenOnce, Quiet, QuietOrder, TypeOK
  <1>5. FailuresCounted'
    <2>1. listed \subseteq Entities
      BY <1>1, ListedGroups
    <2> QED
      BY <1>1, <1>3, <2>1 DEF FailuresCounted, Empty, Quiet, QuietOrder
  <1>6. LoansOut'
    BY <1>1, SameRuns DEF LoansOut, Count, Quiet, QuietOrder
  <1> QED  BY <1>4, <1>5, <1>6, QuietOrderHolds DEF IInv, Quiet

-----------------------------------------------------------------------------
(***************************************************************************)
(* Quiet steps                                                             *)
(***************************************************************************)

\* A step that leaves the bundles, the queues and the workers alone.
Outside == UNCHANGED <<listed, queue, bundles_by_tgid, worker, handled, taken,
                       failed, loans, kept>>

LEMMA OutsideHolds ==
    ASSUME IInv, Outside, RoundsOK', arrived' \in [Entities -> Nat],
           gone' \in [Entities -> Nat], Ended => Ended',
           \A e \in Entities : gone[e] <= gone'[e]
    PROVE  IInv'
  <1>1. TypeOK'
    BY DEF IInv, TypeOK, Outside
  <1>2. LineSame /\ WorkerSame
    BY DEF LineSame, Line, WorkerSame, Outside
  <1>3. Quiet
    BY <1>2 DEF Quiet, QuietOrder, Outside
  <1> QED  BY <1>1, <1>3, QuietHolds

LEMMA ArrivesHolds ==
    ASSUME IInv, NEW e \in Entities, Arrives(e)
    PROVE  IInv'
  <1>1. TypeOK /\ RoundsOK
    BY DEF IInv
  <1>2. /\ arrived' \in [Entities -> Nat] /\ gone' = gone
        /\ \A d \in Entities : gone[d] \in Nat /\ arrived[d] <= arrived'[d]
                               /\ arrived[d] \in Nat /\ arrived'[d] \in Nat
        /\ Outside /\ UNCHANGED <<pc, ready>>
    BY <1>1 DEF Arrives, TypeOK, executorVars, runVars, takeVars, Outside
  <1>3. RoundsOK'
    BY <1>1, <1>2 DEF RoundsOK, Outside
  <1> QED  BY <1>1, <1>2, <1>3, OutsideHolds DEF Ended, TypeOK

LEMMA ExpiresHolds ==
    ASSUME IInv, NEW s \in Entities, Expires(s)
    PROVE  IInv'
  <1>1. TypeOK /\ RoundsOK
    BY DEF IInv
  <1>2. /\ gone' = [gone EXCEPT ![s] = @ + 1] /\ s \in Subscriptions
        /\ Outside /\ UNCHANGED <<pc, ready, arrived>>
    BY DEF Expires, executorVars, runVars, takeVars, Outside
  <1>3. gone[s] + 1 <= arrived[s]
    BY <1>1 DEF Expires, Waiting, TypeOK
  <1>4. /\ gone' \in [Entities -> Nat] /\ gone'[s] = gone[s] + 1
        /\ \A e \in Entities \ {s} : gone'[e] = gone[e]
    BY <1>1, <1>2 DEF TypeOK
  <1>5. s \notin Timers
    BY <1>2
  <1>6. \A e \in Entities : gone[e] <= gone'[e] /\ gone'[e] <= arrived[e]
    <2> SUFFICES ASSUME NEW e \in Entities
                 PROVE  gone[e] <= gone'[e] /\ gone'[e] <= arrived[e]
      OBVIOUS
    <2>1. PICK k \in Nat, l \in Nat, a \in Nat :
            k = gone[e] /\ l = gone'[e] /\ a = arrived[e]
      BY <1>1, <1>4 DEF TypeOK
    <2>2. k <= a /\ (e = s => k + 1 <= a /\ l = k + 1) /\ (e # s => l = k)
      BY <1>1, <1>3, <1>4, <2>1 DEF RoundsOK
    <2>3. k <= l /\ l <= a
      BY <2>2
    <2> QED  BY <2>1, <2>3
  <1>7. RoundsOK'
    BY <1>1, <1>2, <1>4, <1>5, <1>6 DEF RoundsOK, Outside
  <1> QED  BY <1>1, <1>2, <1>4, <1>6, <1>7, OutsideHolds DEF Ended, TypeOK

LEMMA CancelTimerHolds ==
    ASSUME IInv, NEW t \in Entities, CancelTimer(t)
    PROVE  IInv'
  <1>1. TypeOK /\ RoundsOK
    BY DEF IInv
  <1>2. Outside /\ UNCHANGED <<pc, ready, arrived, gone>>
    BY DEF CancelTimer, executorVars, runVars, takeVars, Outside
  <1>3. RoundsOK'
    BY <1>1, <1>2 DEF RoundsOK, Outside
  <1> QED  BY <1>1, <1>2, <1>3, OutsideHolds DEF Ended, TypeOK

LEMMA WakeHolds ==
    ASSUME IInv, Wake
    PROVE  IInv'
  <1>1. TypeOK /\ RoundsOK
    BY DEF IInv
  <1>2. /\ Outside /\ UNCHANGED <<arrived, gone>>
        /\ pc = "wait" /\ pc' = "take" /\ ready' = ReadyNow
    BY DEF Wake, executorVars, runVars, takeVars, Outside
  <1>3. \A e \in ReadyNow : e \in Entities /\ gone[e] < arrived[e]
    BY <1>1 DEF ReadyNow, Waiting, TypeOK
  <1>4. RoundsOK'
    BY <1>1, <1>2, <1>3 DEF RoundsOK, Outside
  <1> QED  BY <1>1, <1>2, <1>4, OutsideHolds DEF Ended, TypeOK

LEMMA RoundEndsHolds ==
    ASSUME IInv, RoundEnds \/ SpinEnds
    PROVE  IInv'
  <1>1. TypeOK /\ RoundsOK
    BY DEF IInv
  <1>2. /\ Outside /\ UNCHANGED <<arrived, gone, ready>>
        /\ pc # "ended" /\ bundles_by_tgid = NoBundles
    BY <1>1 DEF RoundEnds, SpinEnds, runVars, takeVars, Outside, RoundsOK
  <1>3. RoundsOK'
    BY <1>1, <1>2 DEF RoundsOK, Outside
  <1> QED  BY <1>1, <1>2, <1>3, OutsideHolds DEF Ended, TypeOK

LEMMA EnqueueBulkHolds ==
    ASSUME IInv, NEW g \in ThreadGroups, EnqueueBulk(g)
    PROVE  IInv'
  <1>1. TypeOK /\ RoundsOK
    BY DEF IInv
  <1>2. /\ queue' = [queue EXCEPT ![g] = @ \o bundles_by_tgid[g]]
        /\ bundles_by_tgid' = [bundles_by_tgid EXCEPT ![g] = <<>>]
        /\ UNCHANGED <<listed, arrived, gone, ready, pc, worker, handled, taken,
                       failed, loans, kept>>
        /\ pc = "take"
    BY DEF EnqueueBulk, Enqueued, Moved, takeVars
  <1>3. \A h \in ThreadGroups :
          queue[h] \in Seq(BundleType) /\ bundles_by_tgid[h] \in Seq(BundleType)
    BY <1>1 DEF TypeOK
  <1>4. queue[g] \o bundles_by_tgid[g] \in Seq(BundleType) /\ <<>> \in Seq(BundleType)
    BY <1>3
  <1>5. /\ queue' \in [ThreadGroups -> Seq(BundleType)]
        /\ bundles_by_tgid' \in [ThreadGroups -> Seq(BundleType)]
        /\ queue'[g] = queue[g] \o bundles_by_tgid[g] /\ bundles_by_tgid'[g] = <<>>
        /\ \A h \in ThreadGroups \ {g} :
             queue'[h] = queue[h] /\ bundles_by_tgid'[h] = bundles_by_tgid[h]
    BY <1>1, <1>2, <1>4 DEF TypeOK
  <1>6. TypeOK'
    BY <1>1, <1>2, <1>5 DEF TypeOK
  <1>7. RoundsOK'
    BY <1>1, <1>2 DEF RoundsOK
  <1>8. LineSame
    <2>1. (queue[g] \o bundles_by_tgid[g]) \o <<>> = queue[g] \o bundles_by_tgid[g]
      BY <1>4
    <2> QED  BY <1>5, <2>1 DEF LineSame, Line
  <1>9. Quiet
    BY <1>1, <1>2, <1>8 DEF Quiet, QuietOrder, WorkerSame, Ended, TypeOK
  <1> QED  BY <1>6, <1>7, <1>9, QuietHolds

LEMMA PCWritten ==
    ASSUME TypeOK, NEW w \in Workers, NEW p \in WorkerPCs,
           worker' = [worker EXCEPT ![w].pc = p]
    PROVE  /\ worker' \in [Workers -> WorkerType]
           /\ worker'[w].pc = p /\ worker'[w].bundle = worker[w].bundle
           /\ \A v \in Workers \ {w} : worker'[v] = worker[v]
  <1>1. worker \in [Workers -> WorkerType] /\ worker[w] \in WorkerType
    BY DEF TypeOK
  <1>2. PICK r : r = [worker[w] EXCEPT !.pc = p]
    OBVIOUS
  <1>3. r \in WorkerType /\ r.pc = p /\ r.bundle = worker[w].bundle
    BY <1>1, <1>2 DEF WorkerType
  <1>4. worker' = [worker EXCEPT ![w] = r]
    BY <1>1, <1>2
  <1>5. /\ worker' \in [Workers -> WorkerType] /\ worker'[w] = r
        /\ \A v \in Workers \ {w} : worker'[v] = worker[v]
    BY <1>1, <1>3, <1>4
  <1> QED  BY <1>3, <1>5

LEMMA ExitHolds ==
    ASSUME IInv, NEW w \in Workers, Exit(w)
    PROVE  IInv'
  <1>1. TypeOK /\ RoundsOK
    BY DEF IInv
  <1>2. /\ worker' = [worker EXCEPT ![w].pc = "exited"] /\ worker[w].pc = "idle"
        /\ UNCHANGED <<listed, arrived, gone, ready, pc, queue, bundles_by_tgid,
                       handled, taken, failed, loans, kept>>
    BY DEF Exit, Working, executorVars
  <1>3. /\ worker' \in [Workers -> WorkerType] /\ worker'[w].pc = "exited"
        /\ \A v \in Workers \ {w} : worker'[v] = worker[v]
    BY <1>1, <1>2, PCWritten DEF WorkerPCs
  <1>4. TypeOK'
    BY <1>1, <1>2, <1>3 DEF TypeOK
  <1>5. RoundsOK'
    BY <1>1, <1>2 DEF RoundsOK
  <1>6. WorkerSame
    BY <1>2, <1>3 DEF WorkerSame
  <1>7. Quiet
    BY <1>1, <1>2, <1>6 DEF Quiet, QuietOrder, LineSame, Line, Ended, TypeOK
  <1> QED  BY <1>4, <1>5, <1>7, QuietHolds

-----------------------------------------------------------------------------
(***************************************************************************)
(* Steps that drop bundles                                                 *)
(***************************************************************************)

\* Only the end of spin does: what is left of a line is its beginning.
Drop ==
    /\ UNCHANGED <<listed, worker, handled, loans, kept, failed>> /\ Ended'
    /\ \A g \in ThreadGroups : \A i \in DOMAIN Line(g)' :
         i \in DOMAIN Line(g) /\ Line(g)'[i] = Line(g)[i]
    /\ \A e \in Entities : /\ gone[e] <= gone'[e] /\ taken[e] \subseteq taken'[e]
                           /\ \A i \in taken'[e] : i <= gone'[e]

LEMMA DropAmount ==
    ASSUME TypeOK, TypeOK', Drop, NEW e \in Entities, NEW m
    PROVE  Amount(e, m)' <= Amount(e, m) /\ Amount(e, m) \in Nat /\ Amount(e, m)' \in Nat
  <1> DEFINE x == Bundle(e, m)
  <1>1. Runners(x)' = Runners(x) /\ Count(m, handled[e])' = Count(m, handled[e])
    BY DEF Runners, Runs, Count, Drop
  <1>2. /\ Cardinality(Runners(x)) \in Nat /\ Count(m, handled[e]) \in Nat
        /\ listed' = listed
    BY AmountType DEF Drop
  <1>3. CASE e \in listed
    <2>1. PICK g \in ThreadGroups : g = TgidOf[e]
      BY <1>3, ListedGroups
    <2>2. Line(g) \in Seq(BundleType) /\ Line(g)' \in Seq(BundleType)
      BY LineType DEF TypeOK, Line
    <2>3. Places(x, Line(g)') \subseteq Places(x, Line(g))
      BY <2>1, <2>2 DEF Places, Drop
    <2>4. /\ IsFiniteSet(Places(x, Line(g)))
          /\ Count(x, Line(g)) = Cardinality(Places(x, Line(g)))
          /\ Count(x, Line(g)') = Cardinality(Places(x, Line(g)'))
          /\ Count(x, Line(g)) \in Nat /\ Count(x, Line(g)') \in Nat
      BY <2>2, PlacesFinite
    <2>5. Count(x, Line(g)') <= Count(x, Line(g))
      <3>1. Cardinality(Places(x, Line(g)')) <= Cardinality(Places(x, Line(g)))
        BY <2>3, <2>4, FS_Subset
      <3> QED  BY <2>4, <3>1
    <2> HIDE DEF x
    <2>6. PICK k \in Nat, l \in Nat, c \in Nat, r \in Nat :
            /\ k = Count(x, Line(g)) /\ l = Count(x, Line(g)')
            /\ c = Count(m, handled[e]) /\ r = Cardinality(Runners(x))
      BY <1>2, <2>4
    <2>7. Amount(e, m) = c + (r + k) /\ Amount(e, m)' = c + (r + l)
      BY <1>1, <1>2, <1>3, <2>1, <2>6 DEF Amount, Bundles, Count, x
    <2>8. l <= k
      BY <2>5, <2>6
    <2>9. c + (r + l) <= c + (r + k) /\ c + (r + l) \in Nat /\ c + (r + k) \in Nat
      BY <2>8
    <2> QED  BY <2>7, <2>9
  <1>4. CASE e \notin listed
    <2>1. Amount(e, m)' = Amount(e, m) /\ Amount(e, m) \in Nat
      BY <1>1, <1>2, <1>4, AmountType DEF Amount, Bundles
    <2> QED  BY <2>1
  <1> QED  BY <1>3, <1>4

LEMMA DropHolds ==
    ASSUME IInv, TypeOK', RoundsOK', Drop
    PROVE  IInv'
  <1>1. /\ TypeOK /\ Home /\ TakenOnce /\ FailuresCounted /\ LoansOut
        /\ LinesInOrder /\ NothingAhead /\ OneWorkerInOrder
    BY DEF IInv
  <1>2. /\ \A e \in Entities : gone[e] \in Nat /\ gone'[e] \in Nat
        /\ listed \subseteq Entities /\ \A e \in listed : TgidOf[e] \in ThreadGroups
    BY <1>1, ListedGroups DEF TypeOK
  <1>3. Home'
    BY <1>1 DEF Home, Drop
  <1>4. TakenOnce'
    <2> SUFFICES ASSUME NEW e \in Entities, NEW i \in Nat
                 PROVE  Amount(e, i)' <= 1 /\ (Amount(e, i)' > 0 => i \in taken'[e])
      BY DEF TakenOnce, Drop
    <2>1. Amount(e, i) <= 1 /\ (Amount(e, i) > 0 => i \in taken[e])
      BY <1>1 DEF TakenOnce
    <2>2. PICK k \in Nat, l \in Nat :
            k = Amount(e, i) /\ l = Amount(e, i)' /\ l <= k
      BY <1>1, DropAmount
    <2>3. l <= 1 /\ (l > 0 => i \in taken[e])
      BY <2>1, <2>2
    <2> QED  BY <2>2, <2>3 DEF Drop
  <1>5. FailuresCounted'
    <2> SUFFICES ASSUME NEW s \in listed \cap Subscriptions
                 PROVE  Empty(s)' <= failed[s]
      BY DEF FailuresCounted, Drop
    <2>1. Empty(s) <= failed[s] /\ failed[s] \in Nat /\ s \in Entities
      BY <1>1, <1>2 DEF FailuresCounted, TypeOK
    <2>2. PICK k \in Nat, l \in Nat :
            k = Amount(s, Blank) /\ l = Amount(s, Blank)' /\ l <= k
      BY <1>1, <2>1, DropAmount
    <2>3. PICK m \in Nat, n \in Nat :
            m = Amount(s, Garbage) /\ n = Amount(s, Garbage)' /\ n <= m
      BY <1>1, <2>1, DropAmount
    <2>4. k + m <= failed[s] /\ l + n <= k + m
      BY <2>1, <2>2, <2>3 DEF Empty
    <2>5. l + n <= failed[s]
      BY <2>1, <2>4
    <2> QED  BY <2>2, <2>3, <2>5 DEF Empty
  <1>6. LoansOut'
    BY <1>1 DEF LoansOut, Drop
  <1>7. LinesInOrder'
    BY <1>1 DEF LinesInOrder, Drop
  <1>8. \A e \in Entities : \A m : Past(e, m) => Past(e, m)'
    BY <1>2 DEF Past, Drop
  <1>9. NothingAhead'
    <2>1. \A g \in ThreadGroups : \A i \in DOMAIN Line(g) :
            Line(g)[i].entity \in Entities
      BY <1>1, <1>2 DEF Home
    <2>2. \A w \in Workers : worker[w].pc = "run" =>
            worker[w].bundle.entity \in Entities
      BY <1>1, <1>2 DEF Home
    <2> QED  BY <1>1, <1>8, <2>1, <2>2 DEF NothingAhead, Drop
  <1>10. OneWorkerInOrder'
    <2> SUFFICES ASSUME NEW e \in listed, Alone(e)
                 PROVE  OneInOrder(e)'
      BY DEF OneWorkerInOrder, Alone, Drop
    <2>1. OneInOrder(e) /\ TgidOf[e] \in ThreadGroups
      BY <1>1, <1>2 DEF OneWorkerInOrder
    <2> QED  BY <2>1 DEF OneInOrder, Sorted, Drop
  <1> QED  BY <1>3, <1>4, <1>5, <1>6, <1>7, <1>9, <1>10 DEF IInv

LEMMA Throws ==
    ASSUME IInv, Throw, UNCHANGED <<listed, arrived, queue, worker, handled, loans,
                                    kept, failed>>,
           gone' \in [Entities -> Nat], taken' \in [Entities -> SUBSET Nat],
           \A e \in Entities :
             /\ gone[e] <= gone'[e] /\ gone'[e] <= arrived[e]
             /\ taken[e] \subseteq taken'[e] /\ \A i \in taken'[e] : i <= gone'[e]
    PROVE  IInv'
  <1>1. TypeOK /\ RoundsOK
    BY DEF IInv
  <1>2. NoBundles \in [ThreadGroups -> Seq(BundleType)]
    BY DEF NoBundles
  <1>3. TypeOK'
    BY <1>1, <1>2 DEF TypeOK, Throw
  <1>4. RoundsOK'
    BY <1>1 DEF RoundsOK, Throw
  <1>5. ASSUME NEW g \in ThreadGroups, NEW i \in DOMAIN Line(g)'
        PROVE  i \in DOMAIN Line(g) /\ Line(g)'[i] = Line(g)[i]
    <2>1. /\ queue[g] \in Seq(BundleType) /\ bundles_by_tgid[g] \in Seq(BundleType)
          /\ Line(g)' = queue[g] \o <<>>
      BY <1>1 DEF TypeOK, Throw, Line, NoBundles
    <2>2. queue[g] \o <<>> = queue[g]
      BY <2>1
    <2>3. i \in 1..Len(queue[g])
      BY <1>5, <2>1, <2>2
    <2>4. i \in DOMAIN (queue[g] \o bundles_by_tgid[g])
          /\ (queue[g] \o bundles_by_tgid[g])[i] = queue[g][i]
      <3>1. PICK q \in Seq(BundleType), b \in Seq(BundleType) :
              q = queue[g] /\ b = bundles_by_tgid[g]
        BY <2>1
      <3>2. /\ Len(q) \in Nat /\ Len(b) \in Nat /\ i \in 1..Len(q)
            /\ DOMAIN (q \o b) = 1..Len(q) + Len(b)
        BY <2>3, <3>1
      <3>3. i \in 1..Len(q) + Len(b) /\ (q \o b)[i] = q[i]
        BY <3>2
      <3> QED  BY <3>1, <3>2, <3>3
    <2> QED  BY <2>1, <2>2, <2>4 DEF Line
  <1>6. Drop
    BY <1>5 DEF Drop, Throw, Ended
  <1> QED  BY <1>3, <1>4, <1>6, DropHolds

LEMMA ThrowingSteps ==
    ASSUME IInv
    PROVE  /\ \A e \in Entities : UnlistedTimer(e) \/ TakeThrows(e) => IInv'
           /\ \A g \in ThreadGroups : EnqueueThrows(g) => IInv'
  <1>1. TypeOK /\ RoundsOK /\ TakenOnce
    BY DEF IInv
  <1>2. /\ gone \in [Entities -> Nat] /\ arrived \in [Entities -> Nat]
        /\ taken \in [Entities -> SUBSET Nat]
        /\ \A e \in Entities : gone[e] <= arrived[e] /\ \A i \in taken[e] : i <= gone[e]
    BY <1>1 DEF TypeOK, RoundsOK, TakenOnce
  <1>3. ASSUME Throw, UNCHANGED <<listed, arrived, runVars, takeVars>> PROVE IInv'
    BY <1>2, <1>3, Throws DEF runVars, takeVars
  <1>4. ASSUME NEW e \in Entities, TakeThrows(e) PROVE IInv'
    BY <1>2, <1>4, Throws DEF TakeThrows, Taking, runVars
  <1>5. ASSUME NEW t \in Entities, UnlistedTimer(t) PROVE IInv'
    <2>1. /\ gone' = [gone EXCEPT ![t] = arrived[t]]
          /\ taken' = [taken EXCEPT ![t] = @ \cup {arrived[t]}]
          /\ Throw /\ UNCHANGED <<listed, arrived, queue, worker, handled, loans,
                                  kept, failed>>
      BY <1>5 DEF UnlistedTimer, Taking, runVars
    <2>2. /\ gone' \in [Entities -> Nat] /\ gone'[t] = arrived[t]
          /\ taken' \in [Entities -> SUBSET Nat]
          /\ taken'[t] = taken[t] \cup {arrived[t]}
          /\ \A e \in Entities \ {t} : gone'[e] = gone[e] /\ taken'[e] = taken[e]
      BY <1>2, <2>1
    <2>3. ASSUME NEW e \in Entities
          PROVE  /\ gone[e] <= gone'[e] /\ gone'[e] <= arrived[e]
                 /\ taken[e] \subseteq taken'[e] /\ \A i \in taken'[e] : i <= gone'[e]
      <3>1. CASE e = t
        <4>1. PICK k \in Nat, a \in Nat : k = gone[e] /\ a = arrived[e] /\ k <= a
          BY <1>2
        <4>2. \A i \in taken[e] \cup {a} : i <= a
          BY <1>2, <4>1
        <4> QED  BY <2>2, <3>1, <4>1, <4>2
      <3>2. CASE e # t
        BY <1>2, <2>2, <3>2
      <3> QED  BY <3>1, <3>2
    <2> QED  BY <2>1, <2>2, <2>3, Throws
  <1>6. ASSUME NEW g \in ThreadGroups, EnqueueThrows(g) PROVE IInv'
    BY <1>3, <1>6 DEF EnqueueThrows
  <1> QED  BY <1>4, <1>5, <1>6

LEMMA DestroyQueuesHolds ==
    ASSUME IInv, DestroyQueues
    PROVE  IInv'
  <1>1. TypeOK /\ RoundsOK /\ TakenOnce
    BY DEF IInv
  <1>2. /\ pc = "ended" /\ queue' = NoBundles /\ bundles_by_tgid = NoBundles
        /\ UNCHANGED <<listed, arrived, worker, handled, kept, pc, ready,
                       bundles_by_tgid, gone, loans, taken, failed>>
    BY <1>1 DEF DestroyQueues, executorVars, takeVars, RoundsOK
  <1>3. TypeOK'
    BY <1>1, <1>2 DEF TypeOK, NoBundles
  <1>4. RoundsOK'
    BY <1>1, <1>2 DEF RoundsOK
  <1>5. \A g \in ThreadGroups : Line(g)' = <<>>
    BY <1>2 DEF Line, NoBundles
  <1>6. Drop
    BY <1>1, <1>2, <1>5 DEF Drop, Ended, TakenOnce, TypeOK
  <1> QED  BY <1>3, <1>4, <1>6, DropHolds

-----------------------------------------------------------------------------
(***************************************************************************)
(* Steps that take                                                         *)
(***************************************************************************)

\* What a step of take_and_bundle and of the workers does to the lines.
TakeStep == UNCHANGED <<listed, arrived, queue, worker, handled, kept, pc>>

LEMMA AppendConcat ==
    ASSUME NEW T, NEW s \in Seq(T), NEW t \in Seq(T), NEW x \in T
    PROVE  s \o Append(t, x) = Append(s \o t, x)
  OBVIOUS

\* A bundle is made and emplaced at the end of its group's line.
LEMMA Emplaced ==
    ASSUME TypeOK, NEW s \in Entities, NEW m \in Msgs, s \in listed,
           Emplace(s, m), TakeStep
    PROVE  /\ TgidOf[s] \in ThreadGroups /\ Bundle(s, m) \in BundleType
           /\ bundles_by_tgid' \in [ThreadGroups -> Seq(BundleType)]
           /\ Line(TgidOf[s])' = Append(Line(TgidOf[s]), Bundle(s, m))
           /\ \A g \in ThreadGroups \ {TgidOf[s]} : Line(g)' = Line(g)
  <1>1. PICK g \in ThreadGroups : g = TgidOf[s]
    BY ListedGroups
  <1>2. PICK b : b = Bundle(s, m)
    OBVIOUS
  <1>3. b \in BundleType /\ b.entity = s
    BY <1>2 DEF BundleType, Bundle
  <1>4. m # Nothing
    BY DEF Msgs
  <1>5. bundles_by_tgid' = [bundles_by_tgid EXCEPT ![g] = Append(@, b)]
    <2>1. Bundle(s, m).entity = s
      BY DEF Bundle
    <2> QED  BY <1>1, <1>2, <1>4, <2>1 DEF Emplace, emplace_bundle
  <1>6. /\ \A h \in ThreadGroups : /\ queue[h] \in Seq(BundleType)
                                   /\ bundles_by_tgid[h] \in Seq(BundleType)
        /\ bundles_by_tgid \in [ThreadGroups -> Seq(BundleType)]
    BY DEF TypeOK
  <1>7. Append(bundles_by_tgid[g], b) \in Seq(BundleType)
    BY <1>3, <1>6
  <1>8. /\ bundles_by_tgid' \in [ThreadGroups -> Seq(BundleType)]
        /\ bundles_by_tgid'[g] = Append(bundles_by_tgid[g], b)
        /\ \A h \in ThreadGroups \ {g} : bundles_by_tgid'[h] = bundles_by_tgid[h]
    BY <1>5, <1>6, <1>7
  <1>9. queue[g] \o Append(bundles_by_tgid[g], b)
          = Append(queue[g] \o bundles_by_tgid[g], b)
    <2>1. PICK q \in Seq(BundleType), r \in Seq(BundleType) :
            q = queue[g] /\ r = bundles_by_tgid[g]
      BY <1>6
    <2>2. q \o Append(r, b) = Append(q \o r, b)
      BY <1>3, AppendConcat
    <2> QED  BY <2>1, <2>2
  <1>10. Line(g)' = Append(Line(g), b)
    BY <1>8, <1>9 DEF Line, TakeStep
  <1>11. \A h \in ThreadGroups \ {g} : Line(h)' = Line(h)
    BY <1>8 DEF Line, TakeStep
  <1> QED  BY <1>1, <1>2, <1>3, <1>8, <1>10, <1>11

LEMMA NotEmplaced ==
    ASSUME TypeOK, NEW s \in Entities, NEW m, m = Nothing \/ s \notin listed,
           Emplace(s, m), TakeStep
    PROVE  bundles_by_tgid' = bundles_by_tgid /\ LineSame /\ WorkerSame
  BY DEF Emplace, LineSame, Line, WorkerSame, TakeStep

LEMMA EmplacedAmount ==
    ASSUME TypeOK, NEW s \in Entities, NEW m \in Msgs, s \in listed,
           Emplace(s, m), TakeStep, NEW e \in Entities, NEW n
    PROVE  Amount(e, n)' = Amount(e, n) + (IF e = s /\ n = m THEN 1 ELSE 0)
  <1>1. PICK x, b : x = Bundle(e, n) /\ b = Bundle(s, m)
    OBVIOUS
  <1>2. x = b <=> e = s /\ n = m
    <2>1. ASSUME x = b PROVE e = s /\ n = m
      <3>1. x.entity = e /\ x.message = n /\ b.entity = s /\ b.message = m
        BY <1>1 DEF Bundle
      <3> QED  BY <2>1, <3>1
    <2> QED  BY <1>1, <2>1
  <1>3. /\ Count(n, handled[e])' = Count(n, handled[e]) /\ listed' = listed
        /\ Runners(x)' = Runners(x)
    BY DEF Count, Runners, Runs, TakeStep
  <1>4. PICK c \in Nat, r \in Nat :
          c = Count(n, handled[e]) /\ r = Cardinality(Runners(x))
    BY <1>1, AmountType
  <1>5. CASE e \notin listed
    <2>1. Amount(e, n)' = c + (r + 0) /\ Amount(e, n) = c + (r + 0)
      BY <1>1, <1>3, <1>4, <1>5 DEF Amount, Bundles
    <2> QED  BY <1>5, <2>1
  <1>6. CASE e \in listed
    <2>1. PICK g \in ThreadGroups : g = TgidOf[e]
      BY <1>6, ListedGroups
    <2>2. Line(g) \in Seq(BundleType) /\ b \in BundleType
      BY <1>1, LineType, Emplaced
    <2>3. PICK k \in Nat : k = Count(x, Line(g))
      BY <2>2, PlacesFinite
    <2>4. Count(x, Line(g)') = k + (IF x = b THEN 1 ELSE 0)
      <3>1. CASE g = TgidOf[s]
        <4>1. Line(g)' = Append(Line(g), b)
          BY <1>1, <3>1, Emplaced
        <4> QED  BY <2>2, <2>3, <4>1, CountAppend
      <3>2. CASE g # TgidOf[s]
        <4>1. Line(g)' = Line(g) /\ x # b
          BY <1>2, <2>1, <3>2, Emplaced
        <4> QED  BY <2>3, <4>1
      <3> QED  BY <3>1, <3>2
    <2>5. PICK d \in Nat : d = IF x = b THEN 1 ELSE 0
      OBVIOUS
    <2>6. Amount(e, n) = c + (r + k) /\ Amount(e, n)' = c + (r + (k + d))
      BY <1>1, <1>3, <1>4, <1>6, <2>1, <2>3, <2>4, <2>5
         DEF Amount, Bundles, Count
    <2>7. Amount(e, n)' = Amount(e, n) + d
      BY <2>6
    <2> QED  BY <1>2, <2>5, <2>7
  <1> QED  BY <1>5, <1>6

\* The new bundle comes after all that there is.
LEMMA EmplacedInOrder ==
    ASSUME IInv, NEW s \in Entities, NEW m \in Msgs, s \in listed,
           Emplace(s, m), TakeStep, \A e \in Entities : gone[e] <= gone'[e],
           gone' \in [Entities -> Nat],
           m \in Nat => gone[s] < m /\ m <= gone'[s]
    PROVE  Home' /\ LinesInOrder' /\ NothingAhead' /\ OneWorkerInOrder'
  <1>1. /\ TypeOK /\ Home /\ LinesInOrder /\ NothingAhead /\ OneWorkerInOrder
    BY DEF IInv
  <1>2. /\ listed \subseteq Entities
        /\ \A g \in ThreadGroups : Line(g) \in Seq(BundleType)
    BY <1>1, LineType, ListedGroups
  <1>3. PICK h \in ThreadGroups, b \in BundleType : h = TgidOf[s] /\ b = Bundle(s, m)
    BY <1>1, Emplaced
  <1>4. /\ b.entity = s /\ b.message = m
        /\ Line(h)' = Append(Line(h), b)
        /\ \A g \in ThreadGroups \ {h} : Line(g)' = Line(g)
    BY <1>1, <1>3, Emplaced DEF Bundle
  <1>5. /\ Len(Line(h)) \in Nat /\ DOMAIN Line(h) = 1..Len(Line(h))
        /\ DOMAIN (Line(h)') = 1..(Len(Line(h)) + 1)
        /\ (Line(h)')[Len(Line(h)) + 1] = b
        /\ \A i \in DOMAIN Line(h) : i \in DOMAIN (Line(h)')
                                     /\ (Line(h)')[i] = Line(h)[i]
    BY <1>2, <1>4
  \* An element of a line is an old one or, at its end, the new one.
  <1>6. ASSUME NEW g \in ThreadGroups, NEW i \in DOMAIN (Line(g)')
        PROVE  \/ i \in DOMAIN Line(g) /\ (Line(g)')[i] = Line(g)[i]
               \/ /\ g = h /\ i = Len(Line(h)) + 1 /\ (Line(g)')[i] = b
                  /\ \A j \in DOMAIN (Line(g)') : j # i => j < i
    <2>1. CASE g = h
      <3>1. CASE i = Len(Line(h)) + 1
        BY <1>5, <2>1, <3>1
      <3>2. CASE i # Len(Line(h)) + 1
        <4>1. i \in DOMAIN Line(h)
          BY <1>5, <1>6, <2>1, <3>2
        <4> QED  BY <1>5, <2>1, <4>1
      <3> QED  BY <3>1, <3>2
    <2>2. CASE g # h
      BY <1>4, <1>6, <2>2
    <2> QED  BY <2>1, <2>2
  <1>7. UNCHANGED <<listed, worker, handled>>
    BY DEF TakeStep
  <1>8. Home'
    <2>1. ASSUME NEW g \in ThreadGroups, NEW i \in DOMAIN (Line(g)')
          PROVE  (Line(g)')[i].entity \in listed
                 /\ TgidOf[(Line(g)')[i].entity] = g
      <3>1. CASE i \in DOMAIN Line(g) /\ (Line(g)')[i] = Line(g)[i]
        BY <1>1, <3>1 DEF Home
      <3>2. CASE g = h /\ (Line(g)')[i] = b
        BY <1>3, <1>4, <3>2
      <3> QED  BY <1>6, <2>1, <3>1, <3>2
    <2> QED  BY <1>1, <1>7, <2>1 DEF Home
  <1>9. \A e \in Entities : \A n : Past(e, n) => Past(e, n)'
    BY <1>1 DEF Past, TypeOK
  <1>10. Past(s, m)'
    BY DEF Past
  <1>11. NothingAhead'
    <2>1. ASSUME NEW g \in ThreadGroups, NEW i \in DOMAIN (Line(g)')
          PROVE  Past(Line(g)[i].entity, Line(g)[i].message)'
      <3>1. CASE i \in DOMAIN Line(g) /\ (Line(g)')[i] = Line(g)[i]
        <4>1. /\ Line(g)[i].entity \in Entities
              /\ Past(Line(g)[i].entity, Line(g)[i].message)
          BY <1>1, <1>2, <3>1 DEF Home, NothingAhead
        <4>2. PICK c : c = Line(g)[i]
          OBVIOUS
        <4>3. Past(c.entity, c.message)'
          BY <1>9, <4>1, <4>2
        <4> QED  BY <3>1, <4>2, <4>3 DEF Past
      <3>2. CASE g = h /\ (Line(g)')[i] = b
        BY <1>4, <1>10, <3>2 DEF Past
      <3> QED  BY <1>6, <2>1, <3>1, <3>2
    <2>2. \A w \in Workers : worker[w].pc = "run" =>
            worker[w].bundle.entity \in Entities
      BY <1>1, <1>2 DEF Home
    <2>3. \A w \in Workers : worker[w].pc = "run" =>
            Past(worker[w].bundle.entity, worker[w].bundle.message)'
      BY <1>1, <1>7, <1>9, <2>2 DEF NothingAhead, Past
    <2>4. \A e \in Entities : \A i \in DOMAIN handled[e] : Past(e, handled[e][i])'
      BY <1>1, <1>7, <1>9 DEF NothingAhead, Past
    <2> QED  BY <1>7, <2>1, <2>3, <2>4 DEF NothingAhead, Past
  <1>12. \A n : Past(s, n) => Before(n, m)
    BY <1>1 DEF Past, Before, TypeOK
  <1>13. LinesInOrder'
    <2> SUFFICES ASSUME NEW g \in ThreadGroups,
                        NEW i \in DOMAIN (Line(g)'), NEW j \in DOMAIN (Line(g)'),
                        i < j, (Line(g)')[i].entity = (Line(g)')[j].entity
                 PROVE  Before((Line(g)')[i].message, (Line(g)')[j].message)
      BY DEF LinesInOrder, Before
    <2>1. i \in Int /\ j \in Int
      <3>1. DOMAIN (Line(g)') \subseteq Int
        <4>1. DOMAIN Line(g) = 1..Len(Line(g))
          BY <1>2
        <4> QED  BY <1>4, <1>5, <4>1
      <3> QED  BY <3>1
    <2>2. i \in DOMAIN Line(g) /\ (Line(g)')[i] = Line(g)[i]
      BY <1>6, <2>1
    <2>3. CASE j \in DOMAIN Line(g) /\ (Line(g)')[j] = Line(g)[j]
      BY <1>1, <2>2, <2>3 DEF LinesInOrder
    <2>4. CASE g = h /\ (Line(g)')[j] = b
      <3>1. Past(s, Line(g)[i].message)
        BY <1>1, <1>4, <2>2, <2>4 DEF NothingAhead
      <3> QED  BY <1>4, <1>12, <2>2, <2>4, <3>1
    <2> QED  BY <1>6, <2>3, <2>4
  <1>14. OneWorkerInOrder'
    <2> SUFFICES ASSUME NEW e \in listed, Alone(e)
                 PROVE  OneInOrder(e)'
      BY <1>7 DEF OneWorkerInOrder, Alone
    <2>1. OneInOrder(e) /\ TgidOf[e] \in ThreadGroups /\ e \in Entities
      BY <1>1, <1>2, ListedGroups DEF OneWorkerInOrder
    <2>2. PICK g \in ThreadGroups : g = TgidOf[e]
      BY <2>1
    <2>3. ASSUME NEW k \in DOMAIN (Line(g)'), (Line(g)')[k].entity = e
          PROVE  /\ \A i \in DOMAIN handled[e] :
                      Before(handled[e][i], (Line(g)')[k].message)
                 /\ \A w \in Workers :
                      worker[w].pc = "run" /\ worker[w].bundle.entity = e =>
                        Before(worker[w].bundle.message, (Line(g)')[k].message)
      <3>1. CASE k \in DOMAIN Line(g) /\ (Line(g)')[k] = Line(g)[k]
        BY <2>1, <2>2, <2>3, <3>1 DEF OneInOrder
      <3>2. CASE (Line(g)')[k] = b
        <4>1. e = s /\ (Line(g)')[k].message = m
          BY <1>4, <2>3, <3>2
        <4>2. \A i \in DOMAIN handled[e] : Past(s, handled[e][i])
          BY <1>1, <4>1 DEF NothingAhead
        <4>3. \A w \in Workers :
                worker[w].pc = "run" /\ worker[w].bundle.entity = e =>
                  Past(s, worker[w].bundle.message)
          BY <1>1, <4>1 DEF NothingAhead
        <4> QED  BY <1>12, <4>1, <4>2, <4>3
      <3> QED  BY <1>6, <2>3, <3>1, <3>2
    <2> QED
      BY <1>7, <2>1, <2>2, <2>3 DEF OneInOrder, Sorted, Before
  <1> QED  BY <1>8, <1>11, <1>13, <1>14

\* Message or tick i of e, the first one that is not gone, is taken.
Taken(e, i) ==
    /\ pc = "take" /\ Emplace(e, i) /\ TakeStep /\ UNCHANGED failed
    /\ gone' = [gone EXCEPT ![e] = i] /\ gone[e] < i /\ i <= arrived[e]
    /\ taken' = [taken EXCEPT ![e] = @ \cup {i}]
    /\ loans \subseteq loans' /\ loans' \subseteq loans \cup {<<e, i>>}
    /\ <<e, i>> \in loans' \ loans => Kind(e) = "loaned"
    /\ ready' = ready \ {e}

LEMMA TakenHolds ==
    ASSUME IInv, NEW s \in Entities, NEW i \in Nat, Taken(s, i)
    PROVE  IInv'
  <1>1. /\ TypeOK /\ RoundsOK /\ Home /\ TakenOnce /\ FailuresCounted /\ LoansOut
        /\ LinesInOrder /\ NothingAhead /\ OneWorkerInOrder
    BY DEF IInv
  <1>2. /\ i \in Msgs /\ i # Nothing /\ i # Blank /\ i # Garbage
        /\ Emplace(s, i) /\ TakeStep
    BY DEF Msgs, Taken
  <1>3. /\ gone' \in [Entities -> Nat] /\ gone'[s] = i
        /\ taken' \in [Entities -> SUBSET Nat] /\ taken'[s] = taken[s] \cup {i}
        /\ \A e \in Entities \ {s} : gone'[e] = gone[e] /\ taken'[e] = taken[e]
        /\ loans' \subseteq Entities \X Nat
    BY <1>1 DEF Taken, TypeOK
  <1>4. \A e \in Entities : gone[e] \in Nat /\ gone'[e] \in Nat /\ gone[e] <= gone'[e]
    <2> SUFFICES ASSUME NEW e \in Entities
                 PROVE  gone[e] \in Nat /\ gone'[e] \in Nat /\ gone[e] <= gone'[e]
      OBVIOUS
    <2>1. PICK k \in Nat : k = gone[e]
      BY <1>1 DEF TypeOK
    <2>2. k <= k /\ (e = s => k <= i)
      BY <2>1 DEF Taken
    <2> QED  BY <1>3, <2>1, <2>2
  <1>5. bundles_by_tgid' \in [ThreadGroups -> Seq(BundleType)]
    <2>1. CASE s \in listed
      BY <1>1, <1>2, <2>1, Emplaced
    <2>2. CASE s \notin listed
      BY <1>1, <1>2, <2>2, NotEmplaced DEF TypeOK
    <2> QED  BY <2>1, <2>2
  <1>6. TypeOK'
    BY <1>1, <1>3, <1>5 DEF TypeOK, TakeStep, Taken
  <1>7. RoundsOK'
    <2>1. /\ ready' \subseteq Entities
          /\ \A e \in ready' \cap Timers : gone'[e] < arrived'[e]
          /\ \A e \in Entities : gone'[e] <= arrived'[e]
      BY <1>1, <1>3 DEF RoundsOK, TakeStep, Taken
    <2>2. pc' # "take" => bundles_by_tgid' = NoBundles
      BY DEF Taken, TakeStep
    <2> QED  BY <2>1, <2>2 DEF RoundsOK
  <1>8. i \notin taken[s] /\ Amount(s, i) = 0
    <2>1. i \notin taken[s]
      BY <1>1, <1>4 DEF TakenOnce, Taken
    <2>2. Amount(s, i) \in Nat /\ ~(Amount(s, i) > 0)
      BY <1>1, <2>1, AmountType DEF TakenOnce
    <2> QED  BY <2>1, <2>2
  <1>9. Home' /\ LinesInOrder' /\ NothingAhead' /\ OneWorkerInOrder'
    <2>1. CASE s \in listed
      BY <1>2, <1>3, <1>4, <2>1, EmplacedInOrder DEF Taken
    <2>2. CASE s \notin listed
      <3>1. QuietOrder
        BY <1>1, <1>2, <1>3, <1>4, <2>2, NotEmplaced DEF QuietOrder, TakeStep
      <3> QED  BY <1>1, <3>1, QuietOrderHolds
    <2> QED  BY <2>1, <2>2
  \* The counts of every other message stay.
  <1>10. \A e \in Entities : \A n : Amount(e, n)' =
           Amount(e, n) + (IF s \in listed /\ e = s /\ n = i THEN 1 ELSE 0)
    <2>1. CASE s \in listed
      BY <1>1, <1>2, <2>1, EmplacedAmount
    <2>2. CASE s \notin listed
      <3>1. \A e \in Entities : \A n : Amount(e, n)' = Amount(e, n)
        BY <1>1, <1>2, <2>2, NotEmplaced, SameAmount DEF TakeStep
      <3>2. \A e \in Entities : \A n : Amount(e, n) \in Nat
        BY <1>1, AmountType
      <3> QED  BY <2>2, <3>1, <3>2
    <2> QED  BY <2>1, <2>2
  <1>11. \A e \in Entities : \A n : ~(e = s /\ n = i) => Amount(e, n)' = Amount(e, n)
    BY <1>1, <1>10, AmountType
  <1>12. Amount(s, i)' = IF s \in listed THEN 1 ELSE 0
    BY <1>8, <1>10
  <1>13. listed' = listed /\ (Ended' <=> Ended)
    BY <1>2 DEF TakeStep, Ended
  <1>14. TakenOnce'
    <2>1. ASSUME NEW e \in Entities, NEW n \in taken'[e] PROVE n <= gone'[e]
      <3>1. CASE e = s /\ n = i
        BY <1>3, <3>1
      <3>2. CASE n \in taken[e]
        <4>1. PICK k \in Nat, l \in Nat : k = gone[e] /\ l = gone'[e] /\ k <= l
          BY <1>4
        <4>2. n \in Nat /\ n <= k
          BY <1>1, <3>2, <4>1 DEF TakenOnce, TypeOK
        <4>3. n <= l
          BY <4>1, <4>2
        <4> QED  BY <4>1, <4>3
      <3> QED  BY <1>3, <2>1, <3>1, <3>2
    <2>2. ASSUME NEW e \in Entities, NEW n \in Nat
          PROVE  Amount(e, n)' <= 1 /\ (Amount(e, n)' > 0 => n \in taken'[e])
      <3>1. CASE e = s /\ n = i
        BY <1>3, <1>12, <3>1
      <3>2. CASE ~(e = s /\ n = i)
        BY <1>1, <1>3, <1>11, <3>2 DEF TakenOnce
      <3> QED  BY <3>1, <3>2
    <2>3. ASSUME NEW e \in Entities, e \in listed, ~Ended, NEW n \in taken'[e]
          PROVE  Amount(e, n)' = 1
      <3>1. CASE e = s /\ n = i
        BY <1>12, <2>3, <3>1
      <3>2. CASE ~(e = s /\ n = i)
        <4>1. n \in taken[e]
          BY <1>3, <2>3, <3>2
        <4> QED  BY <1>1, <1>11, <2>3, <3>2, <4>1 DEF TakenOnce
      <3> QED  BY <3>1, <3>2
    <2> QED  BY <1>13, <2>1, <2>2, <2>3 DEF TakenOnce
  <1>15. FailuresCounted'
    <2>1. \A e \in Entities : Empty(e)' = Empty(e)
      BY <1>2, <1>11 DEF Empty
    <2>2. \A e \in listed \cap Subscriptions : Empty(e)' = Empty(e)
      BY <1>1, <2>1, ListedGroups
    <2>3. failed' = failed
      BY DEF Taken
    <2> QED  BY <1>1, <1>13, <2>2, <2>3 DEF FailuresCounted
  <1>16. LoansOut'
    <2> SUFFICES ASSUME NEW e \in Entities, NEW n \in Nat, <<e, n>> \in loans' \ kept'
                 PROVE  /\ Kind(e) = "loaned" /\ n \in taken'[e]
                        /\ \/ Count(n, handled'[e]) = 0
                           \/ \E w \in Workers : Returns(w, Bundle(e, n))'
                           \/ e \notin listed \/ Ended
      BY <1>13 DEF LoansOut, Count
    <2>1. UNCHANGED <<handled, worker, kept>>
      BY <1>2 DEF TakeStep
    <2>2. CASE <<e, n>> \in loans
      BY <1>1, <1>3, <2>1, <2>2 DEF LoansOut, Returns
    <2>3. CASE <<e, n>> \notin loans
      <3>1. e = s /\ n = i /\ Kind(e) = "loaned"
        BY <2>3 DEF Taken
      <3>2. Count(i, handled[s]) = 0
        BY <1>1, <1>8, AmountType DEF Amount
      <3> QED  BY <1>3, <2>1, <3>1, <3>2
    <2> QED  BY <2>2, <2>3
  <1> QED
    BY <1>6, <1>7, <1>9, <1>14, <1>15, <1>16 DEF IInv

\* A take that got no message: a bundle with a blank one or with the pointer
\* that nobody set, or none.
LEMMA FailedHolds ==
    ASSUME IInv, NEW s \in Entities, TakeFails(s)
    PROVE  IInv'
  <1>1. /\ TypeOK /\ RoundsOK /\ Home /\ TakenOnce /\ FailuresCounted /\ LoansOut
        /\ LinesInOrder /\ NothingAhead /\ OneWorkerInOrder
    BY DEF IInv
  <1>2. PICK m \in MessageNotTaken(s) : Emplace(s, m)
    BY DEF TakeFails
  <1>3. /\ m = Nothing \/ m \in {Blank, Garbage}
        /\ Kind(s) # "loaned" => m = Blank
    BY <1>2 DEF MessageNotTaken
  <1>4. /\ TakeStep /\ UNCHANGED <<gone, loans, taken>> /\ pc = "take"
        /\ failed' = [failed EXCEPT ![s] = @ + 1] /\ ready' = ready \ {s}
        /\ s \in Subscriptions
    BY <1>2 DEF TakeFails, TakeStep, Taking, runVars, Emplace
  <1>5. /\ failed' \in [Entities -> Nat] /\ failed'[s] = failed[s] + 1
        /\ \A e \in Entities \ {s} : failed'[e] = failed[e]
    BY <1>1, <1>4 DEF TypeOK
  <1>6. \A e \in Entities : gone[e] \in Nat /\ gone[e] <= gone'[e]
    BY <1>1, <1>4 DEF TypeOK
  <1>7. RoundsOK'
    BY <1>1, <1>4 DEF RoundsOK, TakeStep
  <1>8. listed' = listed /\ (Ended' <=> Ended)
    BY <1>4 DEF TakeStep, Ended
  <1>9. CASE m = Nothing \/ s \notin listed
    <2>1. bundles_by_tgid' = bundles_by_tgid /\ LineSame /\ WorkerSame
      BY <1>1, <1>2, <1>4, <1>9, NotEmplaced
    <2>2. TypeOK'
      BY <1>1, <1>4, <1>5, <2>1 DEF TypeOK, TakeStep
    <2>3. QuietOrder
      BY <1>1, <1>4, <1>6, <2>1 DEF QuietOrder, TakeStep, TypeOK
    <2>4. \A e \in Entities : \A n : Amount(e, n)' = Amount(e, n)
      BY <1>1, <1>4, <2>1, SameAmount DEF TakeStep
    <2>5. TakenOnce'
      BY <1>1, <1>4, <1>8, <2>4 DEF TakenOnce, TypeOK
    <2>6. FailuresCounted'
      <3> SUFFICES ASSUME NEW e \in listed \cap Subscriptions
                   PROVE  /\ Empty(e)' <= failed'[e]
                          /\ \/ Ended \/ Kind(e) = "loaned"
                             \/ Empty(e)' = failed'[e]
        BY <1>8 DEF FailuresCounted
      <3>1. e \in Entities /\ Empty(e)' = Empty(e)
        <4>1. e \in Entities
          BY <1>1, ListedGroups
        <4> QED  BY <2>4, <4>1 DEF Empty
      <3>2. PICK a \in Nat, f \in Nat : a = Empty(e) /\ f = failed[e]
        <4>1. Amount(e, Blank) \in Nat /\ Amount(e, Garbage) \in Nat
          BY <1>1, <3>1, AmountType
        <4> QED  BY <1>1, <3>1, <4>1 DEF Empty, TypeOK
      <3>3. a <= f /\ (Ended \/ Kind(e) = "loaned" \/ a = f)
        BY <1>1, <3>2 DEF FailuresCounted
      <3>4. CASE e = s
        <4>1. failed'[e] = f + 1 /\ Kind(e) = "loaned"
          BY <1>3, <1>5, <1>9, <3>2, <3>4
        <4>2. a <= f + 1
          BY <3>3
        <4> QED  BY <3>1, <3>2, <4>1, <4>2
      <3>5. CASE e # s
        BY <1>5, <3>1, <3>2, <3>3, <3>5
      <3> QED  BY <3>4, <3>5
    <2>7. LoansOut'
      BY <1>1, <1>4, <1>8 DEF LoansOut, TakeStep, Count, Returns
    <2> QED
      BY <1>7, <2>2, <2>3, <2>5, <2>6, <2>7, QuietOrderHolds DEF IInv
  <1>10. CASE m # Nothing /\ s \in listed
    <2>1. m \in Msgs /\ m \notin Nat /\ m \in {Blank, Garbage}
      BY <1>3, <1>10 DEF Msgs
    <2>2. bundles_by_tgid' \in [ThreadGroups -> Seq(BundleType)]
      BY <1>1, <1>2, <1>4, <1>10, <2>1, Emplaced
    <2>3. TypeOK'
      BY <1>1, <1>4, <1>5, <2>2 DEF TypeOK, TakeStep
    <2>4. Home' /\ LinesInOrder' /\ NothingAhead' /\ OneWorkerInOrder'
      BY <1>1, <1>2, <1>4, <1>6, <1>10, <2>1, EmplacedInOrder DEF TypeOK
    <2>5. \A e \in Entities : \A n : Amount(e, n)' =
            Amount(e, n) + (IF e = s /\ n = m THEN 1 ELSE 0)
      BY <1>1, <1>2, <1>4, <1>10, <2>1, EmplacedAmount
    <2>6. \A e \in Entities : \A n : ~(e = s /\ n = m) => Amount(e, n)' = Amount(e, n)
      BY <1>1, <2>5, AmountType
    <2>7. TakenOnce'
      <3>1. \A e \in Entities : \A n \in Nat : Amount(e, n)' = Amount(e, n)
        BY <2>1, <2>6
      <3> QED  BY <1>1, <1>4, <1>8, <3>1 DEF TakenOnce, TypeOK
    <2>8. FailuresCounted'
      <3> SUFFICES ASSUME NEW e \in listed \cap Subscriptions
                   PROVE  /\ Empty(e)' <= failed'[e]
                          /\ \/ Ended \/ Kind(e) = "loaned"
                             \/ Empty(e)' = failed'[e]
        BY <1>8 DEF FailuresCounted
      <3>1. e \in Entities
        BY <1>1, ListedGroups
      <3>2. PICK a \in Nat, b \in Nat, f \in Nat :
              a = Amount(e, Blank) /\ b = Amount(e, Garbage) /\ f = failed[e]
        BY <1>1, <3>1, AmountType DEF TypeOK
      <3>3. a + b <= f /\ (Ended \/ Kind(e) = "loaned" \/ a + b = f)
        BY <1>1, <3>2 DEF FailuresCounted, Empty
      <3>4. CASE e = s
        <4>1. failed'[e] = f + 1
          BY <1>5, <3>2, <3>4
        <4>2. Empty(e)' = a + b + 1
          <5>1. CASE m = Blank
            <6>1. Amount(e, Blank)' = a + 1 /\ Amount(e, Garbage)' = b
              BY <2>5, <2>6, <3>1, <3>2, <3>4, <5>1
            <6> QED  BY <6>1 DEF Empty
          <5>2. CASE m = Garbage
            <6>1. Amount(e, Blank)' = a /\ Amount(e, Garbage)' = b + 1
              BY <2>5, <2>6, <3>1, <3>2, <3>4, <5>2
            <6> QED  BY <6>1 DEF Empty
          <5> QED  BY <2>1, <5>1, <5>2
        <4>3. /\ a + b + 1 <= f + 1
              /\ Ended \/ Kind(e) = "loaned" \/ a + b + 1 = f + 1
          BY <3>3
        <4> QED  BY <4>1, <4>2, <4>3
      <3>5. CASE e # s
        <4>1. Empty(e)' = a + b
          BY <2>6, <3>1, <3>2, <3>5 DEF Empty
        <4> QED  BY <1>5, <3>1, <3>2, <3>3, <3>5, <4>1
      <3> QED  BY <3>4, <3>5
    <2>9. LoansOut'
      BY <1>1, <1>4, <1>8 DEF LoansOut, TakeStep, Count, Returns
    <2> QED  BY <1>7, <2>3, <2>4, <2>7, <2>8, <2>9 DEF IInv
  <1> QED  BY <1>9, <1>10

LEMMA TakeHolds ==
    ASSUME IInv, NEW e \in Entities, Take(e)
    PROVE  IInv'
  <1>1. TypeOK /\ RoundsOK
    BY DEF IInv
  <1>2. CASE TakeFails(e)
    BY <1>2, FailedHolds
  <1>3. CASE UnlistedTimer(e) \/ TakeThrows(e)
    BY <1>3, ThrowingSteps
  <1>4. CASE TakeMessage(e)
    <2>1. PICK k \in Nat, i \in Nat : k = gone[e] /\ i = k + 1
      BY <1>1 DEF TypeOK
    <2>2. gone[e] < i /\ i <= arrived[e]
      BY <1>1, <1>4, <2>1 DEF TakeMessage, Waiting, TypeOK
    <2>3. Taken(e, i)
      <3>1. /\ Emplace(e, i) /\ gone' = [gone EXCEPT ![e] = i]
            /\ taken' = [taken EXCEPT ![e] = @ \cup {i}]
            /\ loans' = loans \cup (IF Kind(e) = "loaned" THEN {<<e, i>>} ELSE {})
            /\ Taking(e) /\ UNCHANGED <<faults, failed>>
        BY <1>4, <2>1 DEF TakeMessage, MessageTaken
      <3> QED
        BY <2>2, <3>1 DEF Taken, TakeStep, Taking, runVars, Emplace
    <2> QED  BY <2>3, TakenHolds
  <1>5. CASE CallTimer(e) /\ e \notin cancelled
    <2>1. PICK i \in Nat : i = arrived[e]
      BY <1>1 DEF TypeOK
    <2>2. gone[e] < i /\ i <= arrived[e]
      BY <1>1, <1>5, <2>1 DEF CallTimer, Taking, RoundsOK
    <2>3. Taken(e, i)
      BY <1>5, <2>1, <2>2 DEF CallTimer, Taken, TakeStep, Taking, runVars, Emplace
    <2> QED  BY <2>3, TakenHolds
  <1>6. CASE CallTimer(e) /\ e \in cancelled
    <2>1. /\ Emplace(e, Nothing) /\ TakeStep
          /\ UNCHANGED <<gone, taken, loans, failed>>
      BY <1>6 DEF CallTimer, TakeStep, Taking, runVars, Emplace
    <2>2. bundles_by_tgid' = bundles_by_tgid
      BY <1>1, <2>1, NotEmplaced
    <2>3. Outside /\ UNCHANGED <<arrived, pc>> /\ ready' = ready \ {e}
      BY <2>1, <2>2 DEF Outside, TakeStep, Emplace
    <2>4. RoundsOK'
      BY <1>1, <2>1, <2>3 DEF RoundsOK, Outside
    <2> QED  BY <1>1, <2>1, <2>3, <2>4, OutsideHolds DEF Ended, TypeOK
  <1> QED  BY <1>2, <1>3, <1>4, <1>5, <1>6 DEF Take

-----------------------------------------------------------------------------
(***************************************************************************)
(* Steps of the workers                                                    *)
(***************************************************************************)

\* A worker moves a bundle on, and loses none.
Passes ==
    /\ UNCHANGED <<listed, arrived, gone, taken, failed, pc, ready, bundles_by_tgid>>
    /\ \A e \in Entities : \A n : Amount(e, n)' = Amount(e, n)

LEMMA PassesHolds ==
    ASSUME IInv, Passes, TypeOK', Home', LoansOut', LinesInOrder', NothingAhead',
           OneWorkerInOrder'
    PROVE  IInv'
  <1>1. TypeOK /\ RoundsOK /\ TakenOnce /\ FailuresCounted
    BY DEF IInv
  <1>2. RoundsOK'
    BY <1>1 DEF RoundsOK, Passes
  <1>3. TakenOnce'
    BY <1>1 DEF TakenOnce, Passes, Ended
  <1>4. FailuresCounted'
    <2>1. listed \subseteq Entities
      BY <1>1, ListedGroups
    <2> QED  BY <1>1, <2>1 DEF FailuresCounted, Empty, Passes, Ended
  <1> QED  BY <1>2, <1>3, <1>4 DEF IInv

LEMMA WorkerWritten ==
    ASSUME TypeOK, NEW w \in Workers, NEW r \in WorkerType,
           worker' = [worker EXCEPT ![w] = r]
    PROVE  /\ worker' \in [Workers -> WorkerType] /\ worker'[w] = r
           /\ \A v \in Workers \ {w} : worker'[v] = worker[v]
  BY DEF TypeOK

LEMMA SequenceTail ==
    ASSUME NEW s \in Seq(BundleType), NEW t \in Seq(BundleType), s # <<>>
    PROVE  /\ s \o t # <<>> /\ Head(s \o t) = Head(s)
           /\ Tail(s) \o t = Tail(s \o t) /\ Tail(s) \in Seq(BundleType)
           /\ Head(s) \in BundleType
  <1>1. Len(s) \in Nat \ {0} /\ Len(t) \in Nat
    OBVIOUS
  <1>2. s \o t # <<>> /\ Head(s \o t) = Head(s) /\ Tail(s) \in Seq(BundleType)
        /\ Head(s) \in BundleType
    BY <1>1
  <1>3. Tail(s) \o t = Tail(s \o t)
    BY <1>1
  <1> QED  BY <1>2, <1>3

\* A worker takes the first bundle of his group's line.
LEMMA Dequeued ==
    ASSUME TypeOK, NEW w \in Workers, Dequeue(w)
    PROVE  \E g \in ThreadGroups, b \in BundleType :
             /\ g = WorksFor[w] /\ worker[w].pc = "idle"
             /\ queue' \in [ThreadGroups -> Seq(BundleType)]
             /\ worker' = [worker EXCEPT ![w] = [pc |-> "run", bundle |-> b]]
             /\ Line(g) # <<>> /\ Head(Line(g)) = b /\ Line(g)' = Tail(Line(g))
             /\ \A h \in ThreadGroups \ {g} : Line(h)' = Line(h)
  <1>1. PICK g \in ThreadGroups : g = WorksFor[w]
    OBVIOUS
  <1>2. /\ worker[w].pc = "idle" /\ queue[g] # <<>> /\ bundles_by_tgid' = bundles_by_tgid
        /\ worker' = [worker EXCEPT ![w] = [pc |-> "run", bundle |-> Head(queue[g])]]
        /\ queue' = [queue EXCEPT ![g] = Tail(@)]
    BY <1>1 DEF Dequeue, Working, executorVars
  <1>3. PICK q \in Seq(BundleType), r \in Seq(BundleType) :
          q = queue[g] /\ r = bundles_by_tgid[g]
    BY DEF TypeOK
  <1>4. /\ q \o r # <<>> /\ Head(q \o r) = Head(q) /\ Tail(q) \o r = Tail(q \o r)
        /\ Tail(q) \in Seq(BundleType) /\ Head(q) \in BundleType
    <2>1. q # <<>>
      BY <1>2, <1>3
    <2> QED  BY <2>1, SequenceTail
  <1>5. /\ queue' \in [ThreadGroups -> Seq(BundleType)] /\ queue'[g] = Tail(q)
        /\ \A h \in ThreadGroups \ {g} : queue'[h] = queue[h]
    BY <1>2, <1>3, <1>4 DEF TypeOK
  <1>6. Line(g) = q \o r /\ Line(g)' = Tail(q) \o r
    BY <1>2, <1>3, <1>5 DEF Line
  <1>7. \A h \in ThreadGroups \ {g} : Line(h)' = Line(h)
    BY <1>2, <1>5 DEF Line
  <1>8. PICK b \in BundleType : b = Head(q)
    BY <1>4
  <1>9. worker' = [worker EXCEPT ![w] = [pc |-> "run", bundle |-> b]]
    BY <1>2, <1>3, <1>8
  <1>10. Line(g) # <<>> /\ Head(Line(g)) = b /\ Line(g)' = Tail(Line(g))
    BY <1>4, <1>6, <1>8
  <1> QED  BY <1>1, <1>2, <1>5, <1>7, <1>9, <1>10, Zenon

\* The bundle leaves the line, and the worker runs it.
LEMMA DequeuedAmount ==
    ASSUME TypeOK, Home, NEW w \in Workers, Dequeue(w), listed' = listed,
           handled' = handled, NEW e \in Entities, NEW n
    PROVE  Amount(e, n)' = Amount(e, n)
  <1>1. PICK g \in ThreadGroups, b \in BundleType :
          /\ g = WorksFor[w] /\ worker[w].pc = "idle"
          /\ worker' = [worker EXCEPT ![w] = [pc |-> "run", bundle |-> b]]
          /\ Line(g) # <<>> /\ Head(Line(g)) = b /\ Line(g)' = Tail(Line(g))
          /\ \A h \in ThreadGroups \ {g} : Line(h)' = Line(h)
    BY Dequeued
  <1>2. PICK x : x = Bundle(e, n)
    OBVIOUS
  <1>3. PICK r : r = [pc |-> "run", bundle |-> b]
    OBVIOUS
  <1>4. r \in WorkerType /\ r.pc = "run" /\ r.bundle = b
    BY <1>3 DEF WorkerType, WorkerPCs
  <1>5. worker'[w] = r /\ \A v \in Workers \ {w} : worker'[v] = worker[v]
    BY <1>1, <1>3, <1>4, WorkerWritten
  <1>6. /\ Runners(x)' = Runners(x) \cup (IF b = x THEN {w} ELSE {})
        /\ w \notin Runners(x)
    BY <1>1, <1>4, <1>5 DEF Runners, Runs
  <1>7. IsFiniteSet(Runners(x)) /\ Count(n, handled[e])' = Count(n, handled[e])
    BY <1>2, AmountType DEF Count
  <1>8. PICK c \in Nat, k \in Nat :
          c = Count(n, handled[e]) /\ k = Cardinality(Runners(x))
    BY <1>2, AmountType
  <1>9. PICK d \in Nat : d = IF b = x THEN 1 ELSE 0
    OBVIOUS
  <1>10. Cardinality(Runners(x))' = k + d
    <2>1. CASE b = x
      <3>1. Cardinality(Runners(x) \cup {w}) = Cardinality(Runners(x)) + 1
        BY <1>6, <1>7, FS_AddElement
      <3> QED  BY <1>6, <1>8, <1>9, <2>1, <3>1
    <2>2. CASE b # x
      BY <1>6, <1>8, <1>9, <2>2
    <2> QED  BY <2>1, <2>2
  <1>11. Line(g) \in Seq(BundleType) /\ DOMAIN Line(g) = 1..Len(Line(g))
         /\ 1 \in DOMAIN Line(g) /\ Line(g)[1] = b
    BY <1>1, LineType
  <1>12. b.entity \in listed /\ TgidOf[b.entity] = g
    BY <1>11 DEF Home
  <1>13. CASE e \in listed
    <2>1. PICK h \in ThreadGroups : h = TgidOf[e]
      BY <1>13, ListedGroups
    <2>2. PICK l \in Nat : l = Count(x, Line(h)')
      <3>1. Line(h)' \in Seq(BundleType)
        <4>1. Tail(Line(g)) \in Seq(BundleType)
          BY <1>1, <1>11
        <4> QED  BY <1>1, <4>1, LineType
      <3> QED  BY <3>1, PlacesFinite
    <2>3. Count(x, Line(h)) = l + d
      <3>1. CASE h = g
        <4>1. Count(x, Line(g)) = Count(x, Tail(Line(g))) + d
          BY <1>1, <1>9, <1>11, CountHead
        <4> QED  BY <1>1, <2>2, <3>1, <4>1
      <3>2. CASE h # g
        <4>1. b # x
          BY <1>2, <1>12, <2>1, <3>2 DEF Bundle
        <4> QED  BY <1>1, <1>9, <2>2, <3>2, <4>1
      <3> QED  BY <3>1, <3>2
    <2>4. /\ Amount(e, n) = c + (k + (l + d)) /\ Amount(e, n)' = c + ((k + d) + l)
      BY <1>2, <1>7, <1>8, <1>10, <1>13, <2>1, <2>2, <2>3 DEF Amount, Bundles, Count
    <2> QED  BY <2>4
  <1>14. CASE e \notin listed
    <2>1. d = 0
      BY <1>2, <1>9, <1>12, <1>14 DEF Bundle
    <2>2. Amount(e, n) = c + (k + 0) /\ Amount(e, n)' = c + ((k + d) + 0)
      BY <1>2, <1>7, <1>8, <1>10, <1>14 DEF Amount, Bundles
    <2> QED  BY <2>1, <2>2
  <1> QED  BY <1>13, <1>14

LEMMA DequeueHolds ==
    ASSUME IInv, NEW w \in Workers, Dequeue(w)
    PROVE  IInv'
  <1>1. /\ TypeOK /\ Home /\ LoansOut /\ LinesInOrder /\ NothingAhead
        /\ OneWorkerInOrder
    BY DEF IInv
  <1>2. UNCHANGED <<listed, arrived, gone, pc, ready, bundles_by_tgid, handled,
                    taken, failed, loans, kept>>
    BY DEF Dequeue, Working, executorVars
  <1>3. PICK g \in ThreadGroups, b \in BundleType :
          /\ g = WorksFor[w] /\ worker[w].pc = "idle"
          /\ queue' \in [ThreadGroups -> Seq(BundleType)]
          /\ worker' = [worker EXCEPT ![w] = [pc |-> "run", bundle |-> b]]
          /\ Line(g) # <<>> /\ Head(Line(g)) = b /\ Line(g)' = Tail(Line(g))
          /\ \A h \in ThreadGroups \ {g} : Line(h)' = Line(h)
    BY <1>1, Dequeued
  <1>4. PICK r \in WorkerType :
          r = [pc |-> "run", bundle |-> b] /\ r.pc = "run" /\ r.bundle = b
    <2>1. PICK r : r = [pc |-> "run", bundle |-> b]
      OBVIOUS
    <2>2. r \in WorkerType /\ r.pc = "run" /\ r.bundle = b
      BY <2>1 DEF WorkerType, WorkerPCs
    <2> QED  BY <2>1, <2>2
  <1>5. /\ worker' \in [Workers -> WorkerType] /\ worker'[w] = r
        /\ \A v \in Workers \ {w} : worker'[v] = worker[v]
    BY <1>1, <1>3, <1>4, WorkerWritten
  <1>6. TypeOK'
    BY <1>1, <1>2, <1>3, <1>5 DEF TypeOK
  <1>7. Passes
    BY <1>1, <1>2, DequeuedAmount DEF Passes
  <1>8. /\ Line(g) \in Seq(BundleType) /\ DOMAIN Line(g) = 1..Len(Line(g))
        /\ 1 \in DOMAIN Line(g) /\ Line(g)[1] = b
        /\ \A i \in DOMAIN (Line(g)') : /\ i \in Nat /\ i > 0 /\ i + 1 \in DOMAIN Line(g)
                                        /\ (Line(g)')[i] = Line(g)[i + 1]
    <2>1. PICK s \in Seq(BundleType) : s = Line(g) /\ s # <<>> /\ Tail(s) = Line(g)'
      BY <1>1, <1>3, LineType
    <2>2. /\ DOMAIN s = 1..Len(s) /\ 1 \in DOMAIN s /\ s[1] = Head(s)
          /\ \A i \in DOMAIN Tail(s) : /\ i \in Nat /\ i > 0 /\ i + 1 \in DOMAIN s
                                       /\ Tail(s)[i] = s[i + 1]
      BY <2>1
    <2> QED  BY <1>3, <2>1, <2>2
  \* Where an element of a line was before.
  <1>9. ASSUME NEW h \in ThreadGroups, NEW i \in DOMAIN (Line(h)')
        PROVE  \E j \in DOMAIN Line(h) :
                 /\ (Line(h)')[i] = Line(h)[j] /\ j = IF h = g THEN i + 1 ELSE i
    BY <1>3, <1>8, <1>9
  <1>10. b.entity \in listed /\ TgidOf[b.entity] = g /\ b.entity \in Entities
         /\ Past(b.entity, b.message)
    BY <1>1, <1>8, ListedGroups DEF Home, NothingAhead
  <1>11. Home'
    <2>1. \A h \in ThreadGroups : \A i \in DOMAIN (Line(h)') :
            (Line(h)')[i].entity \in listed /\ TgidOf[(Line(h)')[i].entity] = h
      BY <1>1, <1>9 DEF Home
    <2>2. \A v \in Workers : worker'[v].pc \in {"run", "return"} =>
            /\ worker'[v].bundle \in BundleType
            /\ worker'[v].bundle.entity \in listed
            /\ TgidOf[worker'[v].bundle.entity] = WorksFor[v]
      BY <1>1, <1>3, <1>4, <1>5, <1>10 DEF Home
    <2> QED  BY <1>2, <2>1, <2>2 DEF Home
  <1>12. LoansOut'
    <2>1. \A v \in Workers : \A x : Returns(v, x) => Returns(v, x)'
      BY <1>3, <1>5 DEF Returns
    <2> QED  BY <1>1, <1>2, <2>1 DEF LoansOut, Count, Ended
  <1>13. LinesInOrder'
    <2> SUFFICES ASSUME NEW h \in ThreadGroups,
                        NEW i \in DOMAIN (Line(h)'), NEW j \in DOMAIN (Line(h)'),
                        i < j, (Line(h)')[i].entity = (Line(h)')[j].entity
                 PROVE  Before((Line(h)')[i].message, (Line(h)')[j].message)
      BY DEF LinesInOrder, Before
    <2>1. CASE h = g
      <3>1. /\ i + 1 \in DOMAIN Line(g) /\ j + 1 \in DOMAIN Line(g) /\ i + 1 < j + 1
            /\ (Line(g)')[i] = Line(g)[i + 1] /\ (Line(g)')[j] = Line(g)[j + 1]
        BY <1>8, <2>1
      <3> QED  BY <1>1, <2>1, <3>1 DEF LinesInOrder
    <2>2. CASE h # g
      BY <1>1, <1>3, <2>2 DEF LinesInOrder
    <2> QED  BY <2>1, <2>2
  <1>14. NothingAhead'
    <2>1. \A h \in ThreadGroups : \A i \in DOMAIN (Line(h)') :
            Past((Line(h)')[i].entity, (Line(h)')[i].message)
      BY <1>1, <1>9 DEF NothingAhead
    <2>2. \A v \in Workers : worker'[v].pc = "run" =>
            Past(worker'[v].bundle.entity, worker'[v].bundle.message)
      BY <1>1, <1>4, <1>5, <1>10 DEF NothingAhead
    <2>3. \A e, m : Past(e, m)' <=> Past(e, m)
      BY <1>2 DEF Past
    <2> QED  BY <1>1, <1>2, <2>1, <2>2, <2>3 DEF NothingAhead, Past
  <1>15. OneWorkerInOrder'
    <2> SUFFICES ASSUME NEW e \in listed, Alone(e)
                 PROVE  OneInOrder(e)'
      BY <1>2 DEF OneWorkerInOrder, Alone
    <2>1. OneInOrder(e)
      BY <1>1 DEF OneWorkerInOrder
    <2>2. PICK h \in ThreadGroups : h = TgidOf[e]
      BY <1>1, ListedGroups
    \* What the worker runs now was the first of the line.
    <2>3. ASSUME b.entity = e
          PROVE  /\ h = g
                 /\ \A i \in DOMAIN handled[e] : Before(handled[e][i], b.message)
                 /\ \A k \in DOMAIN (Line(h)') : (Line(h)')[k].entity = e =>
                      Before(b.message, (Line(h)')[k].message)
      <3>1. h = g /\ Line(h)[1].entity = e
        BY <1>8, <1>10, <2>2, <2>3
      <3>2. \A i \in DOMAIN handled[e] : Before(handled[e][i], b.message)
        BY <1>8, <2>1, <2>2, <3>1 DEF OneInOrder
      <3>3. ASSUME NEW k \in DOMAIN (Line(h)'), (Line(h)')[k].entity = e
            PROVE  Before(b.message, (Line(h)')[k].message)
        <4>1. /\ k + 1 \in DOMAIN Line(g) /\ 1 \in DOMAIN Line(g) /\ 1 < k + 1
              /\ (Line(g)')[k] = Line(g)[k + 1] /\ Line(g)[1] = b
          BY <1>8, <3>1, <3>3
        <4>2. Line(g)[1].entity = Line(g)[k + 1].entity
          BY <2>3, <3>1, <3>3, <4>1
        <4> QED  BY <1>1, <3>1, <4>1, <4>2 DEF LinesInOrder
      <3> QED  BY <3>1, <3>2, <3>3
    <2>4. ASSUME NEW v \in Workers, worker'[v].pc = "run", worker'[v].bundle.entity = e
          PROVE  /\ \A i \in DOMAIN handled[e] :
                      Before(handled[e][i], worker'[v].bundle.message)
                 /\ \A k \in DOMAIN (Line(h)') : (Line(h)')[k].entity = e =>
                      Before(worker'[v].bundle.message, (Line(h)')[k].message)
      <3>1. CASE v = w
        BY <1>4, <1>5, <2>3, <2>4, <3>1
      <3>2. CASE v # w
        <4>1. worker'[v] = worker[v]
          BY <1>5, <3>2
        <4>2. /\ worker[v].pc = "run" /\ worker[v].bundle.entity = e
              /\ \A j \in DOMAIN Line(h) : Line(h)[j].entity = e =>
                   Before(worker[v].bundle.message, Line(h)[j].message)
              /\ \A i \in DOMAIN handled[e] :
                   Before(handled[e][i], worker[v].bundle.message)
          BY <2>1, <2>2, <2>4, <4>1 DEF OneInOrder
        <4>3. ASSUME NEW k \in DOMAIN (Line(h)'), (Line(h)')[k].entity = e
              PROVE  Before(worker[v].bundle.message, (Line(h)')[k].message)
          <5>1. PICK j \in DOMAIN Line(h) : (Line(h)')[k] = Line(h)[j]
            BY <1>9
          <5> QED  BY <4>2, <4>3, <5>1
        <4> QED  BY <4>1, <4>2, <4>3
      <3> QED  BY <3>1, <3>2
    <2>5. \A k \in DOMAIN (Line(h)') : (Line(h)')[k].entity = e =>
            \A i \in DOMAIN handled[e] : Before(handled[e][i], (Line(h)')[k].message)
      <3>1. \A j \in DOMAIN Line(h) : Line(h)[j].entity = e =>
              \A i \in DOMAIN handled[e] : Before(handled[e][i], Line(h)[j].message)
        BY <2>1, <2>2 DEF OneInOrder
      <3> SUFFICES ASSUME NEW k \in DOMAIN (Line(h)'), (Line(h)')[k].entity = e
                   PROVE  \A i \in DOMAIN handled[e] :
                            Before(handled[e][i], (Line(h)')[k].message)
        OBVIOUS
      <3>2. PICK j \in DOMAIN Line(h) : (Line(h)')[k] = Line(h)[j]
        BY <1>9
      <3> QED  BY <3>1, <3>2
    <2> QED
      BY <1>2, <2>1, <2>2, <2>4, <2>5 DEF OneInOrder, Sorted, Before
  <1> QED  BY <1>6, <1>7, <1>11, <1>12, <1>13, <1>14, <1>15, PassesHolds

LEMMA FreeWritten ==
    ASSUME TypeOK, NEW w \in Workers, Free(w)
    PROVE  /\ worker' \in [Workers -> WorkerType] /\ worker'[w].pc = "idle"
           /\ \A v \in Workers \ {w} : worker'[v] = worker[v]
  <1>1. PICK r : r = [pc |-> "idle", bundle |-> Nothing]
    OBVIOUS
  <1>2. r \in WorkerType /\ r.pc = "idle"
    BY <1>1 DEF WorkerType, WorkerPCs
  <1>3. worker' = [worker EXCEPT ![w] = r]
    BY <1>1 DEF Free, Idle
  <1> QED  BY <1>2, <1>3, WorkerWritten

\* A callback has been called with bundle b, by worker w.
Ran(w, b) ==
    /\ worker[w].pc = "run" /\ b = worker[w].bundle
    /\ worker'[w].pc \in {"idle", "return"}
    /\ worker'[w].pc = "return" => worker'[w].bundle = b
    /\ Kind(b.entity) = "loaned" => worker'[w].pc = "return"
    /\ worker' \in [Workers -> WorkerType]
    /\ \A v \in Workers \ {w} : worker'[v] = worker[v]
    /\ handled' = [handled EXCEPT ![b.entity] = Append(@, b.message)]
    /\ UNCHANGED <<listed, arrived, gone, pc, ready, bundles_by_tgid, queue, taken,
                   failed, loans, kept>>

LEMMA RunIs ==
    ASSUME TypeOK, NEW w \in Workers, RunTimer(w) \/ RunMessage(w)
    PROVE  \E b : Ran(w, b)
  <1>1. PICK b : b = worker[w].bundle
    OBVIOUS
  <1>2. /\ worker[w].pc = "run"
        /\ handled' = [handled EXCEPT ![b.entity] = Append(@, b.message)]
        /\ UNCHANGED <<listed, arrived, gone, pc, ready, bundles_by_tgid, queue, taken,
                       failed, loans, kept>>
    BY <1>1 DEF RunTimer, RunMessage, Working, Handle, executorVars
  <1>3. CASE RunTimer(w)
    <2>1. Free(w) /\ b.entity \in Timers
      BY <1>1, <1>3 DEF RunTimer
    <2>2. Kind(b.entity) # "loaned"
      <3>1. b.entity \notin Serialized /\ b.entity \notin Loaning
        BY <2>1
      <3> QED  BY <3>1 DEF Kind
    <2>3. /\ worker' \in [Workers -> WorkerType] /\ worker'[w].pc = "idle"
          /\ \A v \in Workers \ {w} : worker'[v] = worker[v]
      BY <2>1, FreeWritten
    <2> QED  BY <1>1, <1>2, <2>2, <2>3 DEF Ran
  <1>4. CASE RunMessage(w)
    <2>1. worker' = [worker EXCEPT ![w].pc = "return"]
      BY <1>4 DEF RunMessage
    <2>2. /\ worker' \in [Workers -> WorkerType]
          /\ worker'[w].pc = "return" /\ worker'[w].bundle = worker[w].bundle
          /\ \A v \in Workers \ {w} : worker'[v] = worker[v]
      BY <2>1, PCWritten DEF WorkerPCs
    <2> QED  BY <1>1, <1>2, <2>2 DEF Ran
  <1> QED  BY <1>3, <1>4

LEMMA RanHandled ==
    ASSUME TypeOK, Home, NEW w \in Workers, NEW b, Ran(w, b)
    PROVE  /\ b \in BundleType /\ b.entity \in Entities /\ b.entity \in listed
           /\ b.message \in Msgs /\ TgidOf[b.entity] = WorksFor[w]
           /\ handled' \in [Entities -> Seq(Msgs)]
           /\ handled'[b.entity] = Append(handled[b.entity], b.message)
           /\ \A e \in Entities \ {b.entity} : handled'[e] = handled[e]
  <1>1. /\ b \in BundleType /\ b.entity \in listed /\ TgidOf[b.entity] = WorksFor[w]
    BY DEF Home, Ran
  <1>2. b.entity \in Entities /\ b.message \in Msgs
    BY <1>1 DEF BundleType
  <1>3. PICK s \in Entities, m \in Msgs : s = b.entity /\ m = b.message
    BY <1>2
  <1>4. handled' = [handled EXCEPT ![s] = Append(@, m)] /\ handled[s] \in Seq(Msgs)
        /\ handled \in [Entities -> Seq(Msgs)]
    BY <1>3 DEF Ran, TypeOK
  <1>5. Append(handled[s], m) \in Seq(Msgs)
    BY <1>4
  <1>6. /\ handled' \in [Entities -> Seq(Msgs)] /\ handled'[s] = Append(handled[s], m)
        /\ \A e \in Entities \ {s} : handled'[e] = handled[e]
    BY <1>4, <1>5
  <1> QED  BY <1>1, <1>2, <1>3, <1>6

\* The bundle is run no longer, and there is one call more.
LEMMA RanAmount ==
    ASSUME TypeOK, Home, NEW w \in Workers, NEW b, Ran(w, b), NEW e \in Entities, NEW n
    PROVE  /\ Amount(e, n)' = Amount(e, n)
           /\ Bundle(e, n) # b => Count(n, handled'[e]) = Count(n, handled[e])
  <1>1. PICK x, d : x = Bundle(e, n) /\ d \in Nat /\ d = IF x = b THEN 1 ELSE 0
    OBVIOUS
  <1>2. x = b <=> e = b.entity /\ n = b.message
    <2>1. x.entity = e /\ x.message = n
      BY <1>1 DEF Bundle
    <2>2. ASSUME e = b.entity, n = b.message PROVE x = b
      <3>1. b \in [entity : Entities, message : Msgs]
        BY RanHandled DEF BundleType
      <3>2. x = [entity |-> b.entity, message |-> b.message]
        BY <1>1, <2>2 DEF Bundle
      <3> QED  BY <3>1, <3>2
    <2> QED  BY <2>1, <2>2
  <1>3. PICK c \in Nat : c = Count(n, handled[e])
    BY AmountType
  <1>4. Count(n, handled'[e]) = c + d
    <2>1. CASE e = b.entity
      <3>1. PICK h \in Seq(Msgs), m \in Msgs : h = handled[e] /\ m = b.message
        BY RanHandled DEF TypeOK
      <3>2. Count(n, Append(h, m)) = Count(n, h) + (IF m = n THEN 1 ELSE 0)
        BY CountAppend
      <3>3. handled'[e] = Append(h, m)
        BY <2>1, <3>1, RanHandled
      <3>4. d = IF m = n THEN 1 ELSE 0
        BY <1>1, <1>2, <2>1, <3>1
      <3> QED  BY <1>3, <3>1, <3>2, <3>3, <3>4
    <2>2. CASE e # b.entity
      <3>1. handled'[e] = handled[e] /\ d = 0
        BY <1>1, <1>2, <2>2, RanHandled
      <3> QED  BY <1>3, <3>1
    <2> QED  BY <2>1, <2>2
  <1>5. /\ Runners(x)' = Runners(x) \ (IF x = b THEN {w} ELSE {})
        /\ x = b => w \in Runners(x)
    BY DEF Runners, Runs, Ran
  <1>6. IsFiniteSet(Runners(x)) /\ Cardinality(Runners(x)) \in Nat
    BY <1>1, AmountType
  <1>7. PICK k \in Nat : k = Cardinality(Runners(x)') /\ Cardinality(Runners(x)) = k + d
    <2>1. CASE x = b
      <3>1. /\ Cardinality(Runners(x) \ {w}) = Cardinality(Runners(x)) - 1
            /\ IsFiniteSet(Runners(x) \ {w})
        BY <1>5, <1>6, <2>1, FS_RemoveElement
      <3>2. Cardinality(Runners(x) \ {w}) \in Nat
        BY <3>1, FS_CardinalityType
      <3>3. PICK j \in Nat, l \in Nat :
              j = Cardinality(Runners(x) \ {w}) /\ l = Cardinality(Runners(x))
              /\ j = l - 1
        BY <1>6, <3>1, <3>2
      <3>4. l = j + 1
        BY <3>3
      <3> QED  BY <1>1, <1>5, <2>1, <3>3, <3>4
    <2>2. CASE x # b
      BY <1>1, <1>5, <1>6, <2>2
    <2> QED  BY <2>1, <2>2
  <1>8. PICK l \in Nat :
          l = IF e \in listed THEN Count(x, Line(TgidOf[e])) ELSE 0
    BY <1>1, AmountType
  <1>9. \A g : Line(g)' = Line(g)
    BY DEF Line, Ran
  <1>10. Amount(e, n) = c + ((k + d) + l) /\ Amount(e, n)' = (c + d) + (k + l)
    <2>1. listed' = listed
      BY DEF Ran
    <2> QED
      BY <1>1, <1>3, <1>4, <1>7, <1>8, <1>9, <2>1 DEF Amount, Bundles, Count
  <1>11. Amount(e, n)' = Amount(e, n)
    BY <1>1, <1>10
  <1> QED  BY <1>1, <1>3, <1>4, <1>11

LEMMA RunHolds ==
    ASSUME IInv, NEW w \in Workers, RunTimer(w) \/ RunMessage(w)
    PROVE  IInv'
  <1>1. /\ TypeOK /\ Home /\ LoansOut /\ LinesInOrder /\ NothingAhead
        /\ OneWorkerInOrder
    BY DEF IInv
  <1>2. PICK b : Ran(w, b)
    BY <1>1, RunIs
  <1>3. /\ b \in BundleType /\ b.entity \in Entities /\ b.entity \in listed
        /\ b.message \in Msgs /\ TgidOf[b.entity] = WorksFor[w]
        /\ handled' \in [Entities -> Seq(Msgs)]
        /\ handled'[b.entity] = Append(handled[b.entity], b.message)
        /\ \A e \in Entities \ {b.entity} : handled'[e] = handled[e]
    BY <1>1, <1>2, RanHandled
  <1>4. TypeOK'
    BY <1>1, <1>2, <1>3 DEF TypeOK, Ran
  <1>5. Passes
    BY <1>1, <1>2, RanAmount DEF Passes, Ran
  <1>6. \A g : Line(g)' = Line(g)
    BY <1>2 DEF Line, Ran
  <1>7. Home'
    <2>1. \A v \in Workers : worker'[v].pc \in {"run", "return"} =>
            /\ worker'[v].bundle \in BundleType
            /\ worker'[v].bundle.entity \in listed
            /\ TgidOf[worker'[v].bundle.entity] = WorksFor[v]
      BY <1>1, <1>2, <1>3 DEF Home, Ran
    <2>2. listed' = listed
      BY <1>2 DEF Ran
    <2> QED  BY <1>1, <1>6, <2>1, <2>2 DEF Home
  <1>8. LinesInOrder'
    BY <1>1, <1>6 DEF LinesInOrder
  \* What the callbacks were called with: as before, and then with b.
  <1>9. ASSUME NEW e \in Entities, NEW i \in DOMAIN (handled'[e])
        PROVE  \/ i \in DOMAIN handled[e] /\ handled'[e][i] = handled[e][i]
               \/ /\ e = b.entity /\ handled'[e][i] = b.message
                  /\ \A j \in DOMAIN (handled'[e]) : ~(i < j)
    <2>1. CASE e = b.entity
      <3>1. PICK s \in Seq(Msgs), m \in Msgs : s = handled[e] /\ m = b.message
        BY <1>1, <1>3 DEF TypeOK
      <3>2. handled'[e] = Append(s, m)
        BY <1>3, <2>1, <3>1
      <3>3. i \in DOMAIN Append(s, m)
        BY <1>9, <3>2
      <3>4. \/ i \in DOMAIN s /\ Append(s, m)[i] = s[i]
            \/ Append(s, m)[i] = m /\ \A j \in DOMAIN Append(s, m) : ~(i < j)
        BY <3>3
      <3> QED  BY <2>1, <3>1, <3>2, <3>4
    <2>2. CASE e # b.entity
      BY <1>3, <1>9, <2>2
    <2> QED  BY <2>1, <2>2
  <1>10. Past(b.entity, b.message)
    BY <1>1, <1>2 DEF NothingAhead, Ran
  <1>11. NothingAhead'
    <2>1. \A e, m : Past(e, m)' <=> Past(e, m)
      BY <1>2 DEF Past, Ran
    <2>2. \A v \in Workers : worker'[v].pc = "run" =>
            worker[v].pc = "run" /\ worker'[v] = worker[v]
      BY <1>2 DEF Ran
    <2>3. \A e \in Entities : \A i \in DOMAIN (handled'[e]) : Past(e, handled'[e][i])
      BY <1>1, <1>9, <1>10 DEF NothingAhead
    <2>4. gone' = gone
      BY <1>2 DEF Ran
    <2> QED  BY <1>1, <1>6, <2>2, <2>3, <2>4 DEF NothingAhead, Past
  <1>12. OneWorkerInOrder'
    <2> SUFFICES ASSUME NEW e \in listed, Alone(e)
                 PROVE  OneInOrder(e)'
      BY <1>2 DEF OneWorkerInOrder, Alone, Ran
    <2>1. OneInOrder(e) /\ e \in Entities
      BY <1>1, ListedGroups DEF OneWorkerInOrder
    <2>2. PICK l : l = Line(TgidOf[e]) /\ l = Line(TgidOf[e])'
      BY <1>6
    <2>3. worker[w].pc = "run" /\ worker[w].bundle = b
      BY <1>2 DEF Ran
    \* b comes after the earlier calls and before the line.
    <2>4. e = b.entity =>
            /\ \A i \in DOMAIN handled[e] : Before(handled[e][i], b.message)
            /\ \A k \in DOMAIN l : l[k].entity = e => Before(b.message, l[k].message)
      BY <2>1, <2>2, <2>3 DEF OneInOrder
    <2>5. Sorted(handled'[e])
      <3> SUFFICES ASSUME NEW i \in DOMAIN (handled'[e]),
                          NEW j \in DOMAIN (handled'[e]), i < j
                   PROVE  Before(handled'[e][i], handled'[e][j])
        BY DEF Sorted
      <3>1. i \in DOMAIN handled[e] /\ handled'[e][i] = handled[e][i]
        BY <1>9, <2>1
      <3>2. CASE j \in DOMAIN handled[e] /\ handled'[e][j] = handled[e][j]
        BY <2>1, <3>1, <3>2 DEF OneInOrder, Sorted
      <3>3. CASE e = b.entity /\ handled'[e][j] = b.message
        BY <2>4, <3>1, <3>3
      <3> QED  BY <1>9, <2>1, <3>2, <3>3
    \* The only worker of the group runs nothing now.
    <2>6. ASSUME NEW v \in Workers, worker'[v].pc = "run",
                 worker'[v].bundle.entity = e
          PROVE  e # b.entity /\ worker'[v] = worker[v]
      <3>1. v # w /\ worker'[v] = worker[v]
        BY <1>2, <2>6 DEF Ran
      <3>2. TgidOf[e] = WorksFor[v]
        BY <1>1, <2>6, <3>1 DEF Home
      <3> QED  BY <1>3, <3>1, <3>2 DEF Alone
    <2>7. \A i \in DOMAIN (handled'[e]) : \A v \in Workers :
            worker'[v].pc = "run" /\ worker'[v].bundle.entity = e =>
              Before(handled'[e][i], worker'[v].bundle.message)
      <3> SUFFICES ASSUME NEW i \in DOMAIN (handled'[e]), NEW v \in Workers,
                          worker'[v].pc = "run", worker'[v].bundle.entity = e
                   PROVE  Before(handled'[e][i], worker'[v].bundle.message)
        OBVIOUS
      <3>1. e # b.entity /\ worker'[v] = worker[v]
        BY <2>6
      <3>2. i \in DOMAIN handled[e] /\ handled'[e][i] = handled[e][i]
        BY <1>9, <2>1, <3>1
      <3> QED  BY <2>1, <3>1, <3>2 DEF OneInOrder
    <2>8. \A k \in DOMAIN l : l[k].entity = e =>
            /\ \A i \in DOMAIN (handled'[e]) : Before(handled'[e][i], l[k].message)
            /\ \A v \in Workers :
                 worker'[v].pc = "run" /\ worker'[v].bundle.entity = e =>
                   Before(worker'[v].bundle.message, l[k].message)
      <3> SUFFICES ASSUME NEW k \in DOMAIN l, l[k].entity = e
                   PROVE
            /\ \A i \in DOMAIN (handled'[e]) : Before(handled'[e][i], l[k].message)
            /\ \A v \in Workers :
                 worker'[v].pc = "run" /\ worker'[v].bundle.entity = e =>
                   Before(worker'[v].bundle.message, l[k].message)
        OBVIOUS
      <3>1. /\ \A i \in DOMAIN handled[e] : Before(handled[e][i], l[k].message)
            /\ \A v \in Workers :
                 worker[v].pc = "run" /\ worker[v].bundle.entity = e =>
                   Before(worker[v].bundle.message, l[k].message)
        BY <2>1, <2>2 DEF OneInOrder
      <3>2. \A i \in DOMAIN (handled'[e]) : Before(handled'[e][i], l[k].message)
        BY <1>9, <2>1, <2>4, <3>1
      <3>3. \A v \in Workers :
              worker'[v].pc = "run" /\ worker'[v].bundle.entity = e =>
                Before(worker'[v].bundle.message, l[k].message)
        BY <2>6, <3>1
      <3> QED  BY <3>2, <3>3
    <2> QED  BY <2>2, <2>5, <2>7, <2>8 DEF OneInOrder, Sorted, Before
  <1>13. LoansOut'
    <2> SUFFICES ASSUME NEW s \in Entities, NEW i \in Nat, <<s, i>> \in loans \ kept
                 PROVE  /\ Kind(s) = "loaned" /\ i \in taken[s]
                        /\ \/ Count(i, handled'[s]) = 0
                           \/ \E v \in Workers : Returns(v, Bundle(s, i))'
                           \/ s \notin listed \/ Ended
      BY <1>2 DEF LoansOut, Count, Ended, Ran
    <2>1. /\ Kind(s) = "loaned" /\ i \in taken[s]
          /\ \/ Count(i, handled[s]) = 0
             \/ \E v \in Workers : Returns(v, Bundle(s, i))
             \/ s \notin listed \/ Ended
      BY <1>1 DEF LoansOut
    <2>2. CASE Bundle(s, i) = b
      <3>1. b.entity = s
        BY <2>2 DEF Bundle
      <3>2. Returns(w, b)'
        BY <1>2, <2>1, <3>1 DEF Returns, Ran
      <3> QED  BY <2>1, <2>2, <3>2 DEF Returns
    <2>3. CASE Bundle(s, i) # b
      <3>1. Count(i, handled'[s]) = Count(i, handled[s])
        BY <1>1, <1>2, <2>3, RanAmount
      <3>2. \A v \in Workers : Returns(v, Bundle(s, i)) => Returns(v, Bundle(s, i))'
        BY <1>2 DEF Returns, Ran
      <3> QED  BY <2>1, <3>1, <3>2
    <2> QED  BY <2>2, <2>3
  <1> QED  BY <1>4, <1>5, <1>7, <1>8, <1>11, <1>12, <1>13, PassesHolds

\* A worker has given back what it gives back; nothing else moves.
LEMMA ReturnHolds ==
    ASSUME IInv, NEW w \in Workers, ReturnMessage(w) \/ ReturnLoan(w)
    PROVE  IInv'
  <1>1. /\ TypeOK /\ Home /\ LoansOut /\ LinesInOrder /\ NothingAhead
        /\ OneWorkerInOrder
    BY DEF IInv
  <1>2. PICK b : b = worker[w].bundle
    OBVIOUS
  <1>3. /\ worker[w].pc = "return" /\ Free(w)
        /\ UNCHANGED <<listed, arrived, gone, pc, ready, bundles_by_tgid, queue, taken,
                       failed, handled>>
    BY DEF ReturnMessage, ReturnLoan, Working, executorVars
  <1>4. /\ loans' \subseteq loans /\ kept \subseteq kept'
        /\ Kind(b.entity) = "loaned" => <<b.entity, b.message>> \notin loans' \ kept'
    BY <1>2 DEF ReturnMessage, ReturnLoan, Returned
  <1>5. /\ worker' \in [Workers -> WorkerType] /\ worker'[w].pc = "idle"
        /\ \A v \in Workers \ {w} : worker'[v] = worker[v]
    BY <1>1, <1>3, FreeWritten
  <1>6. TypeOK'
    BY <1>1, <1>3, <1>4, <1>5 DEF TypeOK
  <1>7. \A g : Line(g)' = Line(g)
    BY <1>3 DEF Line
  <1>8. \A v \in Workers : worker'[v].pc \in {"run", "return"} =>
          worker'[v] = worker[v]
    BY <1>5
  <1>9. \A x : Runners(x)' = Runners(x)
    BY <1>3, <1>5 DEF Runners, Runs
  <1>10. Passes
    BY <1>3, <1>7, <1>9 DEF Passes, Amount, Bundles, Count
  <1>11. Home'
    BY <1>1, <1>3, <1>7, <1>8 DEF Home
  <1>12. LinesInOrder' /\ NothingAhead'
    BY <1>1, <1>3, <1>7, <1>8 DEF LinesInOrder, NothingAhead, Past
  <1>13. OneWorkerInOrder'
    <2> SUFFICES ASSUME NEW e \in listed, Alone(e)
                 PROVE  OneInOrder(e)'
      BY <1>3 DEF OneWorkerInOrder, Alone
    <2>1. OneInOrder(e)
      BY <1>1 DEF OneWorkerInOrder
    <2> QED
      BY <1>3, <1>7, <1>8, <2>1 DEF OneInOrder, Sorted, Before
  <1>14. LoansOut'
    <2> SUFFICES ASSUME NEW s \in Entities, NEW i \in Nat, <<s, i>> \in loans' \ kept'
                 PROVE  /\ Kind(s) = "loaned" /\ i \in taken[s]
                        /\ \/ Count(i, handled[s]) = 0
                           \/ \E v \in Workers : Returns(v, Bundle(s, i))'
                           \/ s \notin listed \/ Ended
      BY <1>3 DEF LoansOut, Count, Ended
    <2>1. /\ Kind(s) = "loaned" /\ i \in taken[s]
          /\ \/ Count(i, handled[s]) = 0
             \/ \E v \in Workers : Returns(v, Bundle(s, i))
             \/ s \notin listed \/ Ended
      BY <1>1, <1>4 DEF LoansOut
    <2>2. Bundle(s, i) # b
      <3>1. Bundle(s, i).entity = s /\ Bundle(s, i).message = i
        BY DEF Bundle
      <3> QED  BY <1>4, <2>1, <3>1
    <2>3. \A v \in Workers : Returns(v, Bundle(s, i)) => Returns(v, Bundle(s, i))'
      BY <1>2, <1>5, <2>2 DEF Returns
    <2> QED  BY <2>1, <2>3
  <1> QED  BY <1>6, <1>10, <1>11, <1>12, <1>13, <1>14, PassesHolds

-----------------------------------------------------------------------------
(***************************************************************************)
(* The invariant holds                                                     *)
(***************************************************************************)

LEMMA InitHolds ==
    ASSUME Init
    PROVE  IInv
  <1>1. /\ NoBundles \in [ThreadGroups -> Seq(BundleType)]
        /\ \A g \in ThreadGroups : NoBundles[g] = <<>>
    BY DEF NoBundles
  <1>2. Idle \in WorkerType /\ Idle.pc = "idle"
    BY DEF Idle, WorkerType, WorkerPCs
  <1>3. /\ worker \in [Workers -> WorkerType]
        /\ \A w \in Workers : worker[w].pc = "idle"
    BY <1>2 DEF Init
  <1>4. /\ handled \in [Entities -> Seq(Msgs)]
        /\ \A e \in Entities : handled[e] = <<>> /\ taken[e] = {} /\ gone[e] = 0
                              /\ arrived[e] = 0 /\ failed[e] = 0
    BY DEF Init
  <1>5. TypeOK
    BY <1>1, <1>3, <1>4 DEF Init, TypeOK
  <1>6. \A g \in ThreadGroups : Line(g) = <<>>
    BY <1>1 DEF Init, Line
  <1>7. RoundsOK
    BY <1>4 DEF Init, RoundsOK
  <1>8. Home /\ LinesInOrder /\ NothingAhead
    BY <1>3, <1>4, <1>6 DEF Home, LinesInOrder, NothingAhead
  <1>9. OneWorkerInOrder
    BY <1>3, <1>4, <1>5, <1>6, ListedGroups DEF OneWorkerInOrder, OneInOrder, Sorted
  <1>10. ASSUME NEW e \in Entities, NEW n PROVE Amount(e, n) = 0
    <2>1. Runners(Bundle(e, n)) = {}
      BY <1>3 DEF Runners, Runs
    <2>2. Cardinality(Runners(Bundle(e, n))) = 0
      BY <2>1, FS_EmptySet
    <2>3. Count(n, handled[e]) = 0
      BY <1>4, CountEmpty
    <2>4. e \in listed => Count(Bundle(e, n), Line(TgidOf[e])) = 0
      BY <1>5, <1>6, ListedGroups, CountEmpty
    <2> QED  BY <2>2, <2>3, <2>4 DEF Amount, Bundles
  <1>11. TakenOnce
    BY <1>4, <1>10 DEF TakenOnce
  <1>12. FailuresCounted
    BY <1>4, <1>5, <1>10, ListedGroups DEF FailuresCounted, Empty
  <1>13. LoansOut
    BY DEF Init, LoansOut
  <1> QED
    BY <1>5, <1>7, <1>8, <1>9, <1>11, <1>12, <1>13 DEF IInv

LEMMA NextHolds ==
    ASSUME IInv, [Next]_vars
    PROVE  IInv'
  <1>1. CASE \E e \in Entities : Arrives(e) \/ Expires(e) \/ CancelTimer(e)
    BY <1>1, ArrivesHolds, ExpiresHolds, CancelTimerHolds
  <1>2. CASE Round
    BY <1>2, WakeHolds, RoundEndsHolds, TakeHolds, EnqueueBulkHolds DEF Round
  <1>3. CASE SpinEnds
    BY <1>3, RoundEndsHolds
  <1>4. CASE \E g \in ThreadGroups : EnqueueThrows(g)
    BY <1>4, ThrowingSteps
  <1>5. CASE \E w \in Workers : Works(w) \/ Exit(w)
    BY <1>5, DequeueHolds, RunHolds, ReturnHolds, ExitHolds DEF Works
  <1>6. CASE DestroyQueues
    BY <1>6, DestroyQueuesHolds
  <1>7. CASE UNCHANGED vars
    <2>1. TypeOK /\ RoundsOK
      BY DEF IInv
    <2>2. Outside /\ UNCHANGED <<pc, ready, arrived, gone>>
      BY <1>7 DEF vars, Outside
    <2>3. RoundsOK'
      BY <2>1, <2>2 DEF RoundsOK, Outside
    <2> QED  BY <2>1, <2>2, <2>3, OutsideHolds DEF Ended, TypeOK
  <1> QED
    BY <1>1, <1>2, <1>3, <1>4, <1>5, <1>6, <1>7 DEF Next

\* Whatever the entities, groups and workers are, the invariant holds.
THEOREM BundlesInvariant == Spec => []IInv
  <1>1. Init => IInv
    BY InitHolds
  <1>2. IInv /\ [Next]_vars => IInv'
    BY NextHolds
  <1> QED  BY <1>1, <1>2, PTL DEF Spec

\* What was taken is handed to one callback once, by one worker: for every
\* number of entities, groups and workers (take_and_bundle and
\* populate_ready_queues, and the loop of a worker).
THEOREM TakenMessagesRunOnce == Spec => []TakenIsRunOnce
  <1>1. ASSUME IInv PROVE TakenIsRunOnce
    <2>1. TypeOK /\ TakenOnce
      BY <1>1 DEF IInv
    <2> SUFFICES ASSUME NEW e \in Entities, NEW i \in taken[e]
                 PROVE  /\ Handled(e, i) + Pending(e, i) <= 1
                        /\ e \in listed /\ ~Ended => Handled(e, i) + Pending(e, i) = 1
      BY DEF TakenIsRunOnce
    <2>2. i \in Nat /\ Handled(e, i) + Pending(e, i) = Amount(e, i)
      BY <2>1, AmountIs DEF TypeOK, Amount
    <2> QED  BY <2>1, <2>2 DEF TakenOnce
  <1>2. IInv => TakenIsRunOnce
    BY <1>1
  <1> QED  BY <1>2, BundlesInvariant, PTL

\* A callback runs without a message only as often as a take of its
\* subscription failed (try_take).
THEOREM EmptyCallsAreFailedTakes == Spec => []NoMessageAfterFailedTake
  <1>1. ASSUME IInv PROVE NoMessageAfterFailedTake
    <2>1. TypeOK /\ FailuresCounted
      BY <1>1 DEF IInv
    <2>2. ASSUME NEW s \in listed \cap Subscriptions
          PROVE  Handled(s, Blank) + Pending(s, Blank)
                   + Handled(s, Garbage) + Pending(s, Garbage) = Empty(s)
      <3>1. s \in Entities
        BY <2>1, ListedGroups
      <3>2. PICK a \in Nat, b \in Nat : a = Handled(s, Blank) /\ b = Pending(s, Blank)
                                        /\ Amount(s, Blank) = a + b
        BY <2>1, <3>1, AmountIs, AmountType DEF Amount
      <3>3. PICK c \in Nat, d \in Nat : c = Handled(s, Garbage) /\ d = Pending(s, Garbage)
                                        /\ Amount(s, Garbage) = c + d
        BY <2>1, <3>1, AmountIs, AmountType DEF Amount
      <3>4. a + b + c + d = (a + b) + (c + d)
        OBVIOUS
      <3> QED  BY <3>2, <3>3, <3>4 DEF Empty
    <2> QED  BY <2>1, <2>2 DEF FailuresCounted, NoMessageAfterFailedTake
  <1>2. IInv => NoMessageAfterFailedTake
    BY <1>1
  <1> QED  BY <1>2, BundlesInvariant, PTL

\* A loan that is out and not refused has its bundle, unless the bundle was
\* dropped (the loaned bundle that take_and_bundle makes, run by a worker).
THEOREM LoansFollowTheirBundles == Spec => []OnlyDroppedLoansStay
  <1>1. ASSUME IInv PROVE OnlyDroppedLoansStay
    <2>1. TypeOK /\ LoansOut /\ TakenOnce
      BY <1>1 DEF IInv
    <2> SUFFICES ASSUME NEW l \in loans \ kept, l[1] \in listed, ~Ended
                 PROVE  \/ Pending(l[1], l[2]) = 1
                        \/ \E w \in Workers : worker[w] = [pc |-> "return",
                                             bundle |-> Bundle(l[1], l[2])]
      BY DEF OnlyDroppedLoansStay
    <2>2. PICK s \in Entities, i \in Nat : l = <<s, i>> /\ s = l[1] /\ i = l[2]
      BY <2>1 DEF TypeOK
    <2>3. i \in taken[s] /\ (\/ Count(i, handled[s]) = 0
                             \/ \E w \in Workers : Returns(w, Bundle(s, i)))
      BY <2>1, <2>2 DEF LoansOut
    <2>4. CASE Count(i, handled[s]) = 0
      <3>1. Amount(s, i) = 1 /\ Bundles(s, i) \in Nat
        BY <2>1, <2>2, <2>3, AmountType DEF TakenOnce
      <3>2. Bundles(s, i) = 1
        BY <2>4, <3>1 DEF Amount
      <3>3. Pending(s, i) = Bundles(s, i)
        BY <2>1, AmountIs
      <3> QED  BY <2>2, <3>2, <3>3
    <2>5. CASE \E w \in Workers : Returns(w, Bundle(s, i))
      <3>1. PICK w \in Workers : Returns(w, Bundle(s, i))
        BY <2>5
      <3>2. worker[w] \in [pc : WorkerPCs, bundle : BundleType \cup {Nothing}]
        BY <2>1 DEF TypeOK, WorkerType
      <3>3. worker[w] = [pc |-> "return", bundle |-> Bundle(s, i)]
        BY <3>1, <3>2 DEF Returns
      <3> QED  BY <2>2, <3>3
    <2> QED  BY <2>3, <2>4, <2>5
  <1>2. IInv => OnlyDroppedLoansStay
    BY <1>1
  <1> QED  BY <1>2, BundlesInvariant, PTL

\* One worker handles the messages of a subscription in the order of their
\* arrival: the promise of a mutex group.
THEOREM MutexGroupsKeepOrder == Spec => []SingleWorkersKeepOrder
  <1>1. ASSUME IInv PROVE SingleWorkersKeepOrder
    <2>1. TypeOK /\ OneWorkerInOrder
      BY <1>1 DEF IInv
    <2> SUFFICES ASSUME NEW e \in listed,
                        Cardinality({w \in Workers : WorksFor[w] = TgidOf[e]}) = 1,
                        NEW i \in DOMAIN handled[e], NEW j \in DOMAIN handled[e],
                        i < j, {handled[e][i], handled[e][j]} \subseteq Nat
                 PROVE  handled[e][i] < handled[e][j]
      BY DEF SingleWorkersKeepOrder
    <2>2. Alone(e)
      <3>1. PICK S : S = {w \in Workers : WorksFor[w] = TgidOf[e]}
        OBVIOUS
      <3>2. IsFiniteSet(S) /\ Cardinality(S) = 1
        BY <3>1, FS_Subset
      <3>3. PICK x : S = {x}
        BY <3>2, FS_Singleton
      <3> QED  BY <3>1, <3>3 DEF Alone
    <2>3. Sorted(handled[e])
      BY <2>1, <2>2 DEF OneWorkerInOrder, OneInOrder
    <2> QED  BY <2>3 DEF Sorted, Before
  <1>2. IInv => SingleWorkersKeepOrder
    BY <1>1
  <1> QED  BY <1>2, BundlesInvariant, PTL
=============================================================================
