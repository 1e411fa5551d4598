------------------------ MODULE RTMemoryStrategy_proofs ------------------------
(***************************************************************************)
(* Proofs about RTMemoryStrategy, for every set of entities, groups and    *)
(* threads, and whatever the application drops, adds or cancels: mutually  *)
(* exclusive groups run alone; the wait set has room for the handles and   *)
(* keeps them at their index; and what the dispatcher takes is what the    *)
(* wait reported.                                                          *)
(***************************************************************************)
EXTENDS RTMemoryStrategy, FiniteSetTheorems, TLAPS

-----------------------------------------------------------------------------
(***************************************************************************)
(* Mutually exclusive groups                                               *)
(***************************************************************************)

\* The thread has been given work of a mutually exclusive group.
RunsExclusively(t) == busy[t] # NULL /\ GroupOf[busy[t]] \in MutexGroups

\* The group of a thread that runs exclusively is locked, so that no second
\* thread can be given work of it; a thread executes only what it was given.
LockInv ==
    /\ busy \in [Threads -> {busy[t] : t \in Threads}]
    /\ \A t \in started : t \in Threads /\ busy[t] # NULL
    /\ \A t \in Threads : RunsExclusively(t) => GroupOf[busy[t]] \notin takable
    /\ ExclusiveGroupsRunAlone

\* No thread has work at first.
LEMMA LockInit == Init => LockInv
  BY DEF Init, LockInv, RunsExclusively, ExclusiveGroupsRunAlone

\* get_next_* gives work of a group that can be taken from, hence of one that
\* no thread runs exclusively, and locks it.
LEMMA GetNextLocks ==
    ASSUME LockInv, NEW k, NEW t \in Threads, GetNext(k, t)
    PROVE  LockInv'
  <1>1. PICK i \in DOMAIN handles[k] :
          /\ Serviceable(handles[k][i])
          /\ busy' = [busy EXCEPT ![t] = handles[k][i]]
          /\ takable' = takable \ ({GroupOf[handles[k][i]]} \cap MutexGroups)
    BY DEF GetNext
  <1> DEFINE e == handles[k][i]
  <1>2. GroupOf[e] \in takable
    BY <1>1 DEF Serviceable
  <1>3. /\ busy'[t] = e
        /\ \A u \in Threads \ {t} : busy'[u] = busy[u]
    BY <1>1 DEF LockInv
  <1>4. busy' \in [Threads -> {busy'[u] : u \in Threads}]
    BY <1>1 DEF LockInv
  <1>5. t \notin started /\ started' = started
    BY DEF GetNext, LockInv
  <1>6. \A u \in Threads : RunsExclusively(u)' => GroupOf[busy'[u]] \notin takable'
    <2> SUFFICES ASSUME NEW u \in Threads, RunsExclusively(u)'
                 PROVE  GroupOf[busy'[u]] \notin takable'
      OBVIOUS
    <2>1. CASE u = t
      BY <1>1, <1>3, <2>1 DEF RunsExclusively
    <2>2. CASE u # t
      BY <1>1, <1>3, <2>2 DEF RunsExclusively, LockInv
    <2> QED  BY <2>1, <2>2
  <1>7. ASSUME NEW u \in Threads \ {t}, RunsExclusively(u)'
        PROVE  GroupOf[busy'[u]] # GroupOf[e]
    BY <1>2, <1>3, <1>7 DEF RunsExclusively, LockInv
  <1>8. ExclusiveGroupsRunAlone'
    <2> SUFFICES ASSUME NEW u \in Threads, NEW v \in Threads,
                        RunsExclusively(u)', RunsExclusively(v)',
                        GroupOf[busy'[u]] = GroupOf[busy'[v]]
                 PROVE  u = v
      BY DEF ExclusiveGroupsRunAlone, RunsExclusively
    <2>1. CASE u = t \/ v = t
      BY <1>3, <1>7, <2>1
    <2>2. CASE u # t /\ v # t
      BY <1>3, <2>2 DEF LockInv, ExclusiveGroupsRunAlone, RunsExclusively
    <2> QED  BY <2>1, <2>2
  <1> QED  BY <1>3, <1>4, <1>5, <1>6, <1>8 DEF LockInv

\* execute_any_executable unlocks the group of its own work, which no other
\* thread has.
LEMMA FinishUnlocks ==
    ASSUME LockInv, NEW t \in Threads, Finish(t)
    PROVE  LockInv'
  <1>1. /\ busy[t] # NULL
        /\ started' = started \ {t}
        /\ busy' = [busy EXCEPT ![t] = NULL]
        /\ takable' = takable \cup {GroupOf[busy[t]]}
    BY DEF Finish, LockInv
  <1>2. /\ busy'[t] = NULL
        /\ \A u \in Threads \ {t} : busy'[u] = busy[u]
    BY <1>1 DEF LockInv
  <1>3. busy' \in [Threads -> {busy'[u] : u \in Threads}]
    BY <1>1 DEF LockInv
  <1>4. \A u \in started' : u \in Threads /\ busy'[u] # NULL
    BY <1>1, <1>2 DEF LockInv
  <1>5. \A u \in Threads : RunsExclusively(u)' =>
          u # t /\ RunsExclusively(u) /\ GroupOf[busy[u]] # GroupOf[busy[t]]
    BY <1>1, <1>2 DEF LockInv, ExclusiveGroupsRunAlone, RunsExclusively
  <1>6. \A u \in Threads : RunsExclusively(u)' => GroupOf[busy'[u]] \notin takable'
    BY <1>1, <1>2, <1>5 DEF LockInv
  <1>7. ExclusiveGroupsRunAlone'
    BY <1>2, <1>5 DEF LockInv, ExclusiveGroupsRunAlone, RunsExclusively
  <1> QED  BY <1>3, <1>4, <1>6, <1>7 DEF LockInv

\* Every step keeps the locks and the threads' work in step.
LEMMA LockStep == LockInv /\ [Next]_vars => LockInv'
  <1> SUFFICES ASSUME LockInv, [Next]_vars PROVE LockInv'
    OBVIOUS
  <1>1. ASSUME UNCHANGED threadVars PROVE LockInv'
    BY <1>1 DEF LockInv, ExclusiveGroupsRunAlone, RunsExclusively, threadVars
  <1>2. ASSUME NEW t \in Threads, Execute(t) PROVE LockInv'
    <2>1. busy[t] # NULL /\ started' = started \cup {t}
          /\ busy' = busy /\ takable' = takable
      BY <1>2 DEF Execute
    <2> QED  BY <2>1 DEF LockInv, ExclusiveGroupsRunAlone, RunsExclusively
  <1>3. CASE \E k \in HandleKinds, t \in Threads : GetNext(k, t)
    BY <1>3, GetNextLocks
  <1>4. CASE Execution
    BY <1>2, <1>4, FinishUnlocks DEF Execution
  <1>5. CASE Loop /\ ~(\E k \in HandleKinds, t \in Threads : GetNext(k, t))
    BY <1>1, <1>5 DEF Loop, ClearHandles, CollectEntities, EraseInvalid, Resize,
                      AddHandlesToWaitSet, RclWait, RemoveNullHandles,
                      TakeReadyHandles, TakeAndBundle, GetNextFails
  <1>6. CASE Environment
    BY <1>1, <1>6 DEF Environment, Arrive, Drop, CancelTimer, AddCallbackGroup
  <1>7. CASE UNCHANGED vars
    BY <1>1, <1>7 DEF vars
  <1> QED  BY <1>3, <1>4, <1>5, <1>6, <1>7 DEF Next

-----------------------------------------------------------------------------
\* get_next_* never gives two threads work of one mutually exclusive group.
THEOREM ExclusiveExecution == Spec => []ExclusiveGroupsRunAlone
  <1>1. LockInv => ExclusiveGroupsRunAlone
    BY DEF LockInv
  <1> QED  BY <1>1, LockInit, LockStep, PTL DEF Spec

-----------------------------------------------------------------------------
(***************************************************************************)
(* Sequences and loops                                                     *)
(***************************************************************************)

\* No element is twice in the sequence.
Once(s) == \A i, j \in DOMAIN s : s[i] = s[j] => i = j

\* A set of numbers has a least one.
LEMMA LeastNumber ==
    ASSUME NEW S \in SUBSET Nat, S # {}
    PROVE  \E x \in S : \A y \in S : x <= y
  <1>1. PICK x \in S : \A y \in S : ~(<<y, x>> \in OpToRel(<, Nat))
    BY NatLessThanWellFounded, WFMin, Zenon
  <1>2. ASSUME NEW y \in S, y < x PROVE <<y, x>> \in OpToRel(<, Nat)
    BY <1>2 DEF OpToRel
  <1>3. \A y \in S : ~(y < x)
    BY <1>1, <1>2, Zenon
  <1> QED  BY <1>3

\* What holds before the first pass of a loop, and after a pass if it held
\* before that pass, holds after each pass.
LEMMA EveryPass ==
    ASSUME NEW n \in Nat, NEW G, 0 \in G, \A m \in 1..n : m - 1 \in G => m \in G
    PROVE  \A m \in 0..n : m \in G
  <1> DEFINE Bad == {m \in 0..n : m \notin G}
  <1> SUFFICES ASSUME Bad # {} PROVE FALSE
    OBVIOUS
  <1>1. Bad \in SUBSET Nat
    OBVIOUS
  <1>2. PICK m \in Bad : \A y \in Bad : m <= y
    BY <1>1, LeastNumber, Zenon
  <1>3. m \in 1..n
    BY <1>2
  <1>4. m - 1 \in 0..n /\ ~(m <= m - 1)
    BY <1>3
  <1>5. m - 1 \in G
    BY <1>2, <1>4
  <1> QED  BY <1>2, <1>3, <1>5

\* F[i] is the value after pass i, when step[i] is what that pass does.
Runs(F, n, v, step) == F[0] = v /\ \A i \in 1..n : F[i] = step[i][F[i - 1]]

\* A loop that is left after n passes has had a value after each of them.
LEMMA Loops ==
    ASSUME NEW V, NEW n \in Nat, NEW v \in V, NEW step \in [1..n -> [V -> V]]
    PROVE  \E F \in [0..n -> V] : Runs(F, n, v, step)
  <1> DEFINE E(m) == \E F \in [0..m -> V] : Runs(F, m, v, step)
             G == {m \in 0..n : E(m)}
  <1>1. E(0)
    <2>1. [i \in 0..0 |-> v] \in [0..0 -> V] /\ [i \in 0..0 |-> v][0] = v
      OBVIOUS
    <2>2. 1..0 = {}
      OBVIOUS
    <2> QED  BY <2>1, <2>2 DEF Runs
  <1>2. ASSUME NEW m \in 1..n, E(m - 1) PROVE E(m)
    <2>1. PICK F \in [0..(m - 1) -> V] : Runs(F, m - 1, v, step)
      BY <1>2
    <2> DEFINE H == [i \in 0..m |-> IF i = m THEN step[m][F[m - 1]] ELSE F[i]]
    <2>2. F[m - 1] \in V /\ step[m] \in [V -> V]
      BY <2>1
    <2>3. step[m][F[m - 1]] \in V
      BY <2>2
    <2>4. \A i \in 0..m : i # m => i \in 0..(m - 1)
      OBVIOUS
    <2>5. H \in [0..m -> V]
      BY <2>1, <2>3, <2>4
    <2>6. H[0] = v
      BY <2>1 DEF Runs
    <2>7. ASSUME NEW i \in 1..m PROVE H[i] = step[i][H[i - 1]]
      <3>1. i - 1 \in 0..(m - 1) /\ i - 1 \in 0..m /\ i - 1 # m /\ i \in 0..m
        OBVIOUS
      <3>2. H[i - 1] = F[i - 1]
        BY <3>1
      <3>3. CASE i = m
        BY <3>1, <3>2, <3>3
      <3>4. CASE i # m
        <4>1. i \in 1..(m - 1) /\ H[i] = F[i]
          BY <3>1, <3>4
        <4> QED  BY <2>1, <3>2, <4>1 DEF Runs
      <3> QED  BY <3>3, <3>4
    <2> HIDE DEF H
    <2> QED  BY <2>5, <2>6, <2>7 DEF Runs
  <1> HIDE DEF E
  <1>3. 0 \in G /\ \A m \in 1..n : m - 1 \in G => m \in G
    BY <1>1, <1>2
  <1> HIDE DEF G
  <1>4. \A m \in 0..n : m \in G
    BY <1>3, EveryPass, Zenon
  <1>5. n \in 0..n
    OBVIOUS
  <1> QED  BY <1>4, <1>5 DEF G, E

\* K[i] is what Only has kept of the first i elements.
Kept(K, s, T) ==
    /\ K[0] = << >> /\ K[Len(s)] = Only(s, T)
    /\ \A i \in 1..Len(s) :
          K[i] = IF s[i] \in T THEN Append(K[i - 1], s[i]) ELSE K[i - 1]

\* Only looks at one element of the sequence after the other.
LEMMA OnlyRuns ==
    ASSUME NEW S, NEW s \in Seq(S), NEW T
    PROVE  \E K \in [0..Len(s) -> Seq(S \cap T)] : Kept(K, s, T)
  <1> DEFINE n == Len(s)
             V == Seq(S \cap T)
             step == [i \in 1..n |-> [r \in V |->
                        IF s[i] \in T THEN Append(r, s[i]) ELSE r]]
             Q(F) == F = [i \in 0..n |->
                       IF i = 0 THEN << >>
                       ELSE IF s[i] \in T THEN Append(F[i - 1], s[i]) ELSE F[i - 1]]
             K == CHOOSE F : Q(F)
  <1>1. n \in Nat /\ DOMAIN s = 1..n /\ \A i \in 1..n : s[i] \in S
    OBVIOUS
  <1>2. Only(s, T) = K[n]
    BY Zenon DEF Only
  <1> HIDE DEF n
  <1>3. << >> \in V
    OBVIOUS
  <1>4. step \in [1..n -> [V -> V]]
    <2>1. ASSUME NEW i \in 1..n, NEW r \in V, s[i] \in T PROVE Append(r, s[i]) \in V
      BY <1>1, <2>1
    <2> HIDE DEF V
    <2> QED  BY <2>1
  <1>5. \E F : Q(F)
    <2> HIDE DEF V, step
    <2>1. PICK F \in [0..n -> V] : Runs(F, n, << >>, step)
      BY <1>1, <1>3, <1>4, Loops, Zenon
    <2>2. ASSUME NEW i \in 1..n
          PROVE  F[i] = IF s[i] \in T THEN Append(F[i - 1], s[i]) ELSE F[i - 1]
      <3>1. F[i - 1] \in V
        BY <1>1, <2>1
      <3> QED  BY <2>1, <3>1 DEF step, Runs
    <2>3. F[0] = << >> /\ \A i \in 0..n : i # 0 => i \in 1..n
      BY <1>1, <2>1 DEF Runs
    <2>4. Q(F)
      BY <2>1, <2>2, <2>3
    <2> HIDE DEF Q
    <2> QED  BY <2>1, <2>4
  <1>6. Q(K)
    <2> HIDE DEF Q
    <2> QED  BY <1>5, Zenon
  <1> HIDE DEF K
  <1>7. /\ K[0] = << >>
        /\ \A i \in 1..n :
             K[i] = IF s[i] \in T THEN Append(K[i - 1], s[i]) ELSE K[i - 1]
    <2>1. DOMAIN K = 0..n /\ 0 \in 0..n /\ \A i \in 1..n : i \in 0..n /\ i # 0
      BY <1>1, <1>6
    <2> QED  BY <1>6, <2>1
  <1>8. \A m \in 0..n : K[m] \in V
    <2> DEFINE G == {m \in 0..n : K[m] \in V}
    <2>0. 0 \in 0..n /\ \A i \in 1..n : i \in 0..n
      BY <1>1
    <2>1. ASSUME NEW i \in 1..n, i - 1 \in G PROVE i \in G
      <3>1. K[i - 1] \in Seq(S \cap T) /\ s[i] \in S
        BY <1>1, <2>1
      <3>2. s[i] \in T => Append(K[i - 1], s[i]) \in Seq(S \cap T)
        BY <3>1
      <3> QED  BY <1>7, <2>0, <3>1, <3>2, Zenon
    <2>2. 0 \in G
      BY <1>3, <1>7, <2>0, Zenon
    <2> HIDE DEF G
    <2>3. \A m \in 0..n : m \in G
      BY <1>1, <2>1, <2>2, EveryPass, Zenon
    <2> QED  BY <2>3 DEF G
  <1>9. K \in [0..n -> V]
    BY <1>6, <1>8
  <1> HIDE DEF Q, V
  <1> QED  BY <1>2, <1>7, <1>9, Zenon DEF n, V, Kept

\* One more element at the end of a sequence.
LEMMA AppendKeeps ==
    ASSUME NEW S, NEW r \in Seq(S), NEW e \in S
    PROVE  /\ Append(r, e) \in Seq(S)
           /\ SE!ToSet(Append(r, e)) = SE!ToSet(r) \cup {e}
           /\ Once(r) /\ e \notin SE!ToSet(r) => Once(Append(r, e))
  <1> DEFINE a == Append(r, e)
  <1>1. /\ a \in Seq(S) /\ Len(r) \in Nat
        /\ DOMAIN r = 1..Len(r) /\ DOMAIN a = 1..(Len(r) + 1)
        /\ a[Len(r) + 1] = e
        /\ \A i \in 1..Len(r) : a[i] = r[i]
    OBVIOUS
  <1> HIDE DEF a
  <1>2. /\ \A i \in 1..(Len(r) + 1) : i \in 1..Len(r) \/ i = Len(r) + 1
        /\ \A i \in 1..Len(r) : i \in 1..(Len(r) + 1)
        /\ Len(r) + 1 \in 1..(Len(r) + 1)
    BY <1>1
  <1>3. SE!ToSet(a) = SE!ToSet(r) \cup {e}
    BY <1>1, <1>2 DEF SE!ToSet
  <1>4. ASSUME Once(r), e \notin SE!ToSet(r) PROVE Once(a)
    <2>1. \A i \in 1..Len(r) : r[i] # e
      BY <1>1, <1>4 DEF SE!ToSet
    <2>2. \A i, j \in 1..Len(r) : r[i] = r[j] => i = j
      BY <1>1, <1>4 DEF Once
    <2> QED  BY <1>1, <1>2, <2>1, <2>2 DEF Once
  <1> QED  BY <1>1, <1>3, <1>4 DEF a

\* Only keeps what is in T, nothing twice that was there once, and drops the
\* rest.
LEMMA OnlyKeeps ==
    ASSUME NEW S, NEW s \in Seq(S), NEW T
    PROVE  /\ Only(s, T) \in Seq(S \cap T)
           /\ SE!ToSet(Only(s, T)) = SE!ToSet(s) \cap T
           /\ Once(s) => Once(Only(s, T))
  <1> DEFINE n == Len(s)
             Before(m) == {s[i] : i \in 1..m}
  <1>1. n \in Nat /\ DOMAIN s = 1..n /\ \A i \in 1..n : s[i] \in S
    OBVIOUS
  <1>2. PICK K \in [0..n -> Seq(S \cap T)] :
          Kept(K, s, T)
    BY OnlyRuns, Zenon
  <1>a. /\ K[0] = << >> /\ K[n] = Only(s, T)
        /\ \A i \in 1..n :
              K[i] = IF s[i] \in T THEN Append(K[i - 1], s[i]) ELSE K[i - 1]
    BY <1>2, Zenon DEF Kept
  <1> HIDE DEF n
  <1> DEFINE Good(m) == /\ SE!ToSet(K[m]) = Before(m) \cap T
                        /\ Once(s) => Once(K[m])
             G == {m \in 0..n : Good(m)}
  <1>3. 0 \in G
    <2>1. DOMAIN << >> = {} /\ Before(0) = {} /\ 0 \in 0..n
      BY <1>1
    <2> QED  BY <1>a, <2>1 DEF SE!ToSet, Once
  <1>4. ASSUME NEW m \in 1..n, m - 1 \in G PROVE m \in G
    <2>1. Before(m) = Before(m - 1) \cup {s[m]}
      <3>1. 1..m = 1..(m - 1) \cup {m}
        BY <1>1
      <3> QED  BY <3>1
    <2>2. m \in 0..n
      BY <1>1
    <2>3. CASE s[m] \notin T
      <3>1. K[m] = K[m - 1]
        BY <1>a, <2>3, Zenon
      <3> QED  BY <1>4, <2>1, <2>2, <2>3, <3>1
    <2>4. CASE s[m] \in T
      <3>1. K[m] = Append(K[m - 1], s[m])
        BY <1>a, <2>4, Zenon
      <3>2. K[m - 1] \in Seq(S \cap T) /\ s[m] \in S \cap T
        BY <1>1, <1>2, <2>4
      <3>3. Once(s) => s[m] \notin Before(m - 1)
        <4>1. \A i \in 1..(m - 1) : i \in DOMAIN s /\ i # m
          BY <1>1
        <4> QED  BY <1>1, <4>1 DEF Once
      <3>4. SE!ToSet(K[m - 1]) = Before(m - 1) \cap T /\ (Once(s) => Once(K[m - 1]))
        BY <1>4
      <3> HIDE DEF Before
      <3> DEFINE r == K[m - 1]
      <3> HIDE DEF r
      <3>5. /\ SE!ToSet(Append(r, s[m])) = SE!ToSet(r) \cup {s[m]}
            /\ Once(r) /\ s[m] \notin SE!ToSet(r) => Once(Append(r, s[m]))
        <4>1. r \in Seq(S \cap T)
          BY <3>2 DEF r
        <4> QED  BY <3>2, <4>1, AppendKeeps
      <3> USE DEF r
      <3> QED  BY <2>1, <2>2, <2>4, <3>1, <3>3, <3>4, <3>5
    <2> QED  BY <2>3, <2>4
  <1> HIDE DEF G
  <1>5. \A m \in 0..n : m \in G
    BY <1>1, <1>3, <1>4, EveryPass, Zenon
  <1>b. n \in 0..n
    BY <1>1
  <1>6. Good(n)
    BY <1>5, <1>b DEF G
  <1>7. Before(n) = SE!ToSet(s)
    BY <1>1 DEF SE!ToSet
  <1>8. K[n] \in Seq(S \cap T)
    BY <1>2, <1>b
  <1> HIDE DEF Before
  <1> QED  BY <1>a, <1>6, <1>7, <1>8

\* Two sequences, one after the other.
LEMMA ConcatKeeps ==
    ASSUME NEW S, NEW r \in Seq(S), NEW s \in Seq(S)
    PROVE  /\ r \o s \in Seq(S) /\ Len(r \o s) = Len(r) + Len(s)
           /\ SE!ToSet(r \o s) = SE!ToSet(r) \cup SE!ToSet(s)
           /\ Once(r) /\ Once(s) /\ SE!ToSet(r) \cap SE!ToSet(s) = {}
                => Once(r \o s)
  <1> DEFINE c == r \o s
             m == Len(r)
             n == Len(s)
  <1>1. /\ c \in Seq(S) /\ m \in Nat /\ n \in Nat /\ Len(c) = m + n
        /\ DOMAIN r = 1..m /\ DOMAIN s = 1..n /\ DOMAIN c = 1..(m + n)
        /\ \A i \in 1..(m + n) : c[i] = IF i <= m THEN r[i] ELSE s[i - m]
    OBVIOUS
  <1> HIDE DEF c, m, n
  <1>2. \A i \in 1..m : i \in 1..(m + n) /\ c[i] = r[i]
    BY <1>1
  <1>3. \A i \in 1..n : i + m \in 1..(m + n) /\ c[i + m] = s[i]
    BY <1>1
  <1>4. \A i \in 1..(m + n) : i \in 1..m \/ (i - m \in 1..n /\ c[i] = s[i - m])
    BY <1>1
  <1>5. SE!ToSet(c) = SE!ToSet(r) \cup SE!ToSet(s)
    <2>1. /\ SE!ToSet(r) = {r[i] : i \in 1..m}
          /\ SE!ToSet(s) = {s[i] : i \in 1..n}
          /\ SE!ToSet(c) = {c[i] : i \in 1..(m + n)}
      BY <1>1 DEF SE!ToSet
    <2>2. SE!ToSet(r) \subseteq SE!ToSet(c)
      BY <1>2, <2>1
    <2>3. SE!ToSet(s) \subseteq SE!ToSet(c)
      BY <1>3, <2>1
    <2>4. ASSUME NEW i \in 1..(m + n) PROVE c[i] \in SE!ToSet(r) \cup SE!ToSet(s)
      <3>1. CASE i \in 1..m
        BY <1>2, <2>1, <3>1
      <3>2. CASE i \notin 1..m
        BY <1>4, <2>1, <3>2
      <3> QED  BY <3>1, <3>2
    <2>5. SE!ToSet(c) \subseteq SE!ToSet(r) \cup SE!ToSet(s)
      BY <2>1, <2>4
    <2> QED  BY <2>2, <2>3, <2>5
  <1>6. ASSUME Once(r), Once(s), SE!ToSet(r) \cap SE!ToSet(s) = {} PROVE Once(c)
    <2>1. \A i \in 1..m : \A j \in 1..n : r[i] # s[j]
      BY <1>1, <1>6 DEF SE!ToSet
    <2>2. /\ \A i, j \in 1..m : r[i] = r[j] => i = j
          /\ \A i, j \in 1..n : s[i] = s[j] => i = j
      BY <1>1, <1>6 DEF Once
    <2>3. \A i, j \in 1..(m + n) : i - m = j - m => i = j
      BY <1>1
    <2> QED  BY <1>1, <1>2, <1>4, <2>1, <2>2, <2>3 DEF Once
  <1> QED  BY <1>1, <1>5, <1>6 DEF c, m, n

\* K[i] is what FlattenSeq makes of the first i sequences.
Flattened(K, ss) ==
    /\ K[0] = << >> /\ K[Len(ss)] = SE!FlattenSeq(ss)
    /\ \A i \in 1..Len(ss) : K[i] = K[i - 1] \o ss[i]

\* FlattenSeq puts one sequence after the other.
LEMMA FlattenRuns ==
    ASSUME NEW S, NEW ss \in Seq(Seq(S))
    PROVE  \E K \in [0..Len(ss) -> Seq(S)] : Flattened(K, ss)
  <1> DEFINE n == Len(ss)
             V == Seq(S)
             step == [i \in 1..n |-> [r \in V |-> r \o ss[i]]]
             Q(F) == F = [i \in 1..n |->
                       IF i = 1 THEN ss[i] ELSE F[i - 1] \o ss[i]]
             H == CHOOSE F : Q(F)
             K == [i \in 0..n |-> IF i = 0 THEN << >> ELSE H[i]]
  <1>1. n \in Nat /\ DOMAIN ss = 1..n /\ \A i \in 1..n : ss[i] \in V
    OBVIOUS
  <1>2. n # 0 => SE!FlattenSeq(ss) = H[n]
    BY Zenon DEF SE!FlattenSeq
  <1>3. n = 0 => SE!FlattenSeq(ss) = << >>
    BY DEF SE!FlattenSeq
  <1> HIDE DEF n
  <1>4. << >> \in V
    OBVIOUS
  <1>5. step \in [1..n -> [V -> V]]
    <2>1. \A i \in 1..n : \A r \in V : r \o ss[i] \in V
      BY <1>1, ConcatKeeps, Zenon
    <2> HIDE DEF V
    <2> QED  BY <2>1
  <1>6. \E F : Q(F)
    <2> HIDE DEF V, step
    <2>1. PICK F \in [0..n -> V] : Runs(F, n, << >>, step)
      BY <1>1, <1>4, <1>5, Loops, Zenon
    <2>2. F[0] = << >> /\ \A i \in 1..n : F[i] = step[i][F[i - 1]]
      BY <2>1 DEF Runs
    <2>3. \A i \in 1..n : i - 1 \in 0..n /\ i \in 0..n
      BY <1>1
    <2>4. \A i \in 1..n : F[i] = F[i - 1] \o ss[i]
      BY <2>1, <2>2, <2>3 DEF step
    <2>5. \A s \in V : << >> \o s = s
      BY DEF V
    <2>6. \A i \in 1..n : F[i] = IF i = 1 THEN ss[i] ELSE F[i - 1] \o ss[i]
      <3>1. ASSUME NEW i \in 1..n, i = 1 PROVE F[i] = ss[i]
        <4>1. F[i - 1] = << >> /\ ss[i] \in V
          BY <1>1, <2>2, <3>1
        <4> QED  BY <2>4, <2>5, <4>1
      <3> QED  BY <2>4, <3>1
    <2>7. \A i \in 1..n : i # 1 => i - 1 \in 1..n
      BY <1>1
    <2> DEFINE F1 == [i \in 1..n |-> F[i]]
    <2>8. \A i \in 1..n : F1[i] = IF i = 1 THEN ss[i] ELSE F1[i - 1] \o ss[i]
      BY <2>6, <2>7
    <2>9. F1 = [i \in 1..n |-> F1[i]]
      OBVIOUS
    <2> HIDE DEF F1
    <2>10. Q(F1)
      BY <2>8, <2>9
    <2> HIDE DEF Q
    <2> QED  BY <2>10
  <1>7. Q(H)
    <2> HIDE DEF Q
    <2> QED  BY <1>6, Zenon
  <1> HIDE DEF H
  <1>8. \A i \in 1..n : H[i] = IF i = 1 THEN ss[i] ELSE H[i - 1] \o ss[i]
    BY <1>7
  <1>9. K[0] = << >> /\ \A i \in 1..n : K[i] = K[i - 1] \o ss[i]
    <2>1. /\ 0 \in 0..n
          /\ \A i \in 1..n : i \in 0..n /\ i - 1 \in 0..n /\ i # 0
                             /\ (i # 1 => i - 1 # 0)
      BY <1>1
    <2>2. \A s \in V : << >> \o s = s
      OBVIOUS
    <2>3. K[0] = << >>
      BY <2>1
    <2>4. ASSUME NEW i \in 1..n, i = 1 PROVE K[i] = K[i - 1] \o ss[i]
      <3>1. K[i] = ss[i] /\ K[i - 1] = << >>
        BY <1>8, <2>1, <2>4
      <3> QED  BY <1>1, <2>2, <2>4, <3>1
    <2>5. ASSUME NEW i \in 1..n, i # 1 PROVE K[i] = K[i - 1] \o ss[i]
      BY <1>8, <2>1, <2>5
    <2> QED  BY <2>3, <2>4, <2>5
  <1>10. K[n] = SE!FlattenSeq(ss) /\ K = [i \in 0..n |-> K[i]]
    <2>1. n \in 0..n
      BY <1>1
    <2> QED  BY <1>2, <1>3, <2>1
  <1> HIDE DEF K, Q, V
  <1>11. \A m \in 0..n : K[m] \in V
    <2> DEFINE G == {m \in 0..n : K[m] \in V}
    <2>0. 0 \in 0..n /\ \A i \in 1..n : i \in 0..n
      BY <1>1
    <2>1. 0 \in G
      BY <1>4, <1>9, <2>0
    <2>2. ASSUME NEW i \in 1..n, i - 1 \in G PROVE i \in G
      <3>1. K[i - 1] \in V /\ ss[i] \in V
        BY <1>1, <2>2
      <3>2. K[i - 1] \o ss[i] \in V
        BY <3>1, ConcatKeeps, Zenon DEF V
      <3> QED  BY <1>9, <2>0, <3>2
    <2> HIDE DEF G
    <2>3. \A m \in 0..n : m \in G
      BY <1>1, <2>1, <2>2, EveryPass, Zenon
    <2> QED  BY <2>3 DEF G
  <1>12. K \in [0..n -> V]
    BY <1>10, <1>11
  <1> QED  BY <1>9, <1>10, <1>12, Zenon DEF n, V, Flattened

\* FlattenSeq keeps every element of every sequence, and nothing twice that is
\* in one of them only, once.
LEMMA FlattenKeeps ==
    ASSUME NEW S, NEW ss \in Seq(Seq(S))
    PROVE  /\ SE!FlattenSeq(ss) \in Seq(S)
           /\ SE!ToSet(SE!FlattenSeq(ss)) = UNION {SE!ToSet(ss[i]) : i \in DOMAIN ss}
           /\ /\ \A i \in DOMAIN ss : Once(ss[i])
              /\ \A i, j \in DOMAIN ss :
                    i # j => SE!ToSet(ss[i]) \cap SE!ToSet(ss[j]) = {}
              => Once(SE!FlattenSeq(ss))
  <1> DEFINE n == Len(ss)
             Before(m) == UNION {SE!ToSet(ss[i]) : i \in 1..m}
             Apart == /\ \A i \in DOMAIN ss : Once(ss[i])
                      /\ \A i, j \in DOMAIN ss :
                            i # j => SE!ToSet(ss[i]) \cap SE!ToSet(ss[j]) = {}
  <1>1. n \in Nat /\ DOMAIN ss = 1..n /\ \A i \in 1..n : ss[i] \in Seq(S)
    OBVIOUS
  <1>2. PICK K \in [0..n -> Seq(S)] :
          Flattened(K, ss)
    BY FlattenRuns, Zenon
  <1>a. /\ K[0] = << >> /\ K[n] = SE!FlattenSeq(ss)
        /\ \A i \in 1..n : K[i] = K[i - 1] \o ss[i]
    BY <1>2, Zenon DEF Flattened
  <1> HIDE DEF n
  <1> DEFINE G == {m \in 0..n : SE!ToSet(K[m]) = Before(m) /\ (Apart => Once(K[m]))}
  <1>3. 0 \in G
    <2>1. DOMAIN << >> = {} /\ Before(0) = {} /\ 0 \in 0..n
      BY <1>1
    <2> QED  BY <1>a, <2>1 DEF SE!ToSet, Once
  <1>4. ASSUME NEW m \in 1..n, m - 1 \in G PROVE m \in G
    <2>1. Before(m) = Before(m - 1) \cup SE!ToSet(ss[m])
      <3>1. 1..m = 1..(m - 1) \cup {m}
        BY <1>1
      <3> QED  BY <3>1
    <2>2. m \in 0..n /\ m - 1 \in 0..n /\ \A i \in 1..(m - 1) : i \in 1..n /\ i # m
      BY <1>1
    <2>3. K[m] = K[m - 1] \o ss[m] /\ K[m - 1] \in Seq(S) /\ ss[m] \in Seq(S)
      BY <1>1, <1>2, <1>a, <2>2
    <2>4. SE!ToSet(K[m - 1]) = Before(m - 1) /\ (Apart => Once(K[m - 1]))
      BY <1>4
    <2>5. Apart => Once(ss[m]) /\ Before(m - 1) \cap SE!ToSet(ss[m]) = {}
      BY <1>1, <2>2, Zenon
    <2> HIDE DEF Before, Apart
    <2> DEFINE r == K[m - 1]
    <2> HIDE DEF r
    <2>6. r \in Seq(S)
      BY <2>3 DEF r
    <2>7. /\ SE!ToSet(r \o ss[m]) = SE!ToSet(r) \cup SE!ToSet(ss[m])
          /\ Once(r) /\ Once(ss[m]) /\ SE!ToSet(r) \cap SE!ToSet(ss[m]) = {}
                => Once(r \o ss[m])
      BY <2>3, <2>6, ConcatKeeps
    <2> USE DEF r
    <2> QED  BY <2>1, <2>2, <2>3, <2>4, <2>5, <2>7
  <1> HIDE DEF G
  <1>5. \A m \in 0..n : m \in G
    BY <1>1, <1>3, <1>4, EveryPass, Zenon
  <1>b. n \in 0..n
    BY <1>1
  <1>6. SE!ToSet(K[n]) = Before(n) /\ (Apart => Once(K[n])) /\ K[n] \in Seq(S)
    BY <1>2, <1>5, <1>b DEF G
  <1>7. Before(n) = UNION {SE!ToSet(ss[i]) : i \in DOMAIN ss}
    BY <1>1
  <1> HIDE DEF Before
  <1> QED  BY <1>a, <1>6, <1>7

\* A sequence is one of any set that has its elements.
LEMMA SeqOfItsSet ==
    ASSUME NEW S, NEW s \in Seq(S), NEW T, SE!ToSet(s) \subseteq T
    PROVE  s \in Seq(T)
  <1>1. DOMAIN s = 1..Len(s) /\ Len(s) \in Nat /\ s = [i \in 1..Len(s) |-> s[i]]
    OBVIOUS
  <1>2. \A i \in 1..Len(s) : s[i] \in T
    BY <1>1 DEF SE!ToSet
  <1> QED  BY <1>1, <1>2

\* One more element somewhere in a sequence.
LEMMA InsertKeeps ==
    ASSUME NEW S, NEW s \in Seq(S), NEW e \in S, NEW i \in 1..(Len(s) + 1),
           Once(s), e \notin SE!ToSet(s)
    PROVE  LET r == SubSeq(s, 1, i - 1) \o <<e>> \o SubSeq(s, i, Len(s))
           IN /\ r \in Seq(S) /\ Once(r)
              /\ SE!ToSet(r) = SE!ToSet(s) \cup {e}
  <1> DEFINE n == Len(s)
             r == SubSeq(s, 1, i - 1) \o <<e>> \o SubSeq(s, i, n)
  <1>1. n \in Nat /\ DOMAIN s = 1..n /\ i \in Nat /\ 1 <= i /\ i <= n + 1
    OBVIOUS
  <1>2. /\ SubSeq(s, 1, i - 1) \in Seq(S) /\ Len(SubSeq(s, 1, i - 1)) = i - 1
        /\ \A j \in 1..(i - 1) : SubSeq(s, 1, i - 1)[j] = s[j]
    BY <1>1
  <1>3. /\ SubSeq(s, i, n) \in Seq(S) /\ Len(SubSeq(s, i, n)) = n + 1 - i
        /\ \A j \in 1..(n + 1 - i) : SubSeq(s, i, n)[j] = s[i + j - 1]
    BY <1>1
  <1> DEFINE a == SubSeq(s, 1, i - 1)
             b == SubSeq(s, i, n)
  <1> HIDE DEF n, a, b
  <1>4. /\ a \in Seq(S) /\ b \in Seq(S) /\ Len(a) = i - 1 /\ Len(b) = n + 1 - i
        /\ \A j \in 1..(i - 1) : a[j] = s[j]
        /\ \A j \in 1..(n + 1 - i) : b[j] = s[i + j - 1]
    BY <1>2, <1>3 DEF a, b
  <1>5. r = a \o <<e>> \o b
    BY DEF a, b
  <1> HIDE DEF r
  <1>6. /\ r \in Seq(S) /\ Len(r) = n + 1 /\ DOMAIN r = 1..(n + 1)
        /\ \A j \in 1..(n + 1) : r[j] = IF j <= i - 1 THEN a[j]
                                        ELSE IF j = i THEN e ELSE b[j - i]
    <2>1. a \o <<e>> \in Seq(S) /\ Len(a \o <<e>>) = i
          /\ \A j \in 1..i : (a \o <<e>>)[j] = IF j <= i - 1 THEN a[j] ELSE e
      <3> DEFINE u == <<e>>
      <3>1. u \in Seq(S) /\ Len(u) = 1 /\ u[1] = e
        OBVIOUS
      <3> HIDE DEF u
      <3>2. /\ a \o u \in Seq(S) /\ Len(a \o u) = (i - 1) + 1
            /\ \A j \in 1..((i - 1) + 1) :
                  (a \o u)[j] = IF j <= i - 1 THEN a[j] ELSE u[j - (i - 1)]
        <4>0. a \in Seq(S) /\ u \in Seq(S)
          BY <1>4, <3>1
        <4>1. /\ a \o u \in Seq(S) /\ Len(a \o u) = Len(a) + Len(u)
              /\ \A j \in 1..(Len(a) + Len(u)) :
                    (a \o u)[j] = IF j <= Len(a) THEN a[j] ELSE u[j - Len(a)]
          BY <4>0
        <4> QED  BY <1>4, <3>1, <4>1
      <3>3. (i - 1) + 1 = i
            /\ \A j \in 1..i : ~(j <= i - 1) => j - (i - 1) = 1
        BY <1>1
      <3> QED  BY <3>1, <3>2, <3>3 DEF u
    <2>2. r \in Seq(S) /\ Len(r) = i + (n + 1 - i) /\ DOMAIN r = 1..(i + (n + 1 - i))
          /\ \A j \in 1..(i + (n + 1 - i)) :
                r[j] = IF j <= i THEN (a \o <<e>>)[j] ELSE b[j - i]
      BY <1>1, <1>4, <1>5, <2>1
    <2>3. i + (n + 1 - i) = n + 1
      BY <1>1
    <2> QED  BY <1>1, <2>1, <2>2, <2>3
  <1>7. \A j \in 1..(n + 1) : r[j] = IF j < i THEN s[j]
                                     ELSE IF j = i THEN e ELSE s[j - 1]
    <2> SUFFICES ASSUME NEW j \in 1..(n + 1)
                 PROVE  r[j] = IF j < i THEN s[j] ELSE IF j = i THEN e ELSE s[j - 1]
      OBVIOUS
    <2>1. CASE j < i
      <3>1. j \in 1..(i - 1) /\ j <= i - 1
        BY <1>1, <2>1
      <3> QED  BY <1>4, <1>6, <2>1, <3>1
    <2>2. CASE j = i
      BY <1>1, <1>6, <2>2
    <2>3. CASE j > i
      <3>1. j - i \in 1..(n + 1 - i) /\ i + (j - i) - 1 = j - 1 /\ ~(j <= i - 1) /\ j # i
        BY <1>1, <2>3
      <3>2. r[j] = b[j - i]
        BY <1>6, <3>1
      <3>3. b[j - i] = s[i + (j - i) - 1]
        BY <1>4, <3>1
      <3> QED  BY <1>1, <2>3, <3>1, <3>2, <3>3
    <2> QED  BY <1>1, <2>1, <2>2, <2>3
  <1>8. \A j \in 1..n : s[j] # e
    BY <1>1 DEF SE!ToSet
  <1>9. \A j, l \in 1..n : s[j] = s[l] => j = l
    BY <1>1 DEF Once
  <1>10. \A j \in 1..(n + 1) : /\ j < i => j \in 1..n
                               /\ j > i => j - 1 \in 1..n
    BY <1>1
  <1>11. Once(r)
    <2> SUFFICES ASSUME NEW j \in 1..(n + 1), NEW l \in 1..(n + 1), r[j] = r[l]
                 PROVE  j = l
      BY <1>6 DEF Once
    <2> QED  BY <1>1, <1>7, <1>8, <1>9, <1>10
  <1>12. SE!ToSet(r) = SE!ToSet(s) \cup {e}
    <2>1. SE!ToSet(r) = {r[j] : j \in 1..(n + 1)} /\ SE!ToSet(s) = {s[j] : j \in 1..n}
      BY <1>1, <1>6 DEF SE!ToSet
    <2>2. ASSUME NEW j \in 1..(n + 1) PROVE r[j] \in SE!ToSet(s) \cup {e}
      BY <1>1, <1>7, <1>10, <2>1
    <2>3. i \in 1..(n + 1) /\ r[i] = e
      BY <1>1, <1>7
    <2>4. ASSUME NEW j \in 1..n PROVE \E l \in 1..(n + 1) : r[l] = s[j]
      <3>1. CASE j < i
        BY <1>1, <1>7, <3>1
      <3>2. CASE ~(j < i)
        <4>1. j + 1 \in 1..(n + 1) /\ j + 1 > i /\ (j + 1) - 1 = j
          BY <1>1, <3>2
        <4>2. r[j + 1] = s[j]
          BY <1>1, <1>7, <4>1
        <4> QED  BY <4>1, <4>2
      <3> QED  BY <3>1, <3>2
    <2> QED  BY <2>1, <2>2, <2>3, <2>4
  <1> QED  BY <1>6, <1>11, <1>12 DEF r, n

-----------------------------------------------------------------------------
(***************************************************************************)
(* The operators of the model                                              *)
(***************************************************************************)

\* The entities of a kind.
Kinded(k) == {e \in Entities : KindOf[e] = k}

\* What guard_conditions may list.
Guards == Groups \cup {Interrupt}

\* The entities of a kind in a callback group.
InGroup(g, k) == {e \in Entities : KindOf[e] = k /\ GroupOf[e] = g}

\* A callback group lists its members of a kind once each.
LEMMA MembersKeep ==
    ASSUME NEW g \in Groups, NEW k \in HandleKinds
    PROVE  /\ MembersOf[g][k] \in Seq(InGroup(g, k))
           /\ SE!ToSet(MembersOf[g][k]) = InGroup(g, k)
           /\ Once(MembersOf[g][k])
  <1>1. MembersOf[g][k] = Only(EntitySeq, InGroup(g, k))
    BY DEF MembersOf, InGroup
  <1>2. EntitySeq \in Seq(Entities) /\ Once(EntitySeq)
    BY ConstantsAssumption DEF Once
  <1>3. Entities \cap InGroup(g, k) = InGroup(g, k) /\ SE!ToSet(EntitySeq) = Entities
    BY DEF InGroup, Entities
  <1> DEFINE T == InGroup(g, k)
  <1> HIDE DEF T
  <1>4. Only(EntitySeq, T) \in Seq(Entities \cap T)
    BY <1>2, OnlyKeeps
  <1>5. SE!ToSet(Only(EntitySeq, T)) = SE!ToSet(EntitySeq) \cap T
    BY <1>2, OnlyKeeps
  <1>6. Once(Only(EntitySeq, T))
    BY <1>2, OnlyKeeps
  <1> QED  BY <1>1, <1>3, <1>4, <1>5, <1>6 DEF T

\* collect_all_ptrs yields the members of a kind that can be locked, once each.
LEMMA PtrsKeep ==
    ASSUME NEW g \in Groups, NEW k \in HandleKinds
    PROVE  /\ PtrsOf(g, k) \in Seq(InGroup(g, k))
           /\ SE!ToSet(PtrsOf(g, k)) = {e \in InGroup(g, k) : EntityAlive(e)}
           /\ Once(PtrsOf(g, k))
  <1> DEFINE alive == {e \in Entities : EntityAlive(e)}
  <1>1. PtrsOf(g, k) = Only(MembersOf[g][k], alive)
    BY Zenon DEF PtrsOf
  <1>2. InGroup(g, k) \cap alive = {e \in InGroup(g, k) : EntityAlive(e)}
    BY DEF InGroup
  <1> DEFINE T == InGroup(g, k)
             ms == MembersOf[g][k]
  <1>a. ms \in Seq(T) /\ SE!ToSet(ms) = T /\ Once(ms)
    BY MembersKeep
  <1> HIDE DEF alive, T, ms
  <1>b. Only(ms, alive) \in Seq(T \cap alive)
    BY <1>a, OnlyKeeps
  <1>c. SE!ToSet(Only(ms, alive)) = SE!ToSet(ms) \cap alive
    BY <1>a, OnlyKeeps
  <1>d. Once(Only(ms, alive))
    BY <1>a, OnlyKeeps
  <1> USE DEF T, ms
  <1>3. PtrsOf(g, k) \in Seq(InGroup(g, k) \cap alive)
    BY <1>1, <1>b, Zenon
  <1>4. SE!ToSet(PtrsOf(g, k)) = InGroup(g, k) \cap alive
    BY <1>1, <1>a, <1>c, Zenon
  <1>5. Once(PtrsOf(g, k))
    BY <1>1, <1>d, Zenon
  <1>6. PtrsOf(g, k) \in Seq(InGroup(g, k))
    BY <1>3
  <1> QED  BY <1>2, <1>4, <1>5, <1>6

\* What the loop over the groups of the map collects.
LEMMA ForEachKeeps ==
    ASSUME NEW S, NEW G, NEW f \in [Groups -> Seq(S)],
           weak_groups_to_nodes \in Seq(Groups), Once(weak_groups_to_nodes)
    PROVE  /\ ForEachGroup(G, f) \in Seq(S)
           /\ SE!ToSet(ForEachGroup(G, f)) =
                UNION {SE!ToSet(f[g]) : g \in SE!ToSet(weak_groups_to_nodes) \cap G}
           /\ /\ \A g \in Groups : Once(f[g])
              /\ \A g, h \in Groups : g # h => SE!ToSet(f[g]) \cap SE!ToSet(f[h]) = {}
              => Once(ForEachGroup(G, f))
  <1> DEFINE gs == Only(weak_groups_to_nodes, G)
             ss == [i \in DOMAIN gs |-> f[gs[i]]]
  <1>1. ForEachGroup(G, f) = SE!FlattenSeq(ss)
    BY Zenon DEF ForEachGroup
  <1>2. gs \in Seq(Groups \cap G)
    BY OnlyKeeps
  <1>3. SE!ToSet(gs) = SE!ToSet(weak_groups_to_nodes) \cap G
    BY OnlyKeeps
  <1>4. Once(gs)
    BY OnlyKeeps
  <1> HIDE DEF gs
  <1>5. \A i \in DOMAIN gs : gs[i] \in Groups
    BY <1>2
  <1>6. DOMAIN ss = DOMAIN gs /\ \A i \in DOMAIN gs : ss[i] = f[gs[i]]
    OBVIOUS
  <1>7. ss \in Seq(Seq(S))
    <2>1. DOMAIN gs = 1..Len(gs) /\ Len(gs) \in Nat
      BY <1>2
    <2>2. \A i \in DOMAIN gs : f[gs[i]] \in Seq(S)
      BY <1>5
    <2> QED  BY <2>1, <2>2
  <1> HIDE DEF ss
  <1>8. SE!FlattenSeq(ss) \in Seq(S)
    BY <1>7, FlattenKeeps
  <1>9. SE!ToSet(SE!FlattenSeq(ss)) = UNION {SE!ToSet(ss[i]) : i \in DOMAIN ss}
    BY <1>7, FlattenKeeps
  <1>10. UNION {SE!ToSet(ss[i]) : i \in DOMAIN ss}
           = UNION {SE!ToSet(f[g]) : g \in SE!ToSet(gs)}
    <2>1. SE!ToSet(gs) = {gs[i] : i \in DOMAIN gs}
      BY DEF SE!ToSet
    <2> QED  BY <1>6, <2>1
  <1>11. ASSUME \A g \in Groups : Once(f[g]),
                \A g, h \in Groups : g # h => SE!ToSet(f[g]) \cap SE!ToSet(f[h]) = {}
         PROVE  Once(SE!FlattenSeq(ss))
    <2>1. \A i \in DOMAIN ss : Once(ss[i])
      BY <1>5, <1>6, <1>11
    <2>2. \A i, j \in DOMAIN ss : i # j => gs[i] # gs[j]
      BY <1>4, <1>6 DEF Once
    <2>3. \A i, j \in DOMAIN ss :
             i # j => SE!ToSet(ss[i]) \cap SE!ToSet(ss[j]) = {}
      BY <1>5, <1>6, <1>11, <2>2
    <2> QED  BY <1>7, <2>1, <2>3, FlattenKeeps
  <1> QED  BY <1>1, <1>3, <1>8, <1>9, <1>10, <1>11

\* remove_guard_condition erases one of the list, if any.
LEMMA RemoveKeeps ==
    ASSUME NEW S, NEW s \in Seq(S), NEW g
    PROVE  RemoveGuardCondition(s, g) \in Seq(S)
  <1>1. CASE \E i \in 1..Len(s) : s[i] = g
    <2> DEFINE at == SE!SelectInSeq(s, LAMBDA v : v = g)
    <2>1. RemoveGuardCondition(s, g) = SE!RemoveAt(s, at)
      BY <1>1 DEF RemoveGuardCondition, SE!RemoveFirst
    <2>2. at \in 1..Len(s)
      <3> DEFINE I == {i \in 1..Len(s) : s[i] = g}
                 least == CHOOSE x \in I : \A y \in I : x <= y
      <3>1. I \in SUBSET Nat /\ I # {}
        BY <1>1
      <3>2. at = least
        BY <3>1, Zenon DEF SE!SelectInSeq, SE!Min
      <3> HIDE DEF at
      <3>3. \E x \in I : \A y \in I : x <= y
        BY <3>1, LeastNumber
      <3>4. least \in I
        BY <3>3
      <3> QED  BY <3>2, <3>4
    <2> HIDE DEF at
    <2>3. SubSeq(s, 1, at - 1) \in Seq(S) /\ SubSeq(s, at + 1, Len(s)) \in Seq(S)
      BY <2>2
    <2> QED  BY <2>1, <2>3 DEF SE!RemoveAt
  <1>2. CASE ~(\E i \in 1..Len(s) : s[i] = g)
    BY <1>2 DEF RemoveGuardCondition, SE!RemoveFirst
  <1> QED  BY <1>1, <1>2

\* The loop of EraseInvalid leaves guard conditions in the list.
LEMMA EraseKeeps ==
    ASSUME weak_groups_to_nodes \in Seq(Groups), guard_conditions \in Seq(Guards),
           EraseInvalid
    PROVE  guard_conditions' \in Seq(Guards)
  <1> DEFINE gs == weak_groups_to_nodes
             n == Len(gs)
             V == Seq(Guards)
             step == [i \in 1..n |-> [r \in V |->
                        IF Invalid(gs[i]) THEN RemoveGuardCondition(r, gs[i]) ELSE r]]
             Q(F) == F = [i \in 0..n |->
                       IF i = 0 THEN guard_conditions
                       ELSE IF Invalid(gs[i]) THEN RemoveGuardCondition(F[i - 1], gs[i])
                       ELSE F[i - 1]]
             H == CHOOSE F : Q(F)
  <1>1. n \in Nat
    OBVIOUS
  <1>2. guard_conditions' = H[n]
    BY Zenon DEF EraseInvalid
  <1> HIDE DEF gs, n
  <1>3. step \in [1..n -> [V -> V]]
    <2>1. \A r \in V : \A g : RemoveGuardCondition(r, g) \in V
      BY RemoveKeeps, Zenon
    <2> HIDE DEF V
    <2> QED  BY <2>1
  <1>4. \E F : Q(F)
    <2>0. guard_conditions \in V
      OBVIOUS
    <2> HIDE DEF V, step
    <2>1. PICK F \in [0..n -> V] : Runs(F, n, guard_conditions, step)
      BY <1>1, <1>3, <2>0, Loops, Zenon
    <2>2. ASSUME NEW i \in 1..n
          PROVE  F[i] = IF Invalid(gs[i]) THEN RemoveGuardCondition(F[i - 1], gs[i])
                                          ELSE F[i - 1]
      <3>1. F[i - 1] \in V
        BY <1>1, <2>1
      <3> QED  BY <2>1, <3>1 DEF step, Runs
    <2>3. F[0] = guard_conditions /\ \A i \in 0..n : i # 0 => i \in 1..n
      BY <1>1, <2>1 DEF Runs
    <2>4. Q(F)
      BY <2>1, <2>2, <2>3
    <2> HIDE DEF Q
    <2> QED  BY <2>4
  <1>5. Q(H)
    <2> HIDE DEF Q
    <2> QED  BY <1>4, Zenon
  <1> HIDE DEF H
  <1>6. /\ H[0] = guard_conditions
        /\ \A i \in 1..n :
             H[i] = IF Invalid(gs[i]) THEN RemoveGuardCondition(H[i - 1], gs[i])
                                      ELSE H[i - 1]
    <2>1. DOMAIN H = 0..n /\ 0 \in 0..n /\ \A i \in 1..n : i \in 0..n /\ i # 0
      BY <1>1, <1>5
    <2> QED  BY <1>5, <2>1
  <1> HIDE DEF Q
  <1> DEFINE G == {m \in 0..n : H[m] \in V}
  <1>7. 0 \in G
    BY <1>1, <1>6
  <1>8. ASSUME NEW i \in 1..n, i - 1 \in G PROVE i \in G
    <2>1. RemoveGuardCondition(H[i - 1], gs[i]) \in V /\ H[i - 1] \in V
      BY <1>8, RemoveKeeps, Zenon
    <2>2. i \in 0..n
      BY <1>1
    <2> QED  BY <1>6, <2>1, <2>2, Zenon
  <1> HIDE DEF G
  <1>9. \A m \in 0..n : m \in G
    BY <1>1, <1>7, <1>8, EveryPass, Zenon
  <1>10. n \in 0..n
    BY <1>1
  <1> QED  BY <1>2, <1>9, <1>10 DEF G

\* What the waitables add.
LEMMA WaitablesAdd ==
    ASSUME handles["waitable"] \in Seq(Kinded("waitable")), NEW k \in WaitKinds
    PROVE  WaitableEntries(k) \in Seq(Kinded("waitable"))
  <1> DEFINE ws == handles["waitable"]
             ss == [i \in DOMAIN ws |-> [j \in 1..EntriesOf[ws[i]][k] |-> ws[i]]]
  <1>1. WaitableEntries(k) = SE!FlattenSeq(ss)
    BY Zenon DEF WaitableEntries
  <1>2. ss \in Seq(Seq(Kinded("waitable")))
    <2>1. DOMAIN ws = 1..Len(ws) /\ Len(ws) \in Nat
          /\ \A i \in DOMAIN ws : ws[i] \in Kinded("waitable")
      OBVIOUS
    <2> HIDE DEF ws
    <2>2. \A w \in Kinded("waitable") : EntriesOf[w][k] \in Nat
      BY ConstantsAssumption DEF Kinded
    <2>3. ASSUME NEW i \in DOMAIN ws
          PROVE  [j \in 1..EntriesOf[ws[i]][k] |-> ws[i]] \in Seq(Kinded("waitable"))
      BY <2>1, <2>2
    <2> QED  BY <2>1, <2>3
  <1> HIDE DEF ss
  <1> QED  BY <1>1, <1>2, FlattenKeeps

\* number_of_* counts what add_handles_to_wait_set adds.
LEMMA NumberFits ==
    ASSUME handles["waitable"] \in Seq(Kinded("waitable")), NEW k \in WaitKinds,
           NEW S, OwnHandles(k) \in Seq(S)
    PROVE  NumberOf(k) = Len(Entries(k))
  <1> DEFINE ws == handles["waitable"]
             n == Len(ws)
             own == OwnHandles(k)
             ss == [i \in DOMAIN ws |-> [j \in 1..EntriesOf[ws[i]][k] |-> ws[i]]]
             step == [i \in 1..n |-> [r \in Nat |-> r + EntriesOf[ws[i]][k]]]
             Q(F) == F = [i \in 0..n |->
                       IF i = 0 THEN Len(own) ELSE F[i - 1] + EntriesOf[ws[i]][k]]
             H == CHOOSE F : Q(F)
  <1>1. n \in Nat /\ DOMAIN ws = 1..n /\ Len(own) \in Nat
        /\ \A i \in 1..n : ws[i] \in Kinded("waitable")
    OBVIOUS
  <1>2. NumberOf(k) = H[n]
    BY Zenon DEF NumberOf
  <1>3. WaitableEntries(k) = SE!FlattenSeq(ss)
    BY Zenon DEF WaitableEntries
  <1> HIDE DEF n, ws, own
  <1>4. \A i \in 1..n : EntriesOf[ws[i]][k] \in Nat
    BY <1>1, ConstantsAssumption DEF Kinded
  <1>5. \E F : Q(F)
    <2>1. step \in [1..n -> [Nat -> Nat]]
      BY <1>4
    <2> HIDE DEF step
    <2>2. PICK F \in [0..n -> Nat] : Runs(F, n, Len(own), step)
      BY <1>1, <2>1, Loops, Zenon
    <2>3. ASSUME NEW i \in 1..n PROVE F[i] = F[i - 1] + EntriesOf[ws[i]][k]
      <3>1. F[i - 1] \in Nat
        BY <1>1, <2>2
      <3> QED  BY <2>2, <3>1 DEF step, Runs
    <2>4. F[0] = Len(own) /\ \A i \in 0..n : i # 0 => i \in 1..n
      BY <1>1, <2>2 DEF Runs
    <2>5. Q(F)
      BY <2>2, <2>3, <2>4
    <2> HIDE DEF Q
    <2> QED  BY <2>5
  <1>6. Q(H)
    <2> HIDE DEF Q
    <2> QED  BY <1>5, Zenon
  <1> HIDE DEF H
  <1>7. /\ H[0] = Len(own)
        /\ \A i \in 1..n : H[i] = H[i - 1] + EntriesOf[ws[i]][k]
    <2>1. DOMAIN H = 0..n /\ 0 \in 0..n /\ \A i \in 1..n : i \in 0..n /\ i # 0
      BY <1>1, <1>6
    <2> QED  BY <1>6, <2>1
  <1> HIDE DEF Q
  <1>8. ss \in Seq(Seq(Kinded("waitable"))) /\ Len(ss) = n
        /\ \A i \in 1..n : Len(ss[i]) = EntriesOf[ws[i]][k]
    <2>1. \A N \in Nat : \A w \in Kinded("waitable") :
             /\ [j \in 1..N |-> w] \in Seq(Kinded("waitable"))
             /\ Len([j \in 1..N |-> w]) = N
      OBVIOUS
    <2>2. ASSUME NEW i \in 1..n
          PROVE  /\ ss[i] \in Seq(Kinded("waitable"))
                 /\ Len(ss[i]) = EntriesOf[ws[i]][k]
      <3>1. ss[i] = [j \in 1..EntriesOf[ws[i]][k] |-> ws[i]]
        BY <1>1
      <3> HIDE DEF ss
      <3> QED  BY <1>1, <1>4, <2>1, <3>1
    <2>3. ss = [i \in 1..n |-> ss[i]]
      BY <1>1
    <2> HIDE DEF ss
    <2>4. ss \in Seq(Seq(Kinded("waitable"))) /\ Len(ss) = n
      BY <1>1, <2>2, <2>3
    <2> QED  BY <2>2, <2>4
  <1> HIDE DEF ss
  <1>9. PICK K \in [0..Len(ss) -> Seq(Kinded("waitable"))] : Flattened(K, ss)
    BY <1>8, FlattenRuns, Zenon
  <1>10. /\ K[0] = << >> /\ K[n] = SE!FlattenSeq(ss)
         /\ \A i \in 1..n : K[i] = K[i - 1] \o ss[i]
    BY <1>8, <1>9, Zenon DEF Flattened
  <1>11. \A i \in 0..n : K[i] \in Seq(Kinded("waitable"))
    BY <1>8, <1>9
  <1> DEFINE G == {m \in 0..n : H[m] = Len(own) + Len(K[m])}
  <1>12. 0 \in G
    BY <1>1, <1>7, <1>10
  <1>13. ASSUME NEW i \in 1..n, i - 1 \in G PROVE i \in G
    <2>1. i \in 0..n /\ i - 1 \in 0..n
      BY <1>1
    <2>2. K[i - 1] \in Seq(Kinded("waitable")) /\ ss[i] \in Seq(Kinded("waitable"))
      BY <1>8, <1>11, <2>1
    <2>3. Len(K[i]) = Len(K[i - 1]) + EntriesOf[ws[i]][k]
      <3>1. Len(K[i - 1] \o ss[i]) = Len(K[i - 1]) + Len(ss[i])
        BY <2>2, ConcatKeeps
      <3> QED  BY <1>8, <1>10, <3>1, Zenon
    <2>4. Len(K[i - 1]) \in Nat
      BY <2>2
    <2>5. H[i] = H[i - 1] + EntriesOf[ws[i]][k] /\ EntriesOf[ws[i]][k] \in Nat
      BY <1>4, <1>7
    <2>6. H[i - 1] = Len(own) + Len(K[i - 1])
      BY <1>13
    <2>7. H[i] = Len(own) + Len(K[i])
      BY <1>1, <2>3, <2>4, <2>5, <2>6
    <2> QED  BY <2>1, <2>7
  <1> HIDE DEF G
  <1>14. \A m \in 0..n : m \in G
    BY <1>1, <1>12, <1>13, EveryPass, Zenon
  <1>15. n \in 0..n
    BY <1>1
  <1>16. H[n] = Len(own) + Len(SE!FlattenSeq(ss))
    BY <1>10, <1>14, <1>15 DEF G
  <1>17. Len(Entries(k)) = Len(own) + Len(SE!FlattenSeq(ss))
    <2>1. SE!FlattenSeq(ss) \in Seq(Kinded("waitable")) /\ own \in Seq(S)
      BY <1>8, FlattenKeeps DEF own
    <2>2. Entries(k) = own \o SE!FlattenSeq(ss)
      BY <1>3, Zenon DEF Entries, own
    <2> QED  BY <2>1, <2>2
  <1> QED  BY <1>2, <1>16, <1>17

-----------------------------------------------------------------------------
(***************************************************************************)
(* The handles, from one wait to the next                                  *)
(***************************************************************************)

\* The entity's group is in the map, or never comes back into it.
Stays(e) ==
    \/ GroupOf[e] \in SE!ToSet(weak_groups_to_nodes)
    \/ ~({GroupOf[e], NodeOf[GroupOf[e]]} \subseteq owned)

\* The handles of a kind that a wait of the executor can have.
Awaited(k) == {e \in Kinded(k) : Stays(e)}

\* The calls between collect_entities and the use of what was reported.
Between == {"erase_invalid", "resize", "add_handles_to_wait_set", "rcl_wait",
            "remove_null_handles", "take_ready_handles"}

\* The map has each group once; the guard conditions have no entity.
GroupsOK ==
    /\ weak_groups_to_nodes \in Seq(Groups) /\ Once(weak_groups_to_nodes)
    /\ guard_conditions \in Seq(Guards)

\* The handles of a wait are those of entities of their kind.
HandlesOK ==
    /\ DOMAIN handles = HandleKinds
    /\ pc = "collect_entities" => handles = NoHandles
    /\ pc \in Between => \A k \in HandleKinds : handles[k] \in Seq(Awaited(k))

\* The wait set has room for what is added next, and that never fails.
SizesOK ==
    /\ pc # "threw"
    /\ pc = "add_handles_to_wait_set" =>
         \A k \in WaitKinds : k \in DOMAIN capacity /\ capacity[k] = Len(Entries(k))

\* Index i of the wait set is the entry of handle i, or its NULL; every other
\* entry is one of a waitable or a guard condition.
EntriesOK ==
    pc \in {"rcl_wait", "remove_null_handles"} =>
        \A k \in WaitKinds :
            /\ wait_set[k] \in Seq(Entities \cup Guards \cup {NULL})
            /\ k \in HandleKinds => \A i \in DOMAIN handles[k] :
                  i \in DOMAIN wait_set[k] /\ wait_set[k][i] \in {handles[k][i], NULL}
            /\ \A i \in DOMAIN wait_set[k] :
                  \/ wait_set[k][i] \in Kinded("waitable") \cup Guards \cup {NULL}
                  \/ k \in HandleKinds /\ i \in DOMAIN handles[k]

\* What was reported is what is in the wait set, and then the handles.
ReportOK ==
    /\ reported \subseteq {e \in Entities : KindOf[e] = "waitable" \/ Stays(e)}
    /\ pc = "remove_null_handles" =>
         reported = Entities \cap (UNION {SE!ToSet(wait_set[k]) : k \in WaitKinds})
    /\ pc = "take_ready_handles" =>
         \A k \in BulkKinds : SE!ToSet(handles[k]) = {e \in reported : KindOf[e] = k}

WaitInv ==
    /\ GroupsOK /\ HandlesOK /\ SizesOK /\ EntriesOK /\ ReportOK
    /\ TakesWhatWasReported

\* The kinds are these.
LEMMA Kinds ==
    /\ HandleKinds = {"timer", "subscription", "service", "client", "waitable"}
    /\ WaitKinds = {"timer", "subscription", "service", "client",
                    "guard_condition", "event"}
  <1>1. HandleKinds = {"timer", "subscription", "service", "client", "waitable"}
    <2>1. DOMAIN KindSeq = 1..5 /\ 1..5 = {1, 2, 3, 4, 5}
      BY DEF KindSeq
    <2>2. /\ KindSeq[1] = "timer" /\ KindSeq[2] = "subscription"
          /\ KindSeq[3] = "service" /\ KindSeq[4] = "client"
          /\ KindSeq[5] = "waitable"
      BY DEF KindSeq
    <2>3. SE!ToSet(KindSeq) = {KindSeq[i] : i \in {1, 2, 3, 4, 5}}
      BY <2>1 DEF SE!ToSet
    <2> QED  BY <2>2, <2>3 DEF HandleKinds
  <1> QED  BY <1>1 DEF WaitKinds

\* The executor is created with a map of groups and waits for nothing yet.
LEMMA WaitInit == Init => WaitInv
  <1> SUFFICES ASSUME Init PROVE WaitInv
    OBVIOUS
  <1>1. /\ pc = "clear_handles" /\ handles = NoHandles /\ reported = {}
        /\ guard_conditions = <<Interrupt>> \o weak_groups_to_nodes
        /\ weak_groups_to_nodes \in SE!SetToAllKPermutations(Groups)
    BY DEF Init
  <1>2. PICK G \in SUBSET Groups : weak_groups_to_nodes \in SE!SetToSeqs(G)
    BY <1>1 DEF SE!SetToAllKPermutations
  <1>3. Cardinality(G) \in Nat
    BY <1>2, ConstantsAssumption, FS_Subset, FS_CardinalityType
  <1>4. /\ weak_groups_to_nodes \in [1..Cardinality(G) -> G]
        /\ \A i, j \in 1..Cardinality(G) :
              i # j => weak_groups_to_nodes[i] # weak_groups_to_nodes[j]
    <2>1. SE!Cardinality(G) = Cardinality(G)
      BY Zenon DEF SE!Cardinality, Cardinality
    <2> QED  BY <1>2, <2>1 DEF SE!SetToSeqs
  <1>5. weak_groups_to_nodes \in Seq(Groups)
    BY <1>2, <1>3, <1>4
  <1>6. Once(weak_groups_to_nodes)
    BY <1>4 DEF Once
  <1>7. guard_conditions \in Seq(Guards)
    BY <1>1, <1>5 DEF Guards
  <1> QED  BY <1>1, <1>5, <1>6, <1>7
           DEF WaitInv, GroupsOK, HandlesOK, SizesOK, EntriesOK, ReportOK,
               TakesWhatWasReported, Between, NoHandles

\* The application only drops its references, and the executor's map stays.
LEMMA WaitUnmoved ==
    ASSUME WaitInv, owned' \subseteq owned,
           UNCHANGED <<pc, groupVars, handles, waitVars, ready>>
    PROVE  WaitInv'
  <1>1. /\ pc' = pc /\ handles' = handles /\ capacity' = capacity
        /\ wait_set' = wait_set /\ reported' = reported /\ ready' = ready
        /\ weak_groups_to_nodes' = weak_groups_to_nodes
        /\ guard_conditions' = guard_conditions
    BY DEF groupVars, waitVars
  <1>2. \A e : Stays(e) => Stays(e)'
    BY <1>1 DEF Stays
  <1>3. GroupsOK'
    BY <1>1 DEF WaitInv, GroupsOK, Once
  <1>4. HandlesOK'
    <2>1. \A k : Awaited(k) \subseteq Awaited(k)'
      BY <1>2 DEF Awaited
    <2>2. \A A, B : A \subseteq B => Seq(A) \subseteq Seq(B)
      OBVIOUS
    <2> QED  BY <1>1, <2>1, <2>2 DEF WaitInv, HandlesOK
  <1>5. SizesOK'
    <2>1. ASSUME NEW k \in WaitKinds PROVE Entries(k)' = Entries(k)
      BY <1>1, Zenon DEF Entries, OwnHandles, WaitableEntries
    <2> QED  BY <1>1, <2>1 DEF WaitInv, SizesOK
  <1>6. EntriesOK'
    BY <1>1 DEF WaitInv, EntriesOK
  <1>7. ReportOK'
    BY <1>1, <1>2 DEF WaitInv, ReportOK
  <1>8. TakesWhatWasReported'
    BY <1>1 DEF WaitInv, TakesWhatWasReported
  <1> QED  BY <1>3, <1>4, <1>5, <1>6, <1>7, <1>8 DEF WaitInv

\* Outside the wait the handles are nobody's business: the strategy clears
\* them, or looks for the next one to execute.
LEMMA WaitElsewhere ==
    ASSUME WaitInv, DOMAIN handles' = HandleKinds,
           pc' \notin Between \cup {"threw", "take_and_bundle"},
           pc' = "collect_entities" => handles' = NoHandles,
           UNCHANGED <<owned, groupVars, reported>>
    PROVE  WaitInv'
  <1>1. /\ owned' = owned /\ reported' = reported
        /\ weak_groups_to_nodes' = weak_groups_to_nodes
        /\ guard_conditions' = guard_conditions
    BY DEF groupVars
  <1>2. GroupsOK'
    BY <1>1 DEF WaitInv, GroupsOK, Once
  <1>3. HandlesOK' /\ SizesOK' /\ EntriesOK' /\ TakesWhatWasReported'
    BY DEF HandlesOK, SizesOK, EntriesOK, TakesWhatWasReported, Between
  <1>4. ReportOK'
    <2>1. \A e : Stays(e) => Stays(e)'
      BY <1>1 DEF Stays
    <2> QED  BY <1>1, <2>1 DEF WaitInv, ReportOK, Between
  <1> QED  BY <1>2, <1>3, <1>4 DEF WaitInv

\* get_next_* leaves lists of all kinds.
LEMMA GetNextKeeps ==
    ASSUME WaitInv, NEW k \in HandleKinds,
           GetNextFails(k) \/ \E t \in Threads : GetNext(k, t)
    PROVE  WaitInv'
  <1>1. DOMAIN handles' = HandleKinds
    BY DEF GetNext, GetNextFails, WaitInv, HandlesOK
  <1>2. UNCHANGED <<owned, groupVars, reported>>
    BY DEF GetNext, GetNextFails, objectVars, waitVars
  <1>3. pc' \in HandleKinds \cup {"clear_handles"}
    <2>1. DOMAIN KindSeq = 1..5 /\ Len(KindSeq) = 5
      BY DEF KindSeq
    <2>2. \A i \in 1..5 : KindSeq[i] \in HandleKinds
      BY <2>1 DEF HandleKinds, SE!ToSet
    <2>3. CASE GetNextFails(k)
      <3>1. PICK i \in 1..5 :
              pc' = IF i = Len(KindSeq) THEN "clear_handles" ELSE KindSeq[i + 1]
        BY <2>1, <2>3 DEF GetNextFails
      <3>2. i # 5 => i + 1 \in 1..5
        OBVIOUS
      <3> QED  BY <2>1, <2>2, <3>1, <3>2
    <2>4. CASE \E t \in Threads : GetNext(k, t)
      BY <2>2, <2>4 DEF GetNext
    <2> QED  BY <2>3, <2>4
  <1>4. pc' \notin Between \cup {"threw", "take_and_bundle", "collect_entities"}
    BY <1>3, Kinds DEF Between
  <1> QED  BY <1>1, <1>2, <1>4, WaitElsewhere

\* clear_handles leaves nothing for collect_entities to find.
LEMMA ClearKeeps == ASSUME WaitInv, ClearHandles PROVE WaitInv'
  <1>1. /\ DOMAIN handles' = HandleKinds /\ handles' = NoHandles
        /\ pc' = "collect_entities"
    BY DEF ClearHandles, NoHandles
  <1>2. UNCHANGED <<owned, groupVars, reported>>
    BY DEF ClearHandles, objectVars, waitVars
  <1> QED  BY <1>1, <1>2, WaitElsewhere DEF Between

\* populate_ready_queues keeps no vector of what it has taken.
LEMMA BundleKeeps == ASSUME WaitInv, TakeAndBundle PROVE WaitInv'
  <1>1. /\ DOMAIN handles' = HandleKinds /\ pc' = "clear_handles"
        /\ UNCHANGED <<owned, groupVars, reported>>
    BY DEF TakeAndBundle, WaitInv, HandlesOK, waitVars
  <1> QED  BY <1>1, WaitElsewhere DEF Between

\* collect_entities finds members of groups of the map.
LEMMA CollectKeeps == ASSUME WaitInv, CollectEntities PROVE WaitInv'
  <1>1. /\ pc = "collect_entities" /\ pc' \in {"erase_invalid", "resize"}
        /\ owned' = owned /\ reported' = reported
        /\ weak_groups_to_nodes' = weak_groups_to_nodes
        /\ guard_conditions' = guard_conditions
        /\ handles' = [k \in HandleKinds |->
             handles[k] \o ForEachGroup(Collected, [g \in Groups |-> PtrsOf(g, k)])]
    BY DEF CollectEntities, objectVars, groupVars, waitVars
  <1>2. \A e : Stays(e)' <=> Stays(e)
    BY <1>1 DEF Stays
  <1>3. \A k : Awaited(k)' = Awaited(k)
    BY <1>2 DEF Awaited
  <1>4. ASSUME NEW k \in HandleKinds PROVE handles'[k] \in Seq(Awaited(k))
    <2> DEFINE f == [g \in Groups |-> PtrsOf(g, k)]
               r == ForEachGroup(Collected, f)
               X == Entities
    <2>1. weak_groups_to_nodes \in Seq(Groups) /\ Once(weak_groups_to_nodes)
      BY DEF WaitInv, GroupsOK
    <2>2. \A g \in Groups : PtrsOf(g, k) \in Seq(InGroup(g, k))
      BY PtrsKeep
    <2>3. f \in [Groups -> Seq(X)]
      <3>1. \A g : InGroup(g, k) \subseteq Entities
        BY DEF InGroup
      <3>2. \A A, B : A \subseteq B => Seq(A) \subseteq Seq(B)
        OBVIOUS
      <3>3. \A g \in Groups : PtrsOf(g, k) \in Seq(X)
        BY <2>2, <3>1, <3>2
      <3> QED  BY <3>3
    <2>4. \A g \in Groups : f[g] = PtrsOf(g, k)
      OBVIOUS
    <2> HIDE DEF f, X
    <2>5. r \in Seq(X)
      BY <2>1, <2>3, ForEachKeeps
    <2>6. SE!ToSet(r) =
            UNION {SE!ToSet(f[g]) : g \in SE!ToSet(weak_groups_to_nodes) \cap Collected}
      BY <2>1, <2>3, ForEachKeeps
    <2>7. \A g \in Groups : SE!ToSet(f[g]) \subseteq InGroup(g, k)
      BY <2>4, PtrsKeep
    <2>8. SE!ToSet(weak_groups_to_nodes) \subseteq Groups
      BY <2>1 DEF SE!ToSet
    <2>9. SE!ToSet(r) \subseteq Awaited(k)
      <3>1. \A g \in SE!ToSet(weak_groups_to_nodes) : InGroup(g, k) \subseteq Awaited(k)
        BY DEF InGroup, Awaited, Kinded, Stays
      <3> QED  BY <2>6, <2>7, <2>8, <3>1
    <2>10. r \in Seq(Awaited(k))
      BY <2>5, <2>9, SeqOfItsSet
    <2>11. handles'[k] = << >> \o r
      BY <1>1 DEF f, WaitInv, HandlesOK, NoHandles
    <2> HIDE DEF r
    <2> QED  BY <2>10, <2>11
  <1>5. HandlesOK'
    BY <1>1, <1>3, <1>4 DEF HandlesOK
  <1>6. GroupsOK'
    BY <1>1 DEF WaitInv, GroupsOK, Once
  <1>7. SizesOK' /\ EntriesOK' /\ TakesWhatWasReported'
    BY <1>1 DEF SizesOK, EntriesOK, TakesWhatWasReported
  <1>8. ReportOK'
    BY <1>1, <1>2 DEF WaitInv, ReportOK
  <1> QED  BY <1>5, <1>6, <1>7, <1>8 DEF WaitInv

\* A group that is erased is gone for good, so that its members still count.
LEMMA EraseInvalidKeeps == ASSUME WaitInv, EraseInvalid PROVE WaitInv'
  <1> DEFINE valid == {g \in Groups : ~Invalid(g)}
  <1>1. /\ pc = "erase_invalid" /\ pc' = "resize"
        /\ owned' = owned /\ reported' = reported /\ handles' = handles
        /\ weak_groups_to_nodes' = Only(weak_groups_to_nodes, valid)
    BY DEF EraseInvalid, objectVars, waitVars
  <1>2. weak_groups_to_nodes \in Seq(Groups) /\ Once(weak_groups_to_nodes)
        /\ guard_conditions \in Seq(Guards)
    BY DEF WaitInv, GroupsOK
  <1> HIDE DEF valid
  <1>3. weak_groups_to_nodes' \in Seq(Groups \cap valid)
    BY <1>1, <1>2, OnlyKeeps
  <1>4. SE!ToSet(weak_groups_to_nodes') = SE!ToSet(weak_groups_to_nodes) \cap valid
    BY <1>1, <1>2, OnlyKeeps
  <1>5. Once(weak_groups_to_nodes')
    BY <1>1, <1>2, OnlyKeeps
  <1>6. GroupsOK'
    <2>1. weak_groups_to_nodes' \in Seq(Groups)
      BY <1>3
    <2>2. guard_conditions' \in Seq(Guards)
      BY <1>2, EraseKeeps
    <2> QED  BY <1>5, <2>1, <2>2 DEF GroupsOK, Once, Guards
  <1>7. \A e \in Entities : Stays(e) => Stays(e)'
    <2> SUFFICES ASSUME NEW e \in Entities, Stays(e),
                        {GroupOf[e], NodeOf[GroupOf[e]]} \subseteq owned
                 PROVE  GroupOf[e] \in SE!ToSet(weak_groups_to_nodes')
      BY <1>1 DEF Stays
    <2>1. GroupOf[e] \in SE!ToSet(weak_groups_to_nodes) /\ GroupOf[e] \in Groups
      BY ConstantsAssumption DEF Stays
    <2>2. ~Invalid(GroupOf[e])
      BY DEF Invalid, GroupAlive, NodeAlive
    <2> QED  BY <1>4, <2>1, <2>2 DEF valid
  <1>8. HandlesOK'
    <2>1. \A k : Awaited(k) \subseteq Awaited(k)'
      BY <1>7 DEF Awaited, Kinded
    <2>2. \A A, B : A \subseteq B => Seq(A) \subseteq Seq(B)
      OBVIOUS
    <2>3. \A k \in HandleKinds : handles[k] \in Seq(Awaited(k))
      BY <1>1 DEF WaitInv, HandlesOK, Between
    <2> QED  BY <1>1, <2>1, <2>2, <2>3 DEF WaitInv, HandlesOK
  <1>9. SizesOK' /\ EntriesOK' /\ TakesWhatWasReported'
    BY <1>1 DEF SizesOK, EntriesOK, TakesWhatWasReported
  <1>10. ReportOK'
    BY <1>1, <1>7 DEF WaitInv, ReportOK
  <1> QED  BY <1>6, <1>8, <1>9, <1>10 DEF WaitInv

\* The lists that are added are sequences.
LEMMA OwnHandlesAre ==
    ASSUME GroupsOK, \A k \in HandleKinds : handles[k] \in Seq(Awaited(k)),
           NEW k \in WaitKinds
    PROVE  /\ OwnHandles(k) \in Seq(Entities \cup Guards)
           /\ k \notin HandleKinds => OwnHandles(k) \in Seq(Guards)
           /\ k \in HandleKinds => OwnHandles(k) = handles[k]
  <1>1. \A A, B : A \subseteq B => Seq(A) \subseteq Seq(B)
    OBVIOUS
  <1>2. Awaited(k) \subseteq Entities \cup Guards /\ Guards \subseteq Entities \cup Guards
    BY DEF Awaited, Kinded
  <1>3. CASE k = "guard_condition"
    <2>1. OwnHandles(k) = guard_conditions /\ k \notin HandleKinds
      BY <1>3, Kinds DEF OwnHandles
    <2> QED  BY <1>1, <1>2, <2>1 DEF GroupsOK
  <1>4. CASE k \in HandleKinds
    <2>1. OwnHandles(k) = handles[k]
      BY <1>4, Kinds DEF OwnHandles
    <2> QED  BY <1>1, <1>2, <1>4, <2>1
  <1>5. CASE k = "event"
    <2>1. OwnHandles(k) = << >> /\ k \notin HandleKinds
      BY <1>5, Kinds DEF OwnHandles
    <2> QED  BY <2>1
  <1> QED  BY <1>3, <1>4, <1>5, Kinds

\* The own handles are added first, then the entries of the waitables.
LEMMA EntriesAre ==
    ASSUME GroupsOK, \A k \in HandleKinds : handles[k] \in Seq(Awaited(k)),
           NEW k \in WaitKinds
    PROVE  /\ Entries(k) \in Seq(Entities \cup Guards)
           /\ \A i \in DOMAIN OwnHandles(k) :
                 i \in DOMAIN Entries(k) /\ Entries(k)[i] = OwnHandles(k)[i]
           /\ \A i \in DOMAIN Entries(k) :
                 i \in DOMAIN OwnHandles(k) \/ Entries(k)[i] \in Kinded("waitable")
  <1> DEFINE own == OwnHandles(k)
             ws  == WaitableEntries(k)
             W   == Kinded("waitable")
             S   == Entities \cup Guards
  <1>1. own \in Seq(S)
    BY OwnHandlesAre
  <1>2. ws \in Seq(W)
    <2>1. "waitable" \in HandleKinds /\ Awaited("waitable") \subseteq W
      BY Kinds DEF Awaited
    <2>2. \A A, B : A \subseteq B => Seq(A) \subseteq Seq(B)
      OBVIOUS
    <2>3. handles["waitable"] \in Seq(Kinded("waitable"))
      BY <2>1, <2>2
    <2> QED  BY <2>3, WaitablesAdd
  <1>3. Entries(k) = own \o ws
    BY Zenon DEF Entries
  <1>4. W \subseteq S
    BY DEF Kinded
  <1> HIDE DEF own, ws, W, S
  <1>5. ws \in Seq(S)
    <2>1. \A A, B : A \subseteq B => Seq(A) \subseteq Seq(B)
      OBVIOUS
    <2> QED  BY <1>2, <1>4, <2>1
  <1>6. /\ own \o ws \in Seq(S)
        /\ Len(own) \in Nat /\ Len(ws) \in Nat
        /\ DOMAIN own = 1..Len(own) /\ DOMAIN (own \o ws) = 1..(Len(own) + Len(ws))
        /\ \A i \in 1..(Len(own) + Len(ws)) :
              (own \o ws)[i] = IF i <= Len(own) THEN own[i] ELSE ws[i - Len(own)]
    BY <1>1, <1>5
  <1>7. \A i \in 1..Len(ws) : ws[i] \in W
    BY <1>2
  <1>8. \A i \in DOMAIN own : i \in DOMAIN (own \o ws) /\ (own \o ws)[i] = own[i]
    BY <1>6
  <1>9. ASSUME NEW i \in DOMAIN (own \o ws)
        PROVE  i \in DOMAIN own \/ (own \o ws)[i] \in W
    <2>1. CASE i <= Len(own)
      BY <1>6, <1>9, <2>1
    <2>2. CASE ~(i <= Len(own))
      <3>1. i - Len(own) \in 1..Len(ws) /\ (own \o ws)[i] = ws[i - Len(own)]
        BY <1>6, <1>9, <2>2
      <3> QED  BY <1>7, <3>1
    <2> QED  BY <2>1, <2>2
  <1> DEFINE c == own \o ws
  <1> HIDE DEF c
  <1>10. Entries(k) = c
    BY <1>3 DEF c
  <1>11. c \in Seq(S) /\ (\A i \in DOMAIN own : i \in DOMAIN c /\ c[i] = own[i])
         /\ (\A i \in DOMAIN c : i \in DOMAIN own \/ c[i] \in W)
    BY <1>6, <1>8, <1>9 DEF c
  <1> QED  BY <1>10, <1>11, Zenon DEF own, W, S

\* rcl_wait_set_resize is asked for what will be added.
LEMMA ResizeKeeps == ASSUME WaitInv, Resize PROVE WaitInv'
  <1>1. /\ pc = "resize" /\ pc' = "add_handles_to_wait_set"
        /\ owned' = owned /\ reported' = {} /\ handles' = handles
        /\ weak_groups_to_nodes' = weak_groups_to_nodes
        /\ guard_conditions' = guard_conditions
        /\ capacity' = [k \in WaitKinds |-> NumberOf(k)]
    BY DEF Resize, objectVars, groupVars
  <1>2. \A k \in HandleKinds : handles[k] \in Seq(Awaited(k))
    BY <1>1 DEF WaitInv, HandlesOK, Between
  <1>3. GroupsOK' /\ GroupsOK
    BY <1>1 DEF WaitInv, GroupsOK, Once
  <1>4. HandlesOK'
    <2>1. \A k : Awaited(k)' = Awaited(k)
      BY <1>1 DEF Awaited, Stays
    <2> QED  BY <1>1, <1>2, <2>1 DEF WaitInv, HandlesOK
  <1>5. ASSUME NEW k \in WaitKinds PROVE NumberOf(k) = Len(Entries(k))
    <2>1. "waitable" \in HandleKinds /\ Awaited("waitable") \subseteq Kinded("waitable")
      BY Kinds DEF Awaited
    <2>2. \A A, B : A \subseteq B => Seq(A) \subseteq Seq(B)
      OBVIOUS
    <2>3. handles["waitable"] \in Seq(Kinded("waitable"))
      BY <1>2, <2>1, <2>2
    <2>4. OwnHandles(k) \in Seq(Entities \cup Guards)
      BY <1>2, <1>3, OwnHandlesAre
    <2> QED  BY <2>3, <2>4, NumberFits
  <1>6. SizesOK'
    <2>1. \A k \in WaitKinds : Entries(k)' = Entries(k)
      BY <1>1, Zenon DEF Entries, OwnHandles, WaitableEntries
    <2> QED  BY <1>1, <1>5, <2>1 DEF SizesOK
  <1>7. EntriesOK' /\ TakesWhatWasReported' /\ ReportOK'
    BY <1>1 DEF EntriesOK, TakesWhatWasReported, ReportOK
  <1> QED  BY <1>3, <1>4, <1>6, <1>7 DEF WaitInv

\* Everything fits, the own handles first.
LEMMA AddHandlesKeeps == ASSUME WaitInv, AddHandlesToWaitSet PROVE WaitInv'
  <1>1. /\ pc = "add_handles_to_wait_set"
        /\ \A k \in WaitKinds : Len(Entries(k)) <= capacity[k]
    <2>1. pc = "add_handles_to_wait_set"
      BY DEF AddHandlesToWaitSet
    <2>2. \A k \in HandleKinds : handles[k] \in Seq(Awaited(k))
      BY <2>1 DEF WaitInv, HandlesOK, Between
    <2>3. \A k \in WaitKinds : Entries(k) \in Seq(Entities \cup Guards)
      BY <2>2, EntriesAre DEF WaitInv
    <2>4. \A k \in WaitKinds : Len(Entries(k)) \in Nat
      BY <2>3
    <2> QED  BY <2>1, <2>4 DEF WaitInv, SizesOK
  <1>2. /\ pc' = "rcl_wait"
        /\ owned' = owned /\ reported' = reported /\ handles' = handles
        /\ weak_groups_to_nodes' = weak_groups_to_nodes
        /\ guard_conditions' = guard_conditions
        /\ wait_set' = [k \in WaitKinds |-> Entries(k)]
    BY <1>1 DEF AddHandlesToWaitSet, objectVars, groupVars
  <1>3. \A k \in HandleKinds : handles[k] \in Seq(Awaited(k))
    BY <1>1 DEF WaitInv, HandlesOK, Between
  <1>4. GroupsOK' /\ GroupsOK
    BY <1>2 DEF WaitInv, GroupsOK, Once
  <1>5. \A e : Stays(e)' <=> Stays(e)
    BY <1>2 DEF Stays
  <1>6. HandlesOK'
    <2>1. \A k : Awaited(k)' = Awaited(k)
      BY <1>5 DEF Awaited
    <2> QED  BY <1>2, <1>3, <2>1 DEF WaitInv, HandlesOK
  <1>7. EntriesOK'
    <2> SUFFICES ASSUME NEW k \in WaitKinds
                 PROVE  /\ Entries(k) \in Seq(Entities \cup Guards \cup {NULL})
                        /\ k \in HandleKinds => \A i \in DOMAIN handles[k] :
                             i \in DOMAIN Entries(k) /\ Entries(k)[i] = handles[k][i]
                        /\ \A i \in DOMAIN Entries(k) :
                             \/ Entries(k)[i] \in Kinded("waitable") \cup Guards
                             \/ k \in HandleKinds /\ i \in DOMAIN handles[k]
      <3>1. \A k \in WaitKinds : wait_set'[k] = Entries(k)
        BY <1>2
      <3> HIDE DEF Entries
      <3> QED  BY <1>2, <3>1 DEF EntriesOK, Guards, Kinded
    <2>1. Entries(k) \in Seq(Entities \cup Guards)
      BY <1>3, <1>4, EntriesAre
    <2>2. Entries(k) \in Seq(Entities \cup Guards \cup {NULL})
      <3>1. \A A, B : A \subseteq B => Seq(A) \subseteq Seq(B)
        OBVIOUS
      <3> QED  BY <2>1, <3>1
    <2>3. \A i \in DOMAIN OwnHandles(k) :
             i \in DOMAIN Entries(k) /\ Entries(k)[i] = OwnHandles(k)[i]
      BY <1>3, <1>4, EntriesAre
    <2>4. \A i \in DOMAIN Entries(k) :
             i \in DOMAIN OwnHandles(k) \/ Entries(k)[i] \in Kinded("waitable")
      BY <1>3, <1>4, EntriesAre
    <2>5. CASE k \in HandleKinds
      <3>1. OwnHandles(k) = handles[k]
        BY <1>3, <1>4, <2>5, OwnHandlesAre
      <3> QED  BY <2>2, <2>3, <2>4, <2>5, <3>1
    <2>6. CASE k \notin HandleKinds
      <3>1. OwnHandles(k) \in Seq(Guards)
        BY <1>3, <1>4, <2>6, OwnHandlesAre
      <3>2. \A i \in DOMAIN OwnHandles(k) : OwnHandles(k)[i] \in Guards
        BY <3>1
      <3> QED  BY <2>2, <2>3, <2>4, <2>6, <3>2
    <2> QED  BY <2>5, <2>6
  <1>8. SizesOK' /\ TakesWhatWasReported'
    BY <1>2 DEF SizesOK, TakesWhatWasReported
  <1>9. ReportOK'
    BY <1>2, <1>5 DEF WaitInv, ReportOK
  <1> QED  BY <1>4, <1>6, <1>7, <1>8, <1>9 DEF WaitInv

\* rcl_wait clears entries and moves none.
LEMMA RclWaitKeeps == ASSUME WaitInv, RclWait PROVE WaitInv'
  <1> DEFINE has(e) == e \in (pending \ cancelled) \cup Groups \cup {Interrupt}
  <1>1. /\ pc = "rcl_wait" /\ pc' = "remove_null_handles"
        /\ owned' = owned /\ handles' = handles
        /\ weak_groups_to_nodes' = weak_groups_to_nodes
        /\ guard_conditions' = guard_conditions
        /\ reported' = Entities \cap (UNION {SE!ToSet(wait_set'[k]) : k \in WaitKinds})
        /\ wait_set' = [k \in WaitKinds |-> [i \in DOMAIN wait_set[k] |->
                          IF has(wait_set[k][i]) THEN wait_set[k][i] ELSE NULL]]
    BY DEF RclWait, objectVars, groupVars
  <1> DEFINE S == Entities \cup Guards \cup {NULL}
  <1>2. \A k \in HandleKinds : handles[k] \in Seq(Awaited(k))
    BY <1>1 DEF WaitInv, HandlesOK, Between
  <1>3. \A e : Stays(e)' <=> Stays(e)
    BY <1>1 DEF Stays
  <1>4. GroupsOK' /\ HandlesOK'
    <2>1. \A k : Awaited(k)' = Awaited(k)
      BY <1>3 DEF Awaited
    <2> QED  BY <1>1, <1>2, <2>1 DEF WaitInv, HandlesOK, GroupsOK, Once
  <1>5. ASSUME NEW k \in WaitKinds
        PROVE  /\ wait_set[k] \in Seq(S)
               /\ k \in HandleKinds => \A i \in DOMAIN handles[k] :
                     i \in DOMAIN wait_set[k] /\ wait_set[k][i] \in {handles[k][i], NULL}
               /\ \A i \in DOMAIN wait_set[k] :
                     \/ wait_set[k][i] \in Kinded("waitable") \cup Guards \cup {NULL}
                     \/ k \in HandleKinds /\ i \in DOMAIN handles[k]
    BY <1>1 DEF WaitInv, EntriesOK
  <1> HIDE DEF S, has
  <1>6. ASSUME NEW k \in WaitKinds
        PROVE  /\ DOMAIN wait_set'[k] = DOMAIN wait_set[k]
               /\ \A i \in DOMAIN wait_set[k] :
                     wait_set'[k][i] \in {wait_set[k][i], NULL}
               /\ wait_set'[k] \in Seq(S)
    <2>1. wait_set'[k] = [i \in DOMAIN wait_set[k] |->
                            IF has(wait_set[k][i]) THEN wait_set[k][i] ELSE NULL]
      BY <1>1
    <2>2. /\ DOMAIN wait_set'[k] = DOMAIN wait_set[k]
          /\ \A i \in DOMAIN wait_set[k] :
                wait_set'[k][i] \in {wait_set[k][i], NULL}
      BY <2>1
    <2>3. /\ DOMAIN wait_set[k] = 1..Len(wait_set[k]) /\ Len(wait_set[k]) \in Nat
          /\ \A i \in DOMAIN wait_set[k] : wait_set[k][i] \in S
      BY <1>5
    <2>4. NULL \in S
      BY DEF S
    <2>5. wait_set'[k] = [i \in 1..Len(wait_set[k]) |-> wait_set'[k][i]]
      BY <2>1, <2>3
    <2>6. \A i \in 1..Len(wait_set[k]) : wait_set'[k][i] \in S
      BY <2>2, <2>3, <2>4
    <2>7. wait_set'[k] \in Seq(S)
      BY <2>3, <2>5, <2>6
    <2> QED  BY <2>2, <2>7
  <1>7. EntriesOK'
    <2> SUFFICES ASSUME NEW k \in WaitKinds
                 PROVE  /\ wait_set'[k] \in Seq(S)
                        /\ k \in HandleKinds => \A i \in DOMAIN handles[k] :
                              i \in DOMAIN wait_set'[k]
                              /\ wait_set'[k][i] \in {handles[k][i], NULL}
                        /\ \A i \in DOMAIN wait_set'[k] :
                              \/ wait_set'[k][i] \in Kinded("waitable") \cup Guards \cup {NULL}
                              \/ k \in HandleKinds /\ i \in DOMAIN handles[k]
      BY <1>1 DEF EntriesOK, S, Guards, Kinded
    <2>1. k \in HandleKinds => \A i \in DOMAIN handles[k] :
             i \in DOMAIN wait_set'[k] /\ wait_set'[k][i] \in {handles[k][i], NULL}
      BY <1>5, <1>6
    <2>2. ASSUME NEW i \in DOMAIN wait_set'[k]
          PROVE  \/ wait_set'[k][i] \in Kinded("waitable") \cup Guards \cup {NULL}
                 \/ k \in HandleKinds /\ i \in DOMAIN handles[k]
      BY <1>5, <1>6
    <2> QED  BY <1>6, <2>1, <2>2
  <1>8. SizesOK' /\ TakesWhatWasReported'
    BY <1>1 DEF SizesOK, TakesWhatWasReported
  <1>9. ReportOK'
    <2> SUFFICES ASSUME NEW e \in Entities, NEW k \in WaitKinds,
                        e \in SE!ToSet(wait_set'[k]), KindOf[e] # "waitable"
                 PROVE  Stays(e)
      <3>1. \A e \in reported' : e \in Entities
                                 /\ \E k \in WaitKinds : e \in SE!ToSet(wait_set'[k])
        BY <1>1
      <3>2. reported' = (Entities \cap (UNION {SE!ToSet(wait_set[k]) : k \in WaitKinds}))'
        BY <1>1
      <3>3. pc' = "remove_null_handles"
        BY <1>1
      <3> QED  BY <1>3, <3>1, <3>2, <3>3 DEF ReportOK
    <2>1. PICK i \in DOMAIN wait_set[k] : wait_set'[k][i] = e
      BY <1>6 DEF SE!ToSet
    <2>2. e # NULL /\ e \notin Guards /\ e \notin Kinded("waitable")
      BY ConstantsAssumption DEF Guards, Kinded
    <2>3. wait_set[k][i] = e
      BY <1>6, <2>1, <2>2
    <2>4. k \in HandleKinds /\ i \in DOMAIN handles[k] /\ e = handles[k][i]
      BY <1>5, <2>2, <2>3
    <2>5. handles[k] \in Seq(Awaited(k))
      BY <1>2, <2>4
    <2>6. e \in Awaited(k)
      BY <2>4, <2>5
    <2> QED  BY <2>6 DEF Awaited
  <1> QED  BY <1>4, <1>7, <1>8, <1>9 DEF WaitInv

\* A handle is kept if its entry is not NULL.
LEMMA NonNullKeeps ==
    ASSUME NEW S, NEW k \in HandleKinds, handles[k] \in Seq(S), S \subseteq Entities
    PROVE  /\ NonNull(k) \in Seq(S)
           /\ k # "waitable" => SE!ToSet(NonNull(k)) =
                {handles[k][i] : i \in {j \in DOMAIN handles[k] : wait_set[k][j] # NULL}}
  <1> DEFINE hs == handles[k]
             reset == IF k = "waitable"
                        THEN [i \in DOMAIN hs |-> IF IsReady(hs[i]) THEN hs[i] ELSE NULL]
                        ELSE [i \in DOMAIN hs |->
                                IF wait_set[k][i] = NULL THEN NULL ELSE hs[i]]
  <1>1. NonNull(k) = Only(reset, Entities)
    BY Zenon DEF NonNull
  <1>2. /\ DOMAIN hs = 1..Len(hs) /\ Len(hs) \in Nat
        /\ \A i \in DOMAIN hs : hs[i] \in S
    OBVIOUS
  <1> HIDE DEF hs
  <1>3. DOMAIN reset = DOMAIN hs /\ \A i \in DOMAIN hs : reset[i] \in {hs[i], NULL}
    BY Zenon
  <1>4. reset = [i \in 1..Len(hs) |-> reset[i]]
    BY <1>2
  <1>5. k # "waitable" => \A i \in DOMAIN hs :
           reset[i] = IF wait_set[k][i] = NULL THEN NULL ELSE hs[i]
    OBVIOUS
  <1> HIDE DEF reset
  <1>6. \A i \in 1..Len(hs) : reset[i] \in S \cup {NULL}
    BY <1>2, <1>3
  <1>7. reset \in Seq(S \cup {NULL})
    BY <1>2, <1>4, <1>6
  <1>8. Only(reset, Entities) \in Seq((S \cup {NULL}) \cap Entities)
    BY <1>7, OnlyKeeps
  <1>9. SE!ToSet(Only(reset, Entities)) = SE!ToSet(reset) \cap Entities
    BY <1>7, OnlyKeeps
  <1>10. NULL \notin Entities
    BY ConstantsAssumption
  <1>11. (S \cup {NULL}) \cap Entities = S
    BY <1>10
  <1>12. ASSUME k # "waitable"
         PROVE  SE!ToSet(reset) \cap Entities =
                  {hs[i] : i \in {j \in DOMAIN hs : wait_set[k][j] # NULL}}
    <2>1. SE!ToSet(reset) = {reset[i] : i \in DOMAIN hs}
      BY <1>3 DEF SE!ToSet
    <2>2. \A i \in DOMAIN hs : hs[i] \in Entities
      BY <1>2
    <2> QED  BY <1>5, <1>10, <1>12, <2>1, <2>2
  <1> QED  BY <1>1, <1>8, <1>9, <1>11, <1>12 DEF hs

\* The handles that are left are those of what was reported.
LEMMA RemoveNullKeeps == ASSUME WaitInv, RemoveNullHandles PROVE WaitInv'
  <1>1. /\ pc = "remove_null_handles"
        /\ pc' = IF usage = "bulk" THEN "take_ready_handles" ELSE KindSeq[1]
        /\ owned' = owned /\ reported' = reported
        /\ weak_groups_to_nodes' = weak_groups_to_nodes
        /\ guard_conditions' = guard_conditions
        /\ handles' = [k \in HandleKinds |-> NonNull(k)]
    BY DEF RemoveNullHandles, objectVars, groupVars, waitVars
  <1>2. pc' \in {"take_ready_handles", "timer"}
    BY <1>1 DEF KindSeq
  <1>3. \A k \in HandleKinds : handles[k] \in Seq(Awaited(k)) /\ Awaited(k) \subseteq Entities
    BY <1>1 DEF WaitInv, HandlesOK, Between, Awaited, Kinded
  <1>4. \A k \in HandleKinds : NonNull(k) \in Seq(Awaited(k))
    BY <1>3, NonNullKeeps
  <1>5. GroupsOK' /\ HandlesOK'
    <2>1. \A k : Awaited(k)' = Awaited(k)
      BY <1>1 DEF Awaited, Stays
    <2> QED  BY <1>1, <1>2, <1>4, <2>1 DEF WaitInv, HandlesOK, GroupsOK, Once
  <1>6. SizesOK' /\ EntriesOK' /\ TakesWhatWasReported'
    BY <1>2 DEF SizesOK, EntriesOK, TakesWhatWasReported
  <1>7. ASSUME NEW k \in BulkKinds
        PROVE  SE!ToSet(NonNull(k)) = {e \in reported : KindOf[e] = k}
    <2>1. k \in HandleKinds \cap WaitKinds /\ k # "waitable"
      BY Kinds DEF BulkKinds
    <2>2. /\ \A i \in DOMAIN handles[k] :
                i \in DOMAIN wait_set[k] /\ wait_set[k][i] \in {handles[k][i], NULL}
          /\ reported = Entities \cap (UNION {SE!ToSet(wait_set[l]) : l \in WaitKinds})
      BY <1>1, <2>1 DEF WaitInv, EntriesOK, ReportOK
    <2>a. \A e : e \in reported <=>
             e \in Entities /\ \E l \in WaitKinds : e \in SE!ToSet(wait_set[l])
      BY <2>2
    <2>3. SE!ToSet(NonNull(k)) =
            {handles[k][i] : i \in {j \in DOMAIN handles[k] : wait_set[k][j] # NULL}}
      BY <1>3, <2>1, NonNullKeeps
    <2>4. \A l \in HandleKinds : \A i \in DOMAIN handles[l] :
             handles[l][i] \in Entities /\ KindOf[handles[l][i]] = l
      <3> SUFFICES ASSUME NEW l \in HandleKinds, NEW i \in DOMAIN handles[l]
                   PROVE  handles[l][i] \in Entities /\ KindOf[handles[l][i]] = l
        OBVIOUS
      <3>1. handles[l] \in Seq(Awaited(l))
        BY <1>3
      <3>2. handles[l][i] \in Awaited(l)
        BY <3>1
      <3> QED  BY <3>2 DEF Awaited, Kinded
    <2>5. ASSUME NEW i \in DOMAIN handles[k], wait_set[k][i] # NULL
          PROVE  handles[k][i] \in reported /\ KindOf[handles[k][i]] = k
      <3>1. handles[k][i] \in SE!ToSet(wait_set[k])
        BY <2>2, <2>5 DEF SE!ToSet
      <3> QED  BY <2>1, <2>4, <2>a, <3>1
    <2>6. ASSUME NEW e \in reported, KindOf[e] = k
          PROVE  \E i \in DOMAIN handles[k] : handles[k][i] = e /\ wait_set[k][i] # NULL
      <3>0. PICK l \in WaitKinds : e \in SE!ToSet(wait_set[l])
        BY <2>a, <2>6
      <3>1. PICK i \in DOMAIN wait_set[l] : wait_set[l][i] = e
        BY <3>0 DEF SE!ToSet
      <3>2. e \in Entities /\ e # NULL /\ e \notin Guards /\ e \notin Kinded("waitable")
        <4>1. e \in Entities
          BY <2>a, <2>6
        <4> QED  BY <2>1, <2>6, <4>1, ConstantsAssumption DEF Guards, Kinded
      <3>3. l \in HandleKinds /\ i \in DOMAIN handles[l]
        BY <1>1, <3>1, <3>2 DEF WaitInv, EntriesOK
      <3>4. wait_set[l][i] \in {handles[l][i], NULL}
        BY <1>1, <3>3 DEF WaitInv, EntriesOK
      <3>5. handles[l][i] = e /\ l = k
        BY <2>4, <2>6, <3>1, <3>2, <3>3, <3>4
      <3> QED  BY <3>1, <3>2, <3>3, <3>5
    <2> QED  BY <2>3, <2>5, <2>6
  <1>8. ReportOK'
    <2>1. \A e : Stays(e)' <=> Stays(e)
      BY <1>1 DEF Stays
    <2>2. \A k \in BulkKinds : handles'[k] = NonNull(k)
      BY <1>1, Kinds DEF BulkKinds
    <2> QED  BY <1>1, <1>2, <1>7, <2>1, <2>2 DEF WaitInv, ReportOK
  <1> QED  BY <1>5, <1>6, <1>8 DEF WaitInv

\* Every ready handle's object is found again through its group, once, if both
\* are still there.
LEMMA TakeReadyKeeps == ASSUME WaitInv, TakeReadyHandles PROVE WaitInv'
  <1> DEFINE alive == {g \in Groups : GroupAlive(g)}
             f(k) == [g \in Groups |-> Only(PtrsOf(g, k), SE!ToSet(handles[k]))]
  <1>1. /\ pc = "take_ready_handles" /\ pc' = "take_and_bundle"
        /\ owned' = owned /\ reported' = reported
        /\ weak_groups_to_nodes' = weak_groups_to_nodes
        /\ guard_conditions' = guard_conditions
        /\ DOMAIN handles' = HandleKinds
        /\ ready' = [k \in BulkKinds |->
             IF NothingToTake THEN << >> ELSE ForEachGroup(alive, f(k))]
    BY DEF TakeReadyHandles, objectVars, groupVars, waitVars, WaitInv, HandlesOK
  <1> HIDE DEF alive, f
  <1>2. weak_groups_to_nodes \in Seq(Groups) /\ Once(weak_groups_to_nodes)
    BY DEF WaitInv, GroupsOK
  <1>3. \A e : Stays(e)' <=> Stays(e)
    BY <1>1 DEF Stays
  <1>4. GroupsOK' /\ HandlesOK' /\ SizesOK' /\ EntriesOK'
    BY <1>1 DEF WaitInv, GroupsOK, Once, HandlesOK, SizesOK, EntriesOK, Between
  <1>5. ReportOK'
    BY <1>1, <1>3 DEF WaitInv, ReportOK
  <1>6. ASSUME NEW k \in BulkKinds, ~NothingToTake
        PROVE  /\ SE!ToSet(ready'[k]) =
                    {e \in reported : /\ KindOf[e] = k /\ EntityAlive(e)
                                      /\ GroupOf[e] \in alive
                                      /\ GroupOf[e] \in SE!ToSet(weak_groups_to_nodes)}
               /\ Once(ready'[k])
    <2>1. k \in HandleKinds /\ SE!ToSet(handles[k]) = {e \in reported : KindOf[e] = k}
      BY <1>1, Kinds DEF BulkKinds, WaitInv, ReportOK
    <2> DEFINE H == SE!ToSet(handles[k])
               F == f(k)
    <2>2. ready'[k] = ForEachGroup(alive, F)
      BY <1>1, <1>6
    <2>3. \A g \in Groups : F[g] = Only(PtrsOf(g, k), H)
      BY DEF f
    <2>4. F = [g \in Groups |-> F[g]]
      BY DEF f
    <2> HIDE DEF H, F
    <2>5. ASSUME NEW g \in Groups
          PROVE  /\ F[g] \in Seq(InGroup(g, k) \cap H)
                 /\ SE!ToSet(F[g]) = {e \in InGroup(g, k) : EntityAlive(e)} \cap H
                 /\ Once(F[g])
      <3> DEFINE s == PtrsOf(g, k)
                 S == InGroup(g, k)
      <3>1. s \in Seq(S) /\ Once(s) /\ SE!ToSet(s) = {e \in S : EntityAlive(e)}
        BY <2>1, PtrsKeep
      <3> HIDE DEF s, S
      <3>2. Only(s, H) \in Seq(S \cap H)
        BY <3>1, OnlyKeeps
      <3>3. SE!ToSet(Only(s, H)) = SE!ToSet(s) \cap H
        BY <3>1, OnlyKeeps
      <3>4. Once(Only(s, H))
        BY <3>1, OnlyKeeps
      <3>5. F[g] = Only(s, H)
        BY <2>3 DEF s
      <3> QED  BY <3>1, <3>2, <3>3, <3>4, <3>5 DEF S
    <2> DEFINE X == Entities
    <2>6. F \in [Groups -> Seq(X)]
      <3>1. \A g : InGroup(g, k) \cap H \subseteq X
        BY DEF InGroup
      <3> HIDE DEF X
      <3>2. \A A, B : A \subseteq B => Seq(A) \subseteq Seq(B)
        OBVIOUS
      <3>3. \A g \in Groups : F[g] \in Seq(X)
        BY <2>5, <3>1, <3>2
      <3> QED  BY <2>4, <3>3
    <2> HIDE DEF X
    <2>7. SE!ToSet(ForEachGroup(alive, F)) =
            UNION {SE!ToSet(F[g]) : g \in SE!ToSet(weak_groups_to_nodes) \cap alive}
      BY <1>2, <2>6, ForEachKeeps
    <2>8. Once(ForEachGroup(alive, F))
      <3>1. \A g \in Groups : Once(F[g])
        BY <2>5
      <3>2. \A g, h \in Groups : g # h => SE!ToSet(F[g]) \cap SE!ToSet(F[h]) = {}
        <4>1. \A g \in Groups : \A e \in SE!ToSet(F[g]) : e \in InGroup(g, k)
          BY <2>5
        <4>2. \A g \in Groups : \A e \in SE!ToSet(F[g]) : GroupOf[e] = g
          BY <4>1 DEF InGroup
        <4> QED  BY <4>2
      <3> QED  BY <1>2, <2>6, <3>1, <3>2, ForEachKeeps
    <2>9. \A e \in reported : e \in Entities
      BY DEF WaitInv, ReportOK
    <2>10. SE!ToSet(weak_groups_to_nodes) \subseteq Groups
      BY <1>2 DEF SE!ToSet
    <2>11. \A e : e \in SE!ToSet(ForEachGroup(alive, F)) <=>
              /\ e \in reported /\ KindOf[e] = k /\ EntityAlive(e)
              /\ GroupOf[e] \in alive
              /\ GroupOf[e] \in SE!ToSet(weak_groups_to_nodes)
      <3>1. \A g \in Groups : \A e : e \in SE!ToSet(F[g]) <=>
               /\ e \in reported /\ KindOf[e] = k /\ EntityAlive(e) /\ GroupOf[e] = g
        BY <2>1, <2>5, <2>9 DEF InGroup, H
      <3>2. \A e : e \in SE!ToSet(ForEachGroup(alive, F)) <=>
               \E g \in SE!ToSet(weak_groups_to_nodes) \cap alive : e \in SE!ToSet(F[g])
        BY <2>7
      <3> QED  BY <2>10, <3>1, <3>2
    <2> QED  BY <2>2, <2>8, <2>11
  <1>7. TakesWhatWasReported'
    <2> SUFFICES ASSUME NEW k \in BulkKinds
                 PROVE  /\ SE!ToSet(ready'[k]) \subseteq reported
                        /\ Once(ready'[k])
                        /\ \A e \in reported :
                             /\ KindOf[e] = k /\ {e, GroupOf[e]} \subseteq owned
                             /\ GroupOf[e] \in SE!ToSet(weak_groups_to_nodes)
                             => e \in SE!ToSet(ready'[k])
      BY <1>1, Zenon DEF TakesWhatWasReported, Once
    <2>1. CASE NothingToTake
      <3>1. ready'[k] = << >>
        BY <1>1, <2>1
      <3>2. {e \in reported : KindOf[e] = k} = {}
        <4>1. handles[k] = << >>
          BY <2>1 DEF NothingToTake
        <4>2. SE!ToSet(handles[k]) = {e \in reported : KindOf[e] = k}
          BY <1>1 DEF WaitInv, ReportOK
        <4> QED  BY <4>1, <4>2 DEF SE!ToSet
      <3>3. SE!ToSet(ready'[k]) = {} /\ Once(ready'[k])
        BY <3>1 DEF SE!ToSet, Once
      <3> QED  BY <3>2, <3>3
    <2>2. CASE ~NothingToTake
      <3>1. \A e : e \in owned => EntityAlive(e) /\ GroupAlive(e)
        BY DEF EntityAlive, GroupAlive
      <3>2. \A e \in reported : GroupOf[e] \in Groups
        BY ConstantsAssumption DEF WaitInv, ReportOK
      <3> QED  BY <1>6, <2>2, <3>1, <3>2 DEF alive
    <2> QED  BY <2>1, <2>2
  <1> QED  BY <1>4, <1>5, <1>7 DEF WaitInv

\* A group comes into the map while nobody is between two calls, and only if
\* it has not gone.
LEMMA AddGroupKeeps ==
    ASSUME WaitInv, NEW g \in Groups, AddCallbackGroup(g)
    PROVE  WaitInv'
  <1> DEFINE w == weak_groups_to_nodes
  <1>1. /\ MutexFree /\ {g, NodeOf[g]} \subseteq owned
        /\ g \notin SE!ToSet(w)
        /\ pc' = pc /\ owned' = owned /\ handles' = handles /\ ready' = ready
        /\ capacity' = capacity /\ wait_set' = wait_set /\ reported' = reported
        /\ guard_conditions' = AddGuardCondition(guard_conditions, g)
    BY DEF AddCallbackGroup, objectVars, waitVars
  <1>2. PICK i \in 1..(Len(w) + 1) : weak_groups_to_nodes' = SE!InsertAt(w, i, g)
    BY DEF AddCallbackGroup
  <1>3. w \in Seq(Groups) /\ Once(w) /\ guard_conditions \in Seq(Guards)
    BY DEF WaitInv, GroupsOK
  <1>4. /\ weak_groups_to_nodes' \in Seq(Groups)
        /\ SE!ToSet(weak_groups_to_nodes') = SE!ToSet(w) \cup {g}
        /\ Once(weak_groups_to_nodes')
    <2> HIDE DEF w
    <2>1. SE!InsertAt(w, i, g) = SubSeq(w, 1, i - 1) \o <<g>> \o SubSeq(w, i, Len(w))
      BY DEF SE!InsertAt
    <2> QED  BY <1>1, <1>2, <1>3, <2>1, InsertKeeps
  <1>5. GroupsOK'
    <2>1. Append(guard_conditions, g) \in Seq(Guards)
      BY <1>3 DEF Guards
    <2> QED  BY <1>1, <1>3, <1>4, <2>1 DEF GroupsOK, AddGuardCondition, Once, Guards
  <1>6. \A e : Stays(e) => Stays(e)'
    BY <1>1, <1>4 DEF Stays
  <1>7. HandlesOK'
    <2>1. \A k : Awaited(k) \subseteq Awaited(k)'
      BY <1>6 DEF Awaited
    <2>2. \A A, B : A \subseteq B => Seq(A) \subseteq Seq(B)
      OBVIOUS
    <2> QED  BY <1>1, <2>1, <2>2 DEF WaitInv, HandlesOK
  <1>8. pc # "add_handles_to_wait_set"
    BY <1>1 DEF MutexFree, KindSeq
  <1>9. SizesOK' /\ EntriesOK'
    BY <1>1, <1>8 DEF WaitInv, SizesOK, EntriesOK
  <1>10. ReportOK'
    BY <1>1, <1>6 DEF WaitInv, ReportOK
  <1>11. TakesWhatWasReported'
    <2> SUFFICES ASSUME pc = "take_and_bundle", NEW k \in BulkKinds,
                        NEW e \in reported, KindOf[e] = k,
                        {e, GroupOf[e]} \subseteq owned,
                        GroupOf[e] \in SE!ToSet(w) \cup {g}
                 PROVE  e \in SE!ToSet(ready[k])
      BY <1>1, <1>4 DEF WaitInv, TakesWhatWasReported
    <2>1. KindOf[e] # "waitable"
      BY DEF BulkKinds
    <2>2. Stays(e)
      BY <2>1 DEF WaitInv, ReportOK
    <2>3. GroupOf[e] \in SE!ToSet(w)
      BY <1>1, <2>2 DEF Stays
    <2> QED  BY <2>3 DEF WaitInv, TakesWhatWasReported
  <1> QED  BY <1>5, <1>7, <1>9, <1>10, <1>11 DEF WaitInv

\* Every step keeps the handles, the wait set and the report in step.
LEMMA WaitStep == WaitInv /\ [Next]_vars => WaitInv'
  <1> SUFFICES ASSUME WaitInv, [Next]_vars PROVE WaitInv'
    OBVIOUS
  <1>1. CASE Loop
    <2>1. CASE \E k \in HandleKinds, t \in Threads : GetNext(k, t)
      BY <2>1, GetNextKeeps
    <2>2. CASE \E k \in HandleKinds : GetNextFails(k)
      BY <2>2, GetNextKeeps
    <2> QED  BY <1>1, <2>1, <2>2, ClearKeeps, CollectKeeps, EraseInvalidKeeps,
                ResizeKeeps, AddHandlesKeeps, RclWaitKeeps, RemoveNullKeeps,
                TakeReadyKeeps, BundleKeeps DEF Loop
  <1>2. CASE Execution
    <2>1. owned' \subseteq owned /\ UNCHANGED <<pc, groupVars, handles, waitVars, ready>>
      BY <1>2 DEF Execution, Execute, Finish, objectVars
    <2> QED  BY <2>1, WaitUnmoved
  <1>3. CASE Environment
    <2>1. CASE \E g \in Groups : AddCallbackGroup(g)
      BY <2>1, AddGroupKeeps
    <2>2. CASE ~(\E g \in Groups : AddCallbackGroup(g))
      <3>1. owned' \subseteq owned /\ UNCHANGED <<pc, groupVars, handles, waitVars, ready>>
        BY <1>3, <2>2 DEF Environment, Arrive, Drop, CancelTimer
      <3> QED  BY <3>1, WaitUnmoved
    <2> QED  BY <2>1, <2>2
  <1>4. CASE UNCHANGED vars
    BY <1>4, WaitUnmoved DEF vars, objectVars
  <1> QED  BY <1>1, <1>2, <1>3, <1>4 DEF Next

\* The invariant says that nothing throws, and where the entries are.
LEMMA WaitMatches == WaitInv => WaitSetMatchesHandles
  BY DEF WaitInv, SizesOK, EntriesOK, WaitSetMatchesHandles, WaitKinds

-----------------------------------------------------------------------------
\* "Couldn't fill wait set" is never thrown, and index i of the wait set is
\* the entry of handle i until remove_null_handles has looked at it.
THEOREM HandlesMatchTheWaitSet == Spec => []WaitSetMatchesHandles
  <1> QED  BY WaitInit, WaitStep, WaitMatches, PTL DEF Spec

\* take_ready_handles returns what the wait reported: nothing else, nothing
\* twice, and everything whose object and group are still there.
THEOREM ReportedIsTaken == Spec => []TakesWhatWasReported
  <1>1. WaitInv => TakesWhatWasReported
    BY DEF WaitInv
  <1> QED  BY <1>1, WaitInit, WaitStep, PTL DEF Spec
=============================================================================
