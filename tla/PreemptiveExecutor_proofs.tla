---------------------- MODULE PreemptiveExecutor_proofs ----------------------
(***************************************************************************)
(* The safety of PreemptiveExecutor for any number of nodes, groups,       *)
(* callbacks, spinners and calls of spin, in three layers:                 *)
(*                                                                         *)
(* Types: the variables keep their types.                                  *)
(*                                                                         *)
(* Marked: no callback group is executed by two executors.  The flag that  *)
(* rclcpp keeps with each group makes this inductive, since the groups of  *)
(* the executor carry its mark and those of the others carry theirs.       *)
(*                                                                         *)
(* Order: what is pending is classified, what is classified is executed    *)
(* and dispatched, and the workers stop before they are destroyed.  These  *)
(* follow from what is true at each place of spin's code.                  *)
(***************************************************************************)
EXTENDS PreemptiveExecutor, TLAPS

-----------------------------------------------------------------------------
(***************************************************************************)
(* The types                                                               *)
(***************************************************************************)

Labels == {"idle", "loading", "allocate", "handles", "groups", "classify",
           "spawn", "create", "adding", "started", "workers", "loop", "wait",
           "dispatch"}

\* Which fields the records have, and the types of what the arguments below
\* look into.
AppType == app = [groups |-> app.groups, callbacks |-> app.callbacks,
                  gone |-> app.gone]

FlagType == associated \in [Groups -> {"none", "this", "non_rt", "other"}]

RegistryType ==
    registry \in [state : {"unbuilt", "built", "torn", "exported"},
                  callbacks : SUBSET Callbacks]

ExType ==
    /\ ex = [weak_nodes |-> ex.weak_nodes, pending |-> ex.pending,
             timing |-> ex.timing, thread_groups |-> ex.thread_groups,
             rt_groups |-> ex.rt_groups, non_rt_groups |-> ex.non_rt_groups,
             spawned |-> ex.spawned, workers |-> ex.workers,
             woken |-> ex.woken, spinning |-> ex.spinning]
    /\ ex.non_rt_groups \in Seq(Groups)

NrType ==
    nr \in [current : Executors, groups : [Executors -> SUBSET Groups],
            spinning : [Executors -> BOOLEAN],
            thread : [Spinners -> {"none", "started", "spinning", "ended"}],
            runs : [Spinners -> Executors]]

Locals == [pc : Labels, visited : SUBSET Groups,
           export : [handles : SUBSET Callbacks, groups : SUBSET ThreadGroups],
           left : Seq(Groups)]

SpType == sp \in [Spinners -> Locals]

HistType ==
    /\ hist = [spins |-> hist.spins, overlapped |-> hist.overlapped,
               raced |-> hist.raced, exports |-> hist.exports,
               accepted |-> hist.accepted, known |-> hist.known,
               unexpected |-> hist.unexpected,
               cancelMissed |-> hist.cancelMissed]
    /\ hist.overlapped \in BOOLEAN /\ hist.raced \in BOOLEAN
    /\ hist.exports \in Nat

Types ==
    /\ AppType /\ FlagType /\ RegistryType
    /\ ExType /\ NrType /\ SpType /\ HistType

LEMMA InitTypes == Init => Types
  <1> SUFFICES ASSUME Init PROVE Types
    OBVIOUS
  <1>1. AppType /\ FlagType /\ HistType
    BY DEF Init, AppType, FlagType, HistType
  <1>2. RegistryType
    BY ConstantsAssumption DEF Init, RegistryType
  <1>3. ExType
    BY DEF Init, ExType
  <1>4. NrType
    BY ConstantsAssumption DEF Init, NrType, NoNonRt, Executors
  <1>5. SpType
    BY DEF Init, SpType, Locals, Labels, Idle, NoExport
  <1> QED
    BY <1>1, <1>2, <1>3, <1>4, <1>5 DEF Types

\* What a step leaves alone keeps its type ...
LEMMA SameTypes ==
  /\ AppType /\ UNCHANGED app => AppType'
  /\ FlagType /\ UNCHANGED associated => FlagType'
  /\ RegistryType /\ UNCHANGED registry => RegistryType'
  /\ ExType /\ UNCHANGED ex => ExType'
  /\ NrType /\ UNCHANGED nr => NrType'
  /\ SpType /\ UNCHANGED sp => SpType'
  /\ HistType /\ UNCHANGED hist => HistType'
  BY DEF AppType, FlagType, RegistryType, ExType, NrType, SpType, HistType

\* ... and so do the records of which one field changes ...
LEMMA ExFields ==
  ASSUME ExType,
         \/ \E v : ex' = [ex EXCEPT !.spinning = v]
         \/ \E v, w : ex' = [ex EXCEPT !.spinning = v, !.woken = w]
         \/ \E v : ex' = [ex EXCEPT !.woken = v]
         \/ \E v : ex' = [ex EXCEPT !.spawned = v]
         \/ \E v : ex' = [ex EXCEPT !.workers = v]
         \/ \E v : ex' = [ex EXCEPT !.timing = v]
         \/ \E v : ex' = [ex EXCEPT !.thread_groups = v]
         \/ \E v : ex' = [ex EXCEPT !.pending = v]
         \/ \E v : ex' = [ex EXCEPT !.rt_groups = v]
         \/ \E v, w : ex' = [ex EXCEPT !.rt_groups = v, !.woken = w]
         \/ \E v, w : ex' = [ex EXCEPT !.pending = v, !.weak_nodes = w]
  PROVE  ExType'
  BY DEF ExType

\* ... the local variables of a call that goes on or leaves ...
LEMMA Moves ==
  ASSUME SpType, NEW s \in Spinners
  PROVE  /\ \A label \in Labels : Goto(s, label) => SpType'
         /\ Leave(s) => SpType'
  <1>1. ASSUME NEW label \in Labels, Goto(s, label) PROVE SpType'
    BY <1>1 DEF Goto, SpType, Locals
  <1>2. Idle \in Locals
    BY DEF Idle, NoExport, Locals, Labels
  <1>3. ASSUME Leave(s) PROVE SpType'
    BY <1>2, <1>3 DEF Leave, SpType
  <1> QED
    BY <1>1, <1>3

LEMMA GroupsOfSome ==
  \A C \in SUBSET Callbacks : GroupsOf(C) \in SUBSET ThreadGroups
  BY DEF ThreadGroups, GroupsOf

\* ... and the flags that Released takes back.
LEMMA ReleasedType ==
  ASSUME FlagType, NEW G, associated' = Released(G) PROVE FlagType'
  BY DEF FlagType, Released

LEMMA ApplicationTypes == ASSUME Types, Application PROVE Types'
  <1>1. ASSUME NEW g \in Groups, CreateGroup(g) \/ OtherExecutorAdds(g)
        PROVE  Types'
    <2>1. AppType' /\ FlagType'
      BY <1>1 DEF CreateGroup, OtherExecutorAdds, Types, AppType, FlagType
    <2> QED
      BY <1>1, <2>1, SameTypes DEF CreateGroup, OtherExecutorAdds, Types
  <1>2. ASSUME NEW c \in Callbacks, CreateCallback(c) \/ RegisterCallbackName(c)
        PROVE  Types'
    <2>1. AppType' /\ RegistryType'
      BY <1>2 DEF CreateCallback, RegisterCallbackName, Types, AppType,
         RegistryType
    <2> QED
      BY <1>2, <2>1, SameTypes DEF CreateCallback, RegisterCallbackName, Types
  <1>3. ASSUME NEW n \in Nodes, DestroyNode(n) \/ AddNode(n) PROVE Types'
    <2>1. AppType'
      BY <1>3 DEF DestroyNode, AddNode, Types, AppType
    <2> QED
      BY <1>3, <2>1, SameTypes DEF DestroyNode, AddNode, Types
  <1>4. ASSUME NEW n \in Nodes, InsertGroups(n) PROVE Types'
    <2> DEFINE racing ==
                 hist.raced \/ (PendingOf(n) # {} /\ ReadingPending # {})
    <2>1. racing \in BOOLEAN
      BY DEF Types, HistType
    <2>2. hist' = [hist EXCEPT !.accepted = @ \cup PendingOf(n),
                               !.raced = racing]
      BY <1>4 DEF InsertGroups
    <2> HIDE DEF racing
    <2>3. HistType'
      BY <2>1, <2>2 DEF Types, HistType
    <2> QED
      BY <1>4, <2>3, SameTypes, ExFields DEF InsertGroups, Types
  <1>5. CASE Cancel \/ ContextShutdown
    BY <1>5, SameTypes, ExFields DEF Cancel, ContextShutdown, Types
  <1>6. CASE Destroy
    <2>1. NrType'
      BY <1>6 DEF Destroy, CancelledNonRt, Types, NrType
    <2>2. HistType'
      BY <1>6 DEF Destroy, Types, HistType
    <2> QED
      BY <1>6, <2>1, <2>2, SameTypes DEF Destroy, Types
  <1> QED
    BY <1>1, <1>2, <1>3, <1>4, <1>5, <1>6 DEF Application

LEMMA LeavingTypes ==
  ASSUME Types, NEW s \in Spinners, LeaveWithoutChange(s) PROVE Types'
  BY SameTypes, ExFields, Moves DEF LeaveWithoutChange, Types

LEMMA EnteringTypes ==
  ASSUME Types, NEW s \in Spinners, SpinRefused(s) \/ SpinAccepted(s)
  PROVE  Types'
  <1>1. CASE SpinRefused(s)
    <2>1. HistType'
      BY <1>1 DEF SpinRefused, Types, HistType
    <2> QED
      BY <1>1, <2>1, SameTypes DEF SpinRefused, CallsSpin, Types
  <1>2. CASE SpinAccepted(s)
    <2> DEFINE company == \E t \in Spinners : Inside(t)
    <2>1. company \in BOOLEAN
      OBVIOUS
    <2>2. hist' = [hist EXCEPT !.spins = @ + 1, !.overlapped = @ \/ company,
                               !.raced = @ \/ company]
      BY <1>2 DEF SpinAccepted
    <2> HIDE DEF company
    <2>3. HistType'
      BY <2>1, <2>2 DEF Types, HistType
    <2>4. SpType' /\ ExType'
      BY <1>2, Moves, ExFields DEF SpinAccepted, Types, Labels
    <2> QED
      BY <1>2, <2>3, <2>4, SameTypes DEF SpinAccepted, CallsSpin, Types
  <1> QED
    BY <1>1, <1>2

LEMMA LoadTypes == ASSUME Types, NEW s \in Spinners, Load(s) PROVE Types'
  <1>1. CASE GetInstance(s)
    <2>1. \A R \in Registrations : R \subseteq Callbacks
      BY DEF Registrations, RegistrationsNow, OnePerName, Types, RegistryType
    <2>2. RegistryType'
      BY <1>1, <2>1 DEF GetInstance, RegistryType, Types
    <2> QED
      BY <1>1, <2>2, SameTypes, Moves DEF GetInstance, Types, Labels
  <1>2. CASE ExportTiming(s)
    <2>1. PICK D \in Exportable :
             sp' = [sp EXCEPT ![s].pc = "handles",
                              ![s].export = [handles |-> registry.callbacks,
                                             groups |-> GroupsOf(D)]]
      BY <1>2 DEF ExportTiming
    <2>2. /\ GroupsOf(D) \in SUBSET ThreadGroups
          /\ registry.callbacks \subseteq Callbacks
      BY GroupsOfSome DEF Exportable, Types, RegistryType
    <2>3. SpType'
      BY <2>1, <2>2 DEF Types, SpType, Locals, Labels
    <2>4. RegistryType'
      BY <1>2 DEF ExportTiming, Types, RegistryType
    <2>5. HistType'
      <3> DEFINE later == hist.exports + 1
                 known == IF hist.exports = 0 THEN app.callbacks ELSE {}
      <3>1. hist' = [hist EXCEPT !.exports = later, !.known = known]
        BY <1>2 DEF ExportTiming
      <3>2. later \in Nat
        BY DEF Types, HistType
      <3> HIDE DEF later, known
      <3> QED
        BY <3>1, <3>2 DEF Types, HistType
    <2> QED
      BY <1>2, <2>3, <2>4, <2>5, SameTypes DEF ExportTiming, Types
  <1>3. CASE AllocationThrows(s)
    BY <1>3, LeavingTypes DEF AllocationThrows
  <1>4. CASE SwapHandles(s)
    BY <1>4, SameTypes, ExFields, Moves DEF SwapHandles, Types, Labels
  <1>5. CASE SwapThreadGroups(s)
    <2>1. NoExport \in [handles : SUBSET Callbacks,
                        groups : SUBSET ThreadGroups]
      BY DEF NoExport
    <2>2. sp' = [sp EXCEPT ![s].pc = "classify", ![s].export = NoExport]
      BY <1>5 DEF SwapThreadGroups
    <2>3. SpType'
      BY <2>1, <2>2 DEF Types, SpType, Locals, Labels
    <2> QED
      BY <1>5, <2>3, SameTypes, ExFields DEF SwapThreadGroups, Types
  <1> QED
    BY <1>1, <1>2, <1>3, <1>4, <1>5 DEF Load

LEMMA ClassifyTypes ==
  ASSUME Types, NEW s \in Spinners, Classify(s) PROVE Types'
  <1>1. ASSUME NEW g \in Groups, ClassifyGroup(s, g) PROVE Types'
    <2>1. SpType'
      BY <1>1 DEF ClassifyGroup, Types, SpType, Locals
    <2>2. FlagType'
      BY <1>1 DEF ClassifyGroup, Types, FlagType
    <2>3. ExType'
      <3>1. Append(ex.non_rt_groups, g) \in Seq(Groups)
        BY DEF Types, ExType
      <3>2. CASE ex' = [ex EXCEPT !.non_rt_groups = Append(@, g)]
        <4> DEFINE more == Append(ex.non_rt_groups, g)
        <4>1. ex' = [ex EXCEPT !.non_rt_groups = more] /\ more \in Seq(Groups)
          BY <3>1, <3>2
        <4> HIDE DEF more
        <4> QED
          BY <4>1 DEF Types, ExType
      <3> QED
        BY <1>1, <3>2, SameTypes, ExFields DEF ClassifyGroup, Types
    <2> QED
      BY <1>1, <2>1, <2>2, <2>3, SameTypes DEF ClassifyGroup, Types
  <1>2. ASSUME NEW g \in Groups, ClassifyThrows(s, g) PROVE Types'
    BY <1>2, LeavingTypes DEF ClassifyThrows
  <1>3. CASE ClassifyDone(s)
    <2>1. SpType'
      BY <1>3 DEF ClassifyDone, Types, SpType, Locals, Labels
    <2> QED
      BY <1>3, <2>1, SameTypes, ExFields DEF ClassifyDone, Types
  <1> QED
    BY <1>1, <1>2, <1>3 DEF Classify

LEMMA SpawnTypes == ASSUME Types, NEW s \in Spinners, Spawn(s) PROVE Types'
  <1>1. CASE SpawnRefused(s) \/ SpawnThrows(s)
    BY <1>1, LeavingTypes DEF SpawnRefused, SpawnThrows
  <1>2. CASE SpawnAllowed(s)
    BY <1>2, SameTypes, Moves DEF SpawnAllowed, Types, Labels
  <1>3. CASE CreateNonRt(s)
    <2>1. nr.current + 1 \in Executors
      BY <1>3, ConstantsAssumption DEF CreateNonRt, Executors, Types, NrType
    <2>2. NrType'
      BY <1>3, <2>1 DEF CreateNonRt, Types, NrType
    <2>3. SpType'
      BY <1>3 DEF CreateNonRt, Types, SpType, ExType, Locals, Labels
    <2> QED
      BY <1>3, <2>2, <2>3, SameTypes, ReleasedType DEF CreateNonRt, Types
  <1>4. CASE AddGroup(s)
    <2>1. Head(sp[s].left) \in Groups /\ Tail(sp[s].left) \in Seq(Groups)
      BY <1>4 DEF AddGroup, Types, SpType, Locals
    <2>2. NrType'
      BY <1>4, <2>1 DEF AddGroup, Types, NrType
    <2>3. SpType'
      <3> DEFINE rest == Tail(sp[s].left)
      <3>1. sp' = [sp EXCEPT ![s].left = rest] /\ rest \in Seq(Groups)
        BY <1>4, <2>1 DEF AddGroup
      <3> HIDE DEF rest
      <3> QED
        BY <3>1 DEF Types, SpType, Locals
    <2>4. FlagType'
      BY <1>4 DEF AddGroup, Types, FlagType
    <2> QED
      BY <1>4, <2>2, <2>3, <2>4, SameTypes DEF AddGroup, Types
  <1>5. CASE StartNonRt(s)
    <2>1. NrType'
      BY <1>5 DEF StartNonRt, Types, NrType
    <2> QED
      BY <1>5, <2>1, SameTypes, Moves DEF StartNonRt, Types, Labels
  <1>6. CASE SetSpawned(s) \/ SpawnWorkers(s)
    BY <1>6, SameTypes, ExFields, Moves DEF SetSpawned, SpawnWorkers, Types,
       Labels
  <1> QED
    BY <1>1, <1>2, <1>3, <1>4, <1>5, <1>6 DEF Spawn

LEMMA LoopTypes ==
  ASSUME Types, NEW s \in Spinners, Loop(s) \/ WaitForWork(s) PROVE Types'
  <1>1. CASE SpinLoop(s) \/ Dispatch(s)
    BY <1>1, SameTypes, Moves DEF SpinLoop, Dispatch, Types, Labels
  <1>2. CASE SpinLoopEnds(s)
    BY <1>2, LeavingTypes DEF SpinLoopEnds
  <1>3. ASSUME NEW c \in Callbacks, DispatchUnlisted(s, c) PROVE Types'
    <2>1. HistType'
      BY <1>3 DEF DispatchUnlisted, Types, HistType
    <2>2. SpType' /\ ExType'
      BY <1>3, SameTypes, ExFields, Moves DEF DispatchUnlisted, Types, Labels
    <2> QED
      BY <1>3, <2>1, <2>2, SameTypes DEF DispatchUnlisted, Types
  <1>4. ASSUME NEW c \in Callbacks, DispatchUnknown(s, c) PROVE Types'
    BY <1>4, LeavingTypes DEF DispatchUnknown
  <1>5. CASE WaitForWork(s)
    <2>1. FlagType'
      BY <1>5 DEF WaitForWork, Types, FlagType
    <2> QED
      BY <1>5, <2>1, SameTypes, ExFields, Moves DEF WaitForWork, Types, Labels
  <1> QED
    BY <1>1, <1>2, <1>3, <1>4, <1>5 DEF Loop

LEMMA TeardownTypes == ASSUME Types, Teardown PROVE Types'
  <1>1. ASSUME NEW s \in Spinners, NonRtSpin(s) PROVE Types'
    <2>1. NrType'
      BY <1>1 DEF NonRtSpin, Types, NrType
    <2> QED
      BY <1>1, <2>1, SameTypes DEF NonRtSpin, Types
  <1>2. NoNonRt \in [current : Executors, groups : [Executors -> SUBSET Groups],
            spinning : [Executors -> BOOLEAN],
            thread : [Spinners -> {"none", "started", "spinning", "ended"}],
            runs : [Spinners -> Executors]]
    BY ConstantsAssumption DEF NoNonRt, Executors
  <1>3. ASSUME NEW s \in Spinners, NonRtSpinThrows(s) PROVE Types'
    <2>1. NrType'
      BY <1>2, <1>3 DEF NonRtSpinThrows, NrType
    <2>2. SpType'
      <3>1. Idle \in Locals
        BY DEF Idle, NoExport, Locals, Labels
      <3> QED
        BY <1>3, <3>1 DEF NonRtSpinThrows, SpType
    <2> QED
      BY <1>3, <2>1, <2>2, SameTypes, ExFields DEF NonRtSpinThrows, Types
  <1>4. ASSUME NEW s \in Spinners, NonRtReturn(s) PROVE Types'
    <2>1. NrType'
      BY <1>4 DEF NonRtReturn, Types, NrType
    <2> QED
      BY <1>4, <2>1, SameTypes, ReleasedType DEF NonRtReturn, Types
  <1>5. CASE JoinNonRt
    <2>1. NrType'
      BY <1>2, <1>5 DEF JoinNonRt, NrType
    <2> QED
      BY <1>5, <2>1, SameTypes, ExFields, ReleasedType DEF JoinNonRt, Types
  <1>6. CASE DestroyMembers
    <2>1. ExType'
      <3>1. /\ ex'.non_rt_groups = <<>>
            /\ ExType!1'
        BY <1>6 DEF DestroyMembers, Types, ExType
      <3> QED
        BY <3>1 DEF ExType
    <2> QED
      BY <1>6, <2>1, SameTypes, ReleasedType DEF DestroyMembers, Types
  <1> QED
    BY <1>1, <1>3, <1>4, <1>5, <1>6 DEF Teardown

LEMMA NextTypes == Types /\ [Next]_vars => Types'
  <1> SUFFICES ASSUME Types, [Next]_vars PROVE Types'
    OBVIOUS
  <1>1. CASE UNCHANGED vars
    BY <1>1, SameTypes DEF vars, Types
  <1> QED
    BY <1>1, ApplicationTypes, EnteringTypes, LoadTypes, ClassifyTypes,
       SpawnTypes, LoopTypes, TeardownTypes DEF Next, Finished

-----------------------------------------------------------------------------
(***************************************************************************)
(* Who executes a group                                                    *)
(***************************************************************************)

Marked ==
    /\ \A g \in ex.rt_groups : g \in Groups /\ associated[g] = "this"
    /\ \A k \in Executors : \A g \in nr.groups[k] : associated[g] = "non_rt"
    /\ \A j, k \in Executors : j # k => nr.groups[j] \cap nr.groups[k] = {}

LEMMA InitMarks == Init => Marked
  BY DEF Init, Marked, NoNonRt

\* Most steps leave the groups that are executed alone.
LEMMA SameMarks ==
  ASSUME Types, Marked, UNCHANGED associated, UNCHANGED nr.groups,
         \/ UNCHANGED ex
         \/ \E v : ex' = [ex EXCEPT !.spinning = v]
         \/ \E v, w : ex' = [ex EXCEPT !.spinning = v, !.woken = w]
         \/ \E v : ex' = [ex EXCEPT !.woken = v]
         \/ \E v : ex' = [ex EXCEPT !.spawned = v]
         \/ \E v : ex' = [ex EXCEPT !.workers = v]
         \/ \E v : ex' = [ex EXCEPT !.timing = v]
         \/ \E v : ex' = [ex EXCEPT !.thread_groups = v]
         \/ \E v : ex' = [ex EXCEPT !.pending = v]
         \/ \E v : ex' = [ex EXCEPT !.non_rt_groups = v]
         \/ \E v, w : ex' = [ex EXCEPT !.pending = v, !.weak_nodes = w]
  PROVE  Marked'
  <1>1. ex'.rt_groups = ex.rt_groups
    BY DEF Types, ExType
  <1> QED
    BY <1>1 DEF Marked

\* This executor takes groups that are nobody's.
LEMMA TakingMarks ==
  ASSUME Types, Marked, UNCHANGED nr,
         NEW G \in SUBSET Groups, \A g \in G : associated[g] = "none",
         ex'.rt_groups = ex.rt_groups \cup G,
         associated' = [g \in Groups |-> IF g \in G THEN "this"
                                                    ELSE associated[g]]
  PROVE  Marked'
  BY DEF Types, NrType, Marked

\* An executor for the other groups goes, or one that is still held does not.
LEMMA DroppingMarks ==
  ASSUME Types, Marked, NEW k \in Executors, NEW T,
         UNCHANGED ex, associated' = Released(LastHeldGroups(k, T)),
         nr'.groups = [nr.groups EXCEPT ![k] = @ \ LastHeldGroups(k, T)]
  PROVE  Marked'
  <1>1. LastHeldGroups(k, T) \in {{}, nr.groups[k]}
    BY DEF LastHeldGroups
  <1>2. nr.groups \in [Executors -> SUBSET Groups]
    BY DEF Types, NrType
  <1> QED
    BY <1>1, <1>2 DEF Released, Marked

LEMMA LeavingMarks ==
  ASSUME Types, Marked, NEW s, LeaveWithoutChange(s) PROVE Marked'
  BY SameMarks DEF LeaveWithoutChange

LEMMA ApplicationMarks == ASSUME Types, Marked, Application PROVE Marked'
  <1>1. ASSUME NEW g \in Groups, CreateGroup(g) PROVE Marked'
    BY <1>1, SameMarks DEF CreateGroup
  <1>2. ASSUME NEW g \in Groups, OtherExecutorAdds(g) PROVE Marked'
    BY <1>2 DEF OtherExecutorAdds, Types, FlagType, NrType, Marked
  <1>3. ASSUME NEW c \in Callbacks, CreateCallback(c) \/ RegisterCallbackName(c)
        PROVE  Marked'
    BY <1>3, SameMarks DEF CreateCallback, RegisterCallbackName
  <1>4. ASSUME NEW n \in Nodes, DestroyNode(n) \/ AddNode(n) \/ InsertGroups(n)
        PROVE  Marked'
    BY <1>4, SameMarks DEF DestroyNode, AddNode, InsertGroups
  <1>5. CASE Cancel \/ ContextShutdown
    BY <1>5, SameMarks DEF Cancel, ContextShutdown
  <1>6. CASE Destroy
    BY <1>6, SameMarks DEF Destroy, CancelledNonRt, Types, NrType
  <1> QED
    BY <1>1, <1>2, <1>3, <1>4, <1>5, <1>6 DEF Application

LEMMA SettingUpMarks ==
  ASSUME Types, Marked, NEW s \in Spinners, Load(s) \/ Classify(s)
  PROVE  Marked'
  <1>1. CASE GetInstance(s) \/ ExportTiming(s)
    BY <1>1, SameMarks DEF GetInstance, ExportTiming
  <1>2. CASE AllocationThrows(s)
    BY <1>2, LeavingMarks DEF AllocationThrows
  <1>3. CASE SwapHandles(s) \/ SwapThreadGroups(s)
    BY <1>3, SameMarks DEF SwapHandles, SwapThreadGroups
  <1>4. ASSUME NEW g \in Groups, ClassifyGroup(s, g) PROVE Marked'
    <2>1. CASE /\ CanAdd(g) /\ ex' = [ex EXCEPT !.rt_groups = @ \cup {g}]
               /\ associated' = [associated EXCEPT ![g] = "this"]
               /\ UNCHANGED nr
      <3>1. ex'.rt_groups = ex.rt_groups \cup {g}
        BY <2>1 DEF Types, ExType
      <3>2. associated' = [h \in Groups |-> IF h \in {g} THEN "this"
                                                         ELSE associated[h]]
        BY <2>1 DEF Types, FlagType
      <3> QED
        BY <2>1, <3>1, <3>2, TakingMarks DEF CanAdd
    <2> QED
      BY <1>4, <2>1, SameMarks DEF ClassifyGroup
  <1>5. ASSUME NEW g \in Groups, ClassifyThrows(s, g) PROVE Marked'
    BY <1>5, LeavingMarks DEF ClassifyThrows
  <1>6. CASE ClassifyDone(s)
    BY <1>6, SameMarks DEF ClassifyDone
  <1> QED
    BY <1>1, <1>2, <1>3, <1>4, <1>5, <1>6 DEF Load, Classify

LEMMA SpawningMarks ==
  ASSUME Types, Marked, NEW s \in Spinners, Spawn(s) PROVE Marked'
  <1>1. CASE SpawnRefused(s) \/ SpawnThrows(s)
    BY <1>1, LeavingMarks DEF SpawnRefused, SpawnThrows
  <1>2. CASE SpawnAllowed(s) \/ SetSpawned(s) \/ SpawnWorkers(s)
    BY <1>2, SameMarks DEF SpawnAllowed, SetSpawned, SpawnWorkers
  <1>3. CASE CreateNonRt(s)
    <2>1. nr.current \in Executors
      BY DEF Types, NrType
    <2>2. nr'.groups = [nr.groups EXCEPT ![nr.current] =
                           @ \ LastHeldGroups(nr.current, Spinners)]
      BY <1>3 DEF CreateNonRt, Types, NrType
    <2> QED
      BY <1>3, <2>1, <2>2, DroppingMarks DEF CreateNonRt
  <1>4. CASE AddGroup(s)
    <2> DEFINE g == Head(sp[s].left)
    <2>1. nr' = [nr EXCEPT !.groups[nr.current] = @ \cup {g}]
      BY <1>4 DEF AddGroup
    <2>2. /\ associated[g] = "none" /\ UNCHANGED ex
          /\ associated' = [associated EXCEPT ![g] = "non_rt"]
      BY <1>4 DEF AddGroup, CanAdd
    <2>3. g \in Groups
      BY <1>4 DEF AddGroup, Types, SpType, Locals
    <2> HIDE DEF g
    <2> QED
      BY <2>1, <2>2, <2>3 DEF Types, FlagType, NrType, Marked
  <1>5. CASE StartNonRt(s)
    BY <1>5, SameMarks DEF StartNonRt, Types, NrType
  <1> QED
    BY <1>1, <1>2, <1>3, <1>4, <1>5 DEF Spawn

LEMMA LoopingMarks ==
  ASSUME Types, Marked, NEW s \in Spinners, Loop(s) \/ WaitForWork(s)
  PROVE  Marked'
  <1>1. CASE SpinLoop(s) \/ Dispatch(s)
    BY <1>1, SameMarks DEF SpinLoop, Dispatch
  <1>2. CASE SpinLoopEnds(s)
    BY <1>2, LeavingMarks DEF SpinLoopEnds
  <1>3. ASSUME NEW c \in Callbacks, DispatchUnlisted(s, c) PROVE Marked'
    BY <1>3, SameMarks DEF DispatchUnlisted
  <1>4. ASSUME NEW c \in Callbacks, DispatchUnknown(s, c) PROVE Marked'
    BY <1>4, LeavingMarks DEF DispatchUnknown
  <1>5. CASE WaitForWork(s)
    <2> DEFINE adopted == {g \in Groups : /\ Alive(g) /\ CanAdd(g)
                                          /\ NodeOf[g] \in ex.weak_nodes}
    <2>1. adopted \in SUBSET Groups /\ \A g \in adopted : associated[g] = "none"
      BY DEF CanAdd
    <2>2. /\ ex' = [ex EXCEPT !.rt_groups = @ \cup adopted, !.woken = FALSE]
          /\ associated' = [g \in Groups |->
                               IF g \in adopted THEN "this" ELSE associated[g]]
          /\ UNCHANGED nr
      BY <1>5 DEF WaitForWork
    <2> HIDE DEF adopted
    <2>3. ex'.rt_groups = ex.rt_groups \cup adopted
      BY <2>2 DEF Types, ExType
    <2> QED
      BY <2>1, <2>2, <2>3, TakingMarks
  <1> QED
    BY <1>1, <1>2, <1>3, <1>4, <1>5 DEF Loop

LEMMA TeardownMarks == ASSUME Types, Marked, Teardown PROVE Marked'
  <1>1. ASSUME NEW s \in Spinners, NonRtSpin(s) PROVE Marked'
    BY <1>1, SameMarks DEF NonRtSpin, Types, NrType
  <1>2. ASSUME NEW s \in Spinners, NonRtSpinThrows(s) PROVE Marked'
    <2>1. /\ ex'.rt_groups = ex.rt_groups /\ UNCHANGED associated
          /\ \A k \in Executors : nr'.groups[k] = {}
      BY <1>2 DEF NonRtSpinThrows, NoNonRt, Types, ExType
    <2> QED
      BY <2>1 DEF Marked
  <1>3. ASSUME NEW s \in Spinners, NonRtReturn(s) PROVE Marked'
    <2> DEFINE k == nr.runs[s]
    <2>1. k \in Executors /\ nr.current \in Executors
      BY DEF Types, NrType
    <2>2. CASE k = nr.current
      <3>1. nr' = [nr EXCEPT !.thread[s] = "ended", !.spinning[k] = FALSE,
                             !.groups[k] = @ \ {}]
        BY <1>3, <2>2 DEF NonRtReturn
      <3>2. associated' = associated /\ UNCHANGED ex
        BY <1>3, <2>2 DEF NonRtReturn, Released, Types, FlagType
      <3>3. nr'.groups = nr.groups
        BY <2>1, <3>1 DEF Types, NrType
      <3> QED
        BY <3>2, <3>3, SameMarks
    <2>3. CASE k # nr.current
      <3>1. nr' = [nr EXCEPT !.thread[s] = "ended", !.spinning[k] = FALSE,
                        !.groups[k] = @ \ LastHeldGroups(k, Spinners \ {s})]
        BY <1>3, <2>3 DEF NonRtReturn
      <3>2. nr'.groups = [nr.groups EXCEPT ![k] =
                             @ \ LastHeldGroups(k, Spinners \ {s})]
        BY <2>1, <3>1 DEF Types, NrType
      <3>3. /\ associated' = Released(LastHeldGroups(k, Spinners \ {s}))
            /\ UNCHANGED ex
        BY <1>3, <2>3 DEF NonRtReturn
      <3> QED
        BY <2>1, <3>2, <3>3, DroppingMarks
    <2> QED
      BY <2>2, <2>3
  <1>4. CASE JoinNonRt
    <2>1. /\ ex'.rt_groups = ex.rt_groups
          /\ \A k \in Executors : nr'.groups[k] = {}
      BY <1>4 DEF JoinNonRt, NoNonRt, Types, ExType
    <2>2. \A g \in ex.rt_groups : associated'[g] = associated[g]
      BY <1>4 DEF JoinNonRt, Released, Marked
    <2> QED
      BY <2>1, <2>2 DEF Marked
  <1>5. CASE DestroyMembers
    <2>1. ex'.rt_groups = {} /\ UNCHANGED nr
      BY <1>5 DEF DestroyMembers, Types, ExType
    <2>2. \A g \in Groups :
             associated[g] = "non_rt" => associated'[g] = "non_rt"
      BY <1>5 DEF DestroyMembers, Released, Marked
    <2> QED
      BY <2>1, <2>2 DEF Marked, Types, NrType
  <1> QED
    BY <1>1, <1>2, <1>3, <1>4, <1>5 DEF Teardown

LEMMA NextMarks == Types /\ Marked /\ [Next]_vars => Marked'
  <1> SUFFICES ASSUME Types, Marked, [Next]_vars PROVE Marked'
    OBVIOUS
  <1>1. ASSUME NEW s \in Spinners, SpinRefused(s) \/ SpinAccepted(s)
        PROVE  Marked'
    BY <1>1, SameMarks DEF SpinRefused, SpinAccepted, CallsSpin
  <1>2. CASE UNCHANGED vars
    BY <1>2, SameMarks DEF vars
  <1> QED
    BY <1>1, <1>2, ApplicationMarks, SettingUpMarks, SpawningMarks,
       LoopingMarks, TeardownMarks DEF Next, Finished

LEMMA MarksAreKept == Spec => [](Types /\ Marked)
  BY InitTypes, NextTypes, InitMarks, NextMarks, PTL DEF Spec

\* A callback group is never executed by two executors, in whatever order
\* nodes are added, spin is called, fails and is called again, calls overlap,
\* groups appear late and other executors claim groups, and for all values of
\* the constants.
THEOREM ServedByOneExecutor == Spec => []NoGroupIsServedTwice
  <1>1. Types /\ Marked => NoGroupIsServedTwice
    BY DEF Types, NrType, Marked, NoGroupIsServedTwice
  <1> QED
    BY MarksAreKept, <1>1, PTL
-----------------------------------------------------------------------------
(***************************************************************************)
(* What holds at each place of spin                                        *)
(***************************************************************************)

\* The flag is up only while a call of spin is in progress, and none is once
\* the destructor has begun.
FlagMeansInside ==
    /\ ex.spinning => \E s \in Spinners : Inside(s)
    /\ destruction # "alive" => \A s \in Spinners : ~Inside(s)

\* The calls of spin have come one after the other.
Calm == destruction = "alive" /\ ~hist.overlapped

Alone ==
    /\ hist.overlapped => hist.raced
    /\ Calm => \A s, t \in Spinners : Inside(s) /\ Inside(t) => s = t

\* The two maps are those of one export, but between the two swaps, and
\* whoever dispatches has built what the second one asks for.
Exported ==
    Calm =>
        /\ registry.state # "torn"
        /\ \A s \in Spinners :
              /\ sp[s].pc \in {"handles", "groups"} =>
                    sp[s].export.groups = GroupsOf(sp[s].export.handles)
              /\ sp[s].pc = "groups" => ex.timing = sp[s].export.handles
              /\ sp[s].pc \in {"loop", "wait", "dispatch"} =>
                    ex.thread_groups \subseteq ex.workers
        /\ \/ \E s \in Spinners : sp[s].pc = "groups"
           \/ ex.thread_groups = GroupsOf(ex.timing)

Listed(g) == \E i \in DOMAIN ex.non_rt_groups : ex.non_rt_groups[i] = g

\* A group that a classification visited is executed, or listed, or gone.
Kept(g) == g \in ex.rt_groups \/ Listed(g) \/ NodeOf[g] \in app.gone

Accounted ==
    /\ ex.pending \subseteq app.groups
    /\ \A s \in Spinners : sp[s].pc # "classify" => sp[s].visited = {}
    /\ destruction = "alive" =>
          \A s \in Spinners : \A g \in sp[s].visited : Kept(g)
    /\ destruction = "alive" /\ ~hist.raced =>
          \A g \in hist.accepted : g \in ex.pending \/ Kept(g)

\* What the loop of spawn_worker_groups has left is what is missing, and a call
\* that is past it has a thread for the executor of all listed groups.
Added ==
    Calm =>
        \A s \in Spinners :
            /\ sp[s].pc = "adding" =>
                  \A g \in Groups : Listed(g) =>
                      \/ g \in nr.groups[nr.current]
                      \/ \E i \in DOMAIN sp[s].left : sp[s].left[i] = g
            /\ Serving(s) =>
                  /\ nr.thread[s] # "none" /\ nr.runs[s] = nr.current
                  /\ \A g \in Groups : Listed(g) => g \in nr.groups[nr.current]

\* All callbacks of the group that existed at the first export are listed.
Timed(g) == \A c \in hist.known : GroupOf[c] = g => c \in ex.timing

BeforeExport ==
    /\ ex.rt_groups = {} /\ hist.accepted \subseteq ex.pending
    /\ \A s \in Spinners : sp[s].pc \in {"idle", "loading", "allocate"}

AfterExport ==
    /\ \A s \in Spinners :
          /\ sp[s].pc \in {"handles", "groups"} => ex.rt_groups = {}
          /\ sp[s].pc = "classify" => ex.rt_groups \subseteq sp[s].visited
    /\ \A g \in ex.rt_groups :
          \/ g \in hist.accepted \ ex.pending
          \/ \E s \in Spinners : g \in sp[s].visited
          => Timed(g)

InTurn ==
    /\ hist.known \subseteq app.callbacks
    /\ hist.unexpected = FALSE
    /\ destruction = "alive" /\ ~hist.raced =>
          /\ hist.exports = 0 => BeforeExport
          /\ hist.exports = 1 => AfterExport

Order == FlagMeansInside /\ Alone /\ Exported /\ Accounted /\ Added /\ InTurn

LEMMA InitOrder == Init => Order
  <1> SUFFICES ASSUME Init PROVE Order
    OBVIOUS
  <1>1. \A s \in Spinners : sp[s].pc = "idle" /\ sp[s].visited = {}
    BY DEF Init, Idle
  <1>2. FlagMeansInside /\ Alone
    BY <1>1 DEF Init, FlagMeansInside, Alone, Inside
  <1>3. Exported
    BY <1>1 DEF Init, Exported, GroupsOf
  <1>4. Accounted /\ Added
    BY <1>1 DEF Init, Accounted, Added, Serving
  <1>5. InTurn
    BY <1>1 DEF Init, InTurn, BeforeExport
  <1> QED
    BY <1>2, <1>3, <1>4, <1>5 DEF Order

\* The parts of the state that Order looks into, where a step leaves them alone.
SameEx ==
    UNCHANGED <<ex.pending, ex.timing, ex.thread_groups, ex.workers,
                ex.rt_groups, ex.non_rt_groups>>

SameHist ==
    UNCHANGED <<hist.overlapped, hist.raced, hist.exports, hist.accepted,
                hist.known, hist.unexpected>>

MoreApp ==
    /\ app.groups \subseteq app'.groups
    /\ app.callbacks \subseteq app'.callbacks
    /\ app.gone \subseteq app'.gone

\* The other spinners do not move.
Others(s) == \A t \in Spinners : t # s => sp'[t] = sp[t]

LEMMA ExStays ==
  ASSUME Types,
         \/ UNCHANGED ex
         \/ \E v : ex' = [ex EXCEPT !.spinning = v]
         \/ \E v, w : ex' = [ex EXCEPT !.spinning = v, !.woken = w]
         \/ \E v : ex' = [ex EXCEPT !.woken = v]
         \/ \E v : ex' = [ex EXCEPT !.spawned = v]
  PROVE  SameEx
  BY DEF Types, ExType, SameEx

LEMMA HistStays ==
  ASSUME Types,
         \/ UNCHANGED hist
         \/ \E v : hist' = [hist EXCEPT !.spins = v]
         \/ \E v : hist' = [hist EXCEPT !.cancelMissed = v]
         \/ /\ hist' = [hist EXCEPT !.unexpected = FALSE]
            /\ hist.unexpected = FALSE
  PROVE  SameHist
  <1>1. CASE UNCHANGED hist
    BY <1>1 DEF SameHist
  <1>2. ASSUME NEW v, \/ hist' = [hist EXCEPT !.spins = v]
                     \/ hist' = [hist EXCEPT !.cancelMissed = v]
        PROVE  SameHist
    BY <1>2 DEF Types, HistType, SameHist
  <1>3. CASE /\ hist' = [hist EXCEPT !.unexpected = FALSE]
             /\ hist.unexpected = FALSE
    BY <1>3 DEF Types, HistType, SameHist
  <1> QED
    BY <1>1, <1>2, <1>3

LEMMA Going ==
  ASSUME Types, NEW s \in Spinners
  PROVE  /\ \A label : Goto(s, label) =>
               /\ sp'[s].pc = label /\ sp'[s].visited = sp[s].visited
               /\ sp'[s].export = sp[s].export /\ sp'[s].left = sp[s].left
               /\ Others(s)
         /\ Leave(s) => sp'[s] = Idle /\ Others(s)
  BY DEF Types, SpType, Locals, Goto, Leave, Others

\* A step that is not spin's.
LEMMA BystanderKeepsOrder ==
  ASSUME Types, Order, SameEx, SameHist, MoreApp, UNCHANGED <<sp, destruction>>,
         ex'.spinning => ex.spinning,
         registry'.state = "torn" => registry.state = "torn",
         nr'.current = nr.current /\ nr'.runs = nr.runs,
         nr.groups[nr.current] \subseteq nr'.groups[nr.current],
         \A s \in Spinners : nr.thread[s] # "none" => nr'.thread[s] # "none"
  PROVE  Order'
  <1>1. FlagMeansInside' /\ Alone'
    BY DEF Order, FlagMeansInside, Alone, Calm, SameHist, Inside
  <1>2. Exported'
    BY DEF Order, Exported, Calm, SameHist, SameEx
  <1>3. Accounted'
    BY DEF Order, Accounted, SameEx, SameHist, MoreApp, Kept, Listed
  <1>4. Added'
    BY DEF Order, Added, Calm, SameEx, SameHist, Listed, Serving
  <1>5. InTurn'
    BY DEF Order, InTurn, BeforeExport, AfterExport, Timed, SameEx, SameHist,
       MoreApp
  <1> QED
    BY <1>1, <1>2, <1>3, <1>4, <1>5 DEF Order

LEMMA ApplicationKeepsOrder ==
  ASSUME Types, Order, Application PROVE Order'
  <1>1. ASSUME NEW g \in Groups, CreateGroup(g) \/ OtherExecutorAdds(g)
        PROVE  Order'
    <2>1. MoreApp
      BY <1>1 DEF CreateGroup, OtherExecutorAdds, MoreApp, Types, AppType
    <2> QED
      BY <1>1, <2>1, BystanderKeepsOrder, ExStays, HistStays
         DEF CreateGroup, OtherExecutorAdds
  <1>2. ASSUME NEW c \in Callbacks, CreateCallback(c) \/ RegisterCallbackName(c)
        PROVE  Order'
    <2>1. MoreApp
      BY <1>2 DEF CreateCallback, RegisterCallbackName, MoreApp, Types, AppType
    <2>2. registry'.state = registry.state
      BY <1>2 DEF CreateCallback, RegisterCallbackName, Types, RegistryType
    <2> QED
      BY <1>2, <2>1, <2>2, BystanderKeepsOrder, ExStays, HistStays
         DEF CreateCallback, RegisterCallbackName
  <1>3. ASSUME NEW n \in Nodes, DestroyNode(n) \/ AddNode(n) PROVE Order'
    <2>1. MoreApp
      BY <1>3 DEF DestroyNode, AddNode, MoreApp, Types, AppType
    <2> QED
      BY <1>3, <2>1, BystanderKeepsOrder, ExStays, HistStays
         DEF DestroyNode, AddNode
  <1>4. ASSUME NEW n \in Nodes, InsertGroups(n) PROVE Order'
    <2> DEFINE racing ==
                 hist.raced \/ (PendingOf(n) # {} /\ ReadingPending # {})
    <2>1. /\ ex' = [ex EXCEPT !.pending = @ \cup PendingOf(n),
                              !.weak_nodes = @ \cup {n}]
          /\ hist' = [hist EXCEPT !.accepted = @ \cup PendingOf(n),
                                  !.raced = racing]
          /\ UNCHANGED <<app, registry, nr, sp, destruction>>
      BY <1>4 DEF InsertGroups
    <2>2. hist.raced => racing
      OBVIOUS
    <2> HIDE DEF racing
    <2>3. /\ ex'.pending = ex.pending \cup PendingOf(n)
          /\ UNCHANGED <<ex.timing, ex.thread_groups, ex.workers, ex.rt_groups,
                         ex.non_rt_groups, ex.spinning>>
      BY <2>1 DEF Types, ExType
    <2>4. /\ hist'.accepted = hist.accepted \cup PendingOf(n)
          /\ hist.raced => hist'.raced
          /\ UNCHANGED <<hist.overlapped, hist.exports, hist.known,
                         hist.unexpected>>
      BY <2>1, <2>2 DEF Types, HistType
    <2>5. PendingOf(n) \subseteq app.groups
      BY DEF PendingOf, Alive
    <2>6. FlagMeansInside' /\ Alone'
      BY <2>1, <2>3, <2>4 DEF Order, FlagMeansInside, Alone, Calm, Inside
    <2>7. Exported' /\ Added'
      BY <2>1, <2>3, <2>4 DEF Order, Exported, Added, Calm, Listed, Serving
    <2>8. Accounted'
      BY <2>1, <2>3, <2>4, <2>5 DEF Order, Accounted, Kept, Listed
    <2>9. InTurn'
      BY <2>1, <2>3, <2>4 DEF Order, InTurn, BeforeExport, AfterExport, Timed
    <2> QED
      BY <2>6, <2>7, <2>8, <2>9 DEF Order
  <1>5. CASE Cancel \/ ContextShutdown
    <2>1. ex'.spinning => ex.spinning
      BY <1>5 DEF Cancel, ContextShutdown, Types, ExType
    <2> QED
      BY <1>5, <2>1, BystanderKeepsOrder, ExStays, HistStays
         DEF Cancel, ContextShutdown, MoreApp
  <1>6. CASE Destroy
    <2>1. /\ UNCHANGED <<app, ex, sp>>
          /\ destruction' = "join" /\ \A s \in Spinners : ~Inside(s)
          /\ \E v : hist' = [hist EXCEPT !.cancelMissed = v]
      BY <1>6 DEF Destroy
    <2>2. SameHist
      BY <2>1, HistStays
    <2> QED
      BY <2>1, <2>2 DEF Order, FlagMeansInside, Alone, Calm, Exported,
         Accounted, Added, InTurn, SameHist, Inside
  <1> QED
    BY <1>1, <1>2, <1>3, <1>4, <1>5, <1>6 DEF Application

\* spin leaves, by a return or an exception: the flag goes down with it.
LEMMA LeavingKeepsOrder ==
  ASSUME Types, Order, NEW s \in Spinners, Inside(s), Leave(s),
         sp[s].pc # "groups", SameEx, ex'.spinning = FALSE, SameHist,
         UNCHANGED <<app, destruction, registry, nr>>
  PROVE  Order'
  <1>1. /\ sp'[s].pc = "idle" /\ sp'[s].visited = {}
        /\ \A t \in Spinners : t # s => sp'[t] = sp[t]
    BY Going DEF Idle, Others
  <1>2. FlagMeansInside' /\ Alone'
    BY <1>1 DEF Order, FlagMeansInside, Alone, Calm, SameHist, Inside
  <1>3. Exported'
    BY <1>1 DEF Order, Exported, Calm, SameHist, SameEx
  <1>4. Accounted'
    BY <1>1 DEF Order, Accounted, SameEx, SameHist, Kept, Listed
  <1>5. Added'
    BY <1>1 DEF Order, Added, Calm, SameEx, SameHist, Listed, Serving
  <1>6. InTurn'
    BY <1>1 DEF Order, InTurn, BeforeExport, AfterExport, Timed, SameEx,
       SameHist
  <1> QED
    BY <1>2, <1>3, <1>4, <1>5, <1>6 DEF Order
\* spin goes on to another place of its code, with nothing done.
LEMMA MovingKeepsOrder ==
  ASSUME Types, Order, NEW s \in Spinners,
         NEW label \in {"create", "workers", "loop", "wait", "dispatch"},
         Goto(s, label),
         sp[s].pc \in {"spawn", "started", "loop", "wait", "dispatch"},
         label \in {"loop", "wait", "dispatch"} =>
            sp[s].pc \in {"loop", "wait", "dispatch"},
         label = "workers" => sp[s].pc = "started",
         SameEx, ex'.spinning = ex.spinning, SameHist,
         UNCHANGED <<app, destruction, registry, nr>>
  PROVE  Order'
  <1>1. /\ sp'[s].pc = label /\ sp'[s].visited = sp[s].visited
        /\ \A t \in Spinners : t # s => sp'[t] = sp[t]
    BY Going DEF Others
  <1>2. FlagMeansInside' /\ Alone'
    BY <1>1 DEF Order, FlagMeansInside, Alone, Calm, SameHist, Inside
  <1>3. Exported'
    BY <1>1 DEF Order, Exported, Calm, SameHist, SameEx
  <1>4. Accounted'
    BY <1>1 DEF Order, Accounted, SameEx, SameHist, Kept, Listed
  <1>5. Added'
    BY <1>1 DEF Order, Added, Calm, SameEx, SameHist, Listed, Serving
  <1>6. InTurn'
    BY <1>1 DEF Order, InTurn, BeforeExport, AfterExport, Timed, SameEx,
       SameHist
  <1> QED
    BY <1>2, <1>3, <1>4, <1>5, <1>6 DEF Order

LEMMA EnteringKeepsOrder ==
  ASSUME Types, Order, NEW s \in Spinners, SpinRefused(s) \/ SpinAccepted(s)
  PROVE  Order'
  <1>1. CASE SpinRefused(s)
    <2>1. SameHist
      BY <1>1, HistStays DEF SpinRefused
    <2> QED
      BY <1>1, <2>1, BystanderKeepsOrder, ExStays
         DEF SpinRefused, CallsSpin, MoreApp
  <1>2. CASE SpinAccepted(s)
    <2> DEFINE company == \E t \in Spinners : Inside(t)
    <2>1. /\ hist' = [hist EXCEPT !.spins = @ + 1, !.overlapped = @ \/ company,
                                  !.raced = @ \/ company]
          /\ UNCHANGED <<app, registry, nr, destruction>>
          /\ destruction = "alive" /\ sp[s].pc = "idle"
      BY <1>2 DEF SpinAccepted, CallsSpin, Inside
    <2>2. SameEx
      BY <1>2, ExStays DEF SpinAccepted
    <2>3. /\ sp'[s].pc = "loading" /\ sp'[s].visited = sp[s].visited
          /\ \A t \in Spinners : t # s => sp'[t] = sp[t]
      BY <1>2, Going DEF SpinAccepted, Others
    <2>4. company <=> \E t \in Spinners : sp[t].pc # "idle"
      BY DEF Inside
    <2> HIDE DEF company
    <2>5. /\ hist'.overlapped <=> hist.overlapped \/ company
          /\ hist'.raced <=> hist.raced \/ company
          /\ UNCHANGED <<hist.exports, hist.accepted, hist.known,
                         hist.unexpected>>
      BY <2>1 DEF Types, HistType
    <2>6. FlagMeansInside' /\ Alone'
      BY <2>1, <2>3, <2>4, <2>5 DEF Order, FlagMeansInside, Alone, Calm, Inside
    <2>7. Exported' /\ Added'
      BY <2>1, <2>2, <2>3, <2>5
         DEF Order, Exported, Added, Calm, SameEx, Listed, Serving
    <2>8. Accounted'
      BY <2>1, <2>2, <2>3, <2>5 DEF Order, Accounted, SameEx, Kept, Listed
    <2>9. InTurn'
      BY <2>1, <2>2, <2>3, <2>5
         DEF Order, InTurn, BeforeExport, AfterExport, Timed, SameEx
    <2> QED
      BY <2>6, <2>7, <2>8, <2>9 DEF Order
  <1> QED
    BY <1>1, <1>2

\* The calls that load timing information find nobody else inside, as long as
\* calls come one after the other.
LEMMA NobodyElseInside ==
  ASSUME Order, Calm, NEW s \in Spinners, Inside(s), NEW t \in Spinners, t # s
  PROVE  sp[t].pc = "idle"
  BY DEF Order, Alone, Inside

LEMMA BuildingKeepsOrder ==
  ASSUME Types, Order, NEW s \in Spinners, GetInstance(s) PROVE Order'
  <1>1. /\ sp[s].pc = "loading" /\ Goto(s, "allocate")
        /\ UNCHANGED <<app, ex, nr, destruction, hist>>
        /\ registry'.state = "torn" =>
              registry.state = "torn" \/ Allocating # {}
    BY DEF GetInstance
  <1>2. /\ sp'[s].pc = "allocate" /\ sp'[s].visited = sp[s].visited
        /\ \A t \in Spinners : t # s => sp'[t] = sp[t]
    BY <1>1, Going DEF Others
  <1>3. FlagMeansInside' /\ Alone'
    BY <1>1, <1>2 DEF Order, FlagMeansInside, Alone, Calm, Inside
  <1>4. Exported'
    <2>1. Calm => Allocating = {}
      BY <1>1, NobodyElseInside DEF Allocating, Inside
    <2> QED
      BY <1>1, <1>2, <2>1 DEF Order, Exported, Calm
  <1>5. Accounted'
    BY <1>1, <1>2 DEF Order, Accounted, Kept, Listed
  <1>6. Added'
    BY <1>1, <1>2 DEF Order, Added, Calm, Listed, Serving
  <1>7. InTurn'
    BY <1>1, <1>2 DEF Order, InTurn, BeforeExport, AfterExport, Timed
  <1> QED
    BY <1>3, <1>4, <1>5, <1>6, <1>7 DEF Order

LEMMA ExportingKeepsOrder ==
  ASSUME Types, Order, NEW s \in Spinners, ExportTiming(s) PROVE Order'
  <1>1. PICK D \in Exportable :
           sp' = [sp EXCEPT ![s].pc = "handles",
                            ![s].export = [handles |-> registry.callbacks,
                                           groups |-> GroupsOf(D)]]
    BY DEF ExportTiming
  <1>2. /\ sp[s].pc = "allocate"
        /\ UNCHANGED <<app, ex, nr, destruction>>
        /\ registry'.state = "torn" => registry.state = "torn"
    BY DEF ExportTiming
  <1>3. /\ sp'[s].pc = "handles" /\ sp'[s].visited = sp[s].visited
        /\ sp'[s].export = [handles |-> registry.callbacks,
                            groups |-> GroupsOf(D)]
        /\ \A t \in Spinners : t # s => sp'[t] = sp[t]
    BY <1>1 DEF Types, SpType, Locals
  <1>4. /\ hist'.exports = hist.exports + 1
        /\ hist'.known = IF hist.exports = 0 THEN app.callbacks ELSE {}
        /\ UNCHANGED <<hist.overlapped, hist.raced, hist.accepted,
                       hist.unexpected>>
    <2> DEFINE later == hist.exports + 1
               known == IF hist.exports = 0 THEN app.callbacks ELSE {}
    <2>1. hist' = [hist EXCEPT !.exports = later, !.known = known]
      BY DEF ExportTiming
    <2> HIDE DEF later, known
    <2>2. /\ hist'.exports = later /\ hist'.known = known
          /\ UNCHANGED <<hist.overlapped, hist.raced, hist.accepted,
                         hist.unexpected>>
      BY <2>1 DEF Types, HistType
    <2> QED
      BY <2>2 DEF later, known
  <1>5. FlagMeansInside' /\ Alone'
    BY <1>2, <1>3, <1>4 DEF Order, FlagMeansInside, Alone, Calm, Inside
  <1>6. Exported'
    <2> SUFFICES ASSUME Calm PROVE Exported'
      BY <1>2, <1>4 DEF Exported, Calm
    <2>1. D = registry.callbacks
      BY DEF Exportable, Order, Exported
    <2> QED
      BY <1>2, <1>3, <2>1 DEF Order, Exported
  <1>7. Accounted'
    BY <1>2, <1>3, <1>4 DEF Order, Accounted, Kept, Listed
  <1>8. Added'
    BY <1>2, <1>3, <1>4 DEF Order, Added, Calm, Listed, Serving
  <1>9. InTurn'
    <2> SUFFICES ASSUME destruction = "alive", ~hist.raced
                 PROVE  /\ hist'.exports # 0
                        /\ hist'.exports = 1 => AfterExport'
      BY <1>2, <1>4 DEF Order, InTurn
    <2>1. hist'.exports # 0 /\ (hist'.exports = 1 => hist.exports = 0)
      BY <1>4 DEF Types, HistType
    <2>2. ASSUME hist.exports = 0 PROVE AfterExport'
      <3>1. ex'.rt_groups = {}
        BY <1>2, <2>2 DEF Order, InTurn, BeforeExport
      <3> QED
        BY <3>1 DEF AfterExport
    <2> QED
      BY <2>1, <2>2
  <1> QED
    BY <1>5, <1>6, <1>7, <1>8, <1>9 DEF Order

LEMMA SwappingKeepsOrder ==
  ASSUME Types, Order, NEW s \in Spinners, SwapHandles(s) \/ SwapThreadGroups(s)
  PROVE  Order'
  <1>1. /\ sp[s].pc \in {"handles", "groups"}
        /\ UNCHANGED <<app, nr, registry, destruction, hist>>
    BY DEF SwapHandles, SwapThreadGroups
  <1>2. /\ UNCHANGED <<ex.spinning, ex.pending, ex.workers, ex.rt_groups,
                       ex.non_rt_groups>>
        /\ \/ /\ sp[s].pc = "handles" /\ ex'.timing = sp[s].export.handles
              /\ ex'.thread_groups = ex.thread_groups
           \/ /\ sp[s].pc = "groups" /\ ex'.timing = ex.timing
              /\ ex'.thread_groups = sp[s].export.groups
    BY DEF SwapHandles, SwapThreadGroups, Types, ExType
  <1>3. /\ \/ /\ sp[s].pc = "handles" /\ sp'[s].pc = "groups"
              /\ sp'[s].export = sp[s].export
           \/ sp[s].pc = "groups" /\ sp'[s].pc = "classify"
        /\ sp'[s].visited = sp[s].visited
        /\ \A t \in Spinners : t # s => sp'[t] = sp[t]
    BY DEF SwapHandles, SwapThreadGroups, Goto, Types, SpType, Locals
  <1>4. FlagMeansInside' /\ Alone'
    BY <1>1, <1>2, <1>3 DEF Order, FlagMeansInside, Alone, Calm, Inside
  <1>5. Exported'
    <2> SUFFICES ASSUME Calm PROVE Exported'
      BY <1>1 DEF Exported, Calm
    <2>1. \A t \in Spinners : t # s => sp'[t].pc = "idle"
      BY <1>1, <1>3, NobodyElseInside DEF Inside
    <2>2. /\ registry'.state # "torn"
          /\ sp[s].export.groups = GroupsOf(sp[s].export.handles)
          /\ sp[s].pc = "groups" => ex.timing = sp[s].export.handles
      BY <1>1 DEF Order, Exported
    <2> QED
      BY <1>2, <1>3, <2>1, <2>2 DEF Exported
  <1>6. Accounted'
    BY <1>1, <1>2, <1>3 DEF Order, Accounted, Kept, Listed
  <1>7. Added'
    BY <1>1, <1>2, <1>3 DEF Order, Added, Calm, Listed, Serving
  <1>8. InTurn'
    <2> SUFFICES ASSUME destruction = "alive", ~hist.raced
                 PROVE  /\ hist.exports # 0
                        /\ hist.exports = 1 => AfterExport'
      BY <1>1 DEF Order, InTurn
    <2>1. hist.exports # 0
      BY <1>1 DEF Order, InTurn, BeforeExport
    <2>2. ASSUME hist.exports = 1 PROVE AfterExport'
      <3>1. ex'.rt_groups = {}
        BY <1>1, <1>2, <2>2 DEF Order, InTurn, AfterExport
      <3> QED
        BY <3>1 DEF AfterExport
    <2> QED
      BY <2>1, <2>2
  <1> QED
    BY <1>4, <1>5, <1>6, <1>7, <1>8 DEF Order

LEMMA ClassifyingKeepsOrder ==
  ASSUME Types, Order, NEW s \in Spinners, NEW g \in Groups, ClassifyGroup(s, g)
  PROVE  Order'
  <1>1. /\ sp[s].pc = "classify" /\ g \in ex.pending \ sp[s].visited
        /\ sp' = [sp EXCEPT ![s].visited = @ \cup {g}]
        /\ UNCHANGED <<app, nr, registry, destruction, hist>>
    BY DEF ClassifyGroup, NextPending
  <1>2. /\ sp'[s].pc = "classify" /\ sp'[s].visited = sp[s].visited \cup {g}
        /\ \A t \in Spinners : t # s => sp'[t] = sp[t]
    BY <1>1 DEF Types, SpType, Locals
  <1>3. /\ UNCHANGED <<ex.spinning, ex.pending, ex.timing, ex.thread_groups,
                       ex.workers>>
        /\ ex'.rt_groups \in {ex.rt_groups, ex.rt_groups \cup {g}}
        /\ ex'.non_rt_groups \in {ex.non_rt_groups,
                                  Append(ex.non_rt_groups, g)}
        /\ \/ ~Alive(g) /\ ex'.rt_groups = ex.rt_groups
           \/ g \in ex'.rt_groups /\ ~HasNonRt(g)
           \/ /\ ex'.non_rt_groups = Append(ex.non_rt_groups, g)
              /\ ex'.rt_groups = ex.rt_groups
    BY DEF ClassifyGroup, Types, ExType
  <1>4. /\ \A h : Listed(h) => Listed(h)'
        /\ ex'.non_rt_groups = Append(ex.non_rt_groups, g) => Listed(g)'
    <2>1. ex.non_rt_groups \in Seq(Groups)
      BY DEF Types, ExType
    <2>2. /\ \A i \in DOMAIN ex.non_rt_groups :
                /\ i \in DOMAIN Append(ex.non_rt_groups, g)
                /\ Append(ex.non_rt_groups, g)[i] = ex.non_rt_groups[i]
          /\ Len(ex.non_rt_groups) + 1 \in DOMAIN Append(ex.non_rt_groups, g)
          /\ Append(ex.non_rt_groups, g)[Len(ex.non_rt_groups) + 1] = g
      BY <2>1
    <2> QED
      BY <1>3, <2>2 DEF Listed
  <1>5. FlagMeansInside' /\ Alone'
    BY <1>1, <1>2, <1>3 DEF Order, FlagMeansInside, Alone, Calm, Inside
  <1>6. Exported'
    BY <1>1, <1>2, <1>3 DEF Order, Exported, Calm
  <1>7. Accounted'
    <2>1. Kept(g)'
      <3>1. g \in app.groups
        BY <1>1 DEF Order, Accounted
      <3> QED
        BY <1>1, <1>3, <1>4, <3>1 DEF Kept, Alive
    <2> QED
      BY <1>1, <1>2, <1>3, <1>4, <2>1 DEF Order, Accounted, Kept
  <1>8. Added'
    <2> SUFFICES ASSUME Calm PROVE Added'
      BY <1>1 DEF Added, Calm
    <2>1. \A t \in Spinners : t # s => sp'[t].pc = "idle"
      BY <1>1, <1>2, NobodyElseInside DEF Inside
    <2> QED
      BY <1>2, <2>1 DEF Added, Serving
  <1>9. InTurn'
    <2> SUFFICES ASSUME destruction = "alive", ~hist.raced
                 PROVE  /\ hist.exports # 0
                        /\ hist.exports = 1 => AfterExport'
      BY <1>1 DEF Order, InTurn
    <2>1. hist.exports # 0
      BY <1>1 DEF Order, InTurn, BeforeExport
    <2>2. ASSUME hist.exports = 1 PROVE AfterExport'
      <3>1. /\ ex.rt_groups \subseteq sp[s].visited /\ g \notin ex.rt_groups
            /\ \A h \in ex.rt_groups : Timed(h)
        BY <1>1, <2>2 DEF Order, InTurn, AfterExport
      <3>2. g \in ex'.rt_groups => ~HasNonRt(g)
        BY <1>3, <3>1
      <3>3. ~HasNonRt(g) => Timed(g)
        BY DEF HasNonRt, Timed, Order, InTurn
      <3>4. \A h \in ex'.rt_groups : Timed(h)'
        BY <1>1, <1>3, <3>1, <3>2, <3>3 DEF Timed
      <3>5. ex'.rt_groups \subseteq sp'[s].visited
        BY <1>2, <1>3, <3>1
      <3>6. \A t \in Spinners : t # s => sp'[t].pc = "idle"
        BY <1>1, <1>2, NobodyElseInside DEF Order, Alone, Calm, Inside
      <3> QED
        BY <1>2, <3>4, <3>5, <3>6 DEF AfterExport
    <2> QED
      BY <2>1, <2>2
  <1> QED
    BY <1>5, <1>6, <1>7, <1>8, <1>9 DEF Order

LEMMA ClassifiedKeepsOrder ==
  ASSUME Types, Order, NEW s \in Spinners, ClassifyDone(s) PROVE Order'
  <1>1. /\ sp[s].pc = "classify"
        /\ hist.raced \/ ex.pending \subseteq sp[s].visited
        /\ sp' = [sp EXCEPT ![s].pc = "spawn", ![s].visited = {}]
        /\ UNCHANGED <<app, nr, registry, destruction, hist>>
    BY DEF ClassifyDone, LoopOver
  <1>2. /\ sp'[s].pc = "spawn" /\ sp'[s].visited = {}
        /\ \A t \in Spinners : t # s => sp'[t] = sp[t]
    BY <1>1 DEF Types, SpType, Locals
  <1>3. /\ ex'.pending = {}
        /\ UNCHANGED <<ex.spinning, ex.timing, ex.thread_groups, ex.workers,
                       ex.rt_groups, ex.non_rt_groups>>
    BY DEF ClassifyDone, Types, ExType
  <1>4. FlagMeansInside' /\ Alone'
    <2>1. \A t \in Spinners : Inside(t)' <=> Inside(t)
      BY <1>1, <1>2 DEF Inside
    <2> QED
      BY <1>1, <1>3, <2>1 DEF Order, FlagMeansInside, Alone, Calm
  <1>5. Exported' /\ Added'
    <2>1. Exported'
      <3> SUFFICES ASSUME Calm PROVE Exported'
        BY <1>1 DEF Exported, Calm
      <3>1. /\ ex.thread_groups = GroupsOf(ex.timing)
            /\ \A t \in Spinners : t # s => sp'[t].pc = "idle"
        BY <1>1, <1>2, NobodyElseInside DEF Order, Exported, Inside
      <3> QED
        BY <1>1, <1>2, <1>3, <3>1 DEF Order, Exported
    <2>2. Added'
      <3> SUFFICES ASSUME Calm PROVE Added'
        BY <1>1 DEF Added, Calm
      <3>1. \A t \in Spinners : t # s => sp'[t].pc = "idle"
        BY <1>1, <1>2, NobodyElseInside DEF Inside
      <3> QED
        BY <1>2, <3>1 DEF Added, Serving
    <2> QED
      BY <2>1, <2>2
  <1>6. Accounted'
    <2>1. \A g : Kept(g) => Kept(g)'
      BY <1>1, <1>3 DEF Kept, Listed
    <2>2. \A t \in Spinners : sp'[t].visited \subseteq sp[t].visited
      BY <1>2
    <2>3. /\ ex'.pending \subseteq app'.groups
          /\ \A t \in Spinners : sp'[t].pc # "classify" => sp'[t].visited = {}
      BY <1>1, <1>2, <1>3 DEF Order, Accounted
    <2>4. ASSUME destruction = "alive"
          PROVE  \A t \in Spinners : \A g \in sp'[t].visited : Kept(g)'
      BY <2>1, <2>2, <2>4 DEF Order, Accounted
    <2>5. ASSUME destruction = "alive", ~hist.raced, NEW g \in hist.accepted
          PROVE  Kept(g)'
      BY <1>1, <2>1, <2>5 DEF Order, Accounted
    <2> QED
      BY <1>1, <2>3, <2>4, <2>5 DEF Accounted
  <1>7. InTurn'
    <2> SUFFICES ASSUME destruction = "alive", ~hist.raced
                 PROVE  /\ hist.exports # 0
                        /\ hist.exports = 1 => AfterExport'
      BY <1>1 DEF Order, InTurn
    <2>1. hist.exports # 0
      BY <1>1 DEF Order, InTurn, BeforeExport
    <2>2. ASSUME hist.exports = 1 PROVE AfterExport'
      <3>1. \A h \in ex.rt_groups : Timed(h)
        BY <1>1, <2>2 DEF Order, InTurn, AfterExport
      <3>2. \A h \in ex'.rt_groups : Timed(h)'
        BY <1>1, <1>3, <3>1 DEF Timed
      <3>3. \A t \in Spinners : t # s => sp'[t].pc = "idle"
        BY <1>1, <1>2, NobodyElseInside DEF Order, Alone, Calm, Inside
      <3> QED
        BY <1>2, <3>2, <3>3 DEF AfterExport
    <2> QED
      BY <2>1, <2>2
  <1> QED
    BY <1>4, <1>5, <1>6, <1>7 DEF Order

\* spawn_worker_groups on its way: only what Added says of s changes.
LEMMA SpawningKeepsOrder ==
  ASSUME Types, Order, NEW s \in Spinners,
         sp[s].pc \in {"create", "adding"}, sp'[s].pc \in {"adding", "started"},
         sp'[s].visited = sp[s].visited, Others(s),
         SameEx, ex'.spinning = ex.spinning,
         UNCHANGED <<app, registry, destruction, hist>>,
         Calm => /\ sp'[s].pc = "adding" =>
                      \A g \in Groups : Listed(g) =>
                          \/ g \in nr'.groups[nr'.current]
                          \/ \E i \in DOMAIN sp'[s].left : sp'[s].left[i] = g
                 /\ sp'[s].pc = "started" =>
                      /\ nr'.thread[s] # "none" /\ nr'.runs[s] = nr'.current
                      /\ \A g \in Groups :
                            Listed(g) => g \in nr'.groups[nr'.current]
  PROVE  Order'
  <1>1. FlagMeansInside' /\ Alone'
    BY DEF Order, FlagMeansInside, Alone, Calm, Inside, Others
  <1>2. Exported'
    BY DEF Order, Exported, Calm, SameEx, Others
  <1>3. Accounted'
    BY DEF Order, Accounted, SameEx, Kept, Listed, Others
  <1>4. Added'
    <2> SUFFICES ASSUME Calm PROVE Added'
      BY DEF Added, Calm
    <2>1. \A t \in Spinners : t # s => sp'[t].pc = "idle"
      BY NobodyElseInside DEF Inside, Others
    <2>2. \A g : Listed(g)' <=> Listed(g)
      BY DEF Listed, SameEx
    <2> QED
      BY <2>1, <2>2 DEF Added, Serving
  <1>5. InTurn'
    BY DEF Order, InTurn, BeforeExport, AfterExport, Timed, SameEx, Others
  <1> QED
    BY <1>1, <1>2, <1>3, <1>4, <1>5 DEF Order

LEMMA CreatingKeepsOrder ==
  ASSUME Types, Order, NEW s \in Spinners, CreateNonRt(s) PROVE Order'
  <1>1. /\ sp[s].pc = "create"
        /\ UNCHANGED <<app, registry, ex, destruction, hist>>
        /\ sp' = [sp EXCEPT ![s].pc = "adding", ![s].left = ex.non_rt_groups]
    BY DEF CreateNonRt
  <1>2. /\ sp'[s].pc = "adding" /\ sp'[s].left = ex.non_rt_groups
        /\ sp'[s].visited = sp[s].visited /\ Others(s)
    BY <1>1 DEF Types, SpType, Locals, Others
  <1> QED
    BY <1>1, <1>2, SpawningKeepsOrder, ExStays DEF Listed

LEMMA AddingKeepsOrder ==
  ASSUME Types, Order, NEW s \in Spinners, AddGroup(s) PROVE Order'
  <1> DEFINE h == Head(sp[s].left)
             rest == Tail(sp[s].left)
  <1>1. /\ sp[s].pc = "adding" /\ sp[s].left # <<>>
        /\ UNCHANGED <<app, registry, ex, destruction, hist>>
        /\ sp' = [sp EXCEPT ![s].left = rest]
        /\ nr' = [nr EXCEPT !.groups[nr.current] = @ \cup {h}]
    BY DEF AddGroup
  <1>2. \A g \in Groups : (\E i \in DOMAIN sp[s].left : sp[s].left[i] = g) =>
                          g = h \/ \E i \in DOMAIN rest : rest[i] = g
    <2>1. sp[s].left \in Seq(Groups)
      BY DEF Types, SpType, Locals
    <2> SUFFICES ASSUME NEW i \in DOMAIN sp[s].left, i # 1
                 PROVE  \E j \in DOMAIN rest : rest[j] = sp[s].left[i]
      BY <2>1
    <2>2. i - 1 \in DOMAIN rest /\ rest[i - 1] = sp[s].left[i]
      BY <1>1, <2>1
    <2> QED
      BY <2>2
  <1> HIDE DEF h, rest
  <1>3. /\ sp'[s].pc = "adding" /\ sp'[s].left = rest
        /\ sp'[s].visited = sp[s].visited /\ Others(s)
    BY <1>1 DEF Types, SpType, Locals, Others
  <1>4. /\ nr'.current = nr.current
        /\ nr'.groups[nr.current] = nr.groups[nr.current] \cup {h}
    BY <1>1 DEF Types, NrType
  <1>5. Calm => \A g \in Groups : Listed(g) =>
                    \/ g \in nr.groups[nr.current]
                    \/ \E i \in DOMAIN sp[s].left : sp[s].left[i] = g
    BY <1>1 DEF Order, Added
  <1> QED
    BY <1>1, <1>2, <1>3, <1>4, <1>5, SpawningKeepsOrder, ExStays

LEMMA StartingKeepsOrder ==
  ASSUME Types, Order, NEW s \in Spinners, StartNonRt(s) PROVE Order'
  <1>1. /\ sp[s].pc = "adding" /\ sp[s].left = <<>> /\ Goto(s, "started")
        /\ UNCHANGED <<app, registry, ex, destruction, hist>>
        /\ nr' = [nr EXCEPT !.thread[s] = "started", !.runs[s] = nr.current]
    BY DEF StartNonRt
  <1>2. /\ sp'[s].pc = "started" /\ sp'[s].visited = sp[s].visited /\ Others(s)
    BY <1>1, Going
  <1>3. /\ nr'.thread[s] = "started" /\ nr'.runs[s] = nr.current
        /\ nr'.current = nr.current /\ nr'.groups = nr.groups
    BY <1>1 DEF Types, NrType
  <1>4. Calm => \A g \in Groups : Listed(g) => g \in nr.groups[nr.current]
    BY <1>1 DEF Order, Added
  <1> QED
    BY <1>1, <1>2, <1>3, <1>4, SpawningKeepsOrder, ExStays

LEMMA WorkersKeepOrder ==
  ASSUME Types, Order, NEW s \in Spinners, SpawnWorkers(s) PROVE Order'
  <1>1. /\ sp[s].pc = "workers" /\ Goto(s, "loop")
        /\ UNCHANGED <<app, nr, registry, destruction, hist>>
    BY DEF SpawnWorkers
  <1>2. /\ sp'[s].pc = "loop" /\ sp'[s].visited = sp[s].visited
        /\ \A t \in Spinners : t # s => sp'[t] = sp[t]
    BY <1>1, Going DEF Others
  <1>3. /\ ex'.workers = ex.workers \cup ex.thread_groups
        /\ UNCHANGED <<ex.spinning, ex.pending, ex.timing, ex.thread_groups,
                       ex.rt_groups, ex.non_rt_groups>>
    BY DEF SpawnWorkers, ThreadGroupsToBuild, Types, ExType
  <1>4. FlagMeansInside' /\ Alone'
    BY <1>1, <1>2, <1>3 DEF Order, FlagMeansInside, Alone, Calm, Inside
  <1>5. Exported' /\ Added'
    BY <1>1, <1>2, <1>3 DEF Order, Exported, Added, Calm, Listed, Serving
  <1>6. Accounted'
    BY <1>1, <1>2, <1>3 DEF Order, Accounted, Kept, Listed
  <1>7. InTurn'
    BY <1>1, <1>2, <1>3 DEF Order, InTurn, BeforeExport, AfterExport, Timed
  <1> QED
    BY <1>4, <1>5, <1>6, <1>7 DEF Order

\* An unlisted callback of a group that this executor serves came too late,
\* or there was a second export, or calls overlapped.
LEMMA NobodyInTimeIsUnlisted ==
  ASSUME Order, NEW s \in Spinners, NEW c \in Callbacks,
         sp[s].pc = "dispatch", Unlisted(c)
  PROVE  ~InTime(c)
  <1> SUFFICES ASSUME InTime(c) PROVE FALSE
    OBVIOUS
  <1>1. destruction = "alive"
    BY DEF Order, FlagMeansInside, Inside
  <1>2. AfterExport
    BY <1>1 DEF InTime, Order, InTurn
  <1> QED
    BY <1>2 DEF InTime, Unlisted, AfterExport, Timed

LEMMA DispatchingKeepsOrder ==
  ASSUME Types, Order, NEW s \in Spinners, NEW c \in Callbacks,
         DispatchUnlisted(s, c) \/ DispatchUnknown(s, c)
  PROVE  Order'
  <1>1. CASE DispatchUnlisted(s, c)
    <2>1. /\ sp[s].pc = "dispatch" /\ Unlisted(c)
          /\ UNCHANGED <<app, nr, registry, destruction>>
          /\ hist' = [hist EXCEPT !.unexpected = @ \/ InTime(c)]
      BY <1>1 DEF DispatchUnlisted
    <2>2. SameHist
      <3>1. hist.unexpected = FALSE /\ (hist.unexpected \/ InTime(c)) = FALSE
        BY <2>1, NobodyInTimeIsUnlisted DEF Order, InTurn
      <3> QED
        BY <2>1, <3>1, HistStays
    <2>3. CASE Goto(s, "loop") /\ UNCHANGED ex
      BY <2>1, <2>2, <2>3, MovingKeepsOrder, ExStays
    <2>4. CASE Leave(s) /\ ex' = [ex EXCEPT !.spinning = FALSE]
      <3>1. ex'.spinning = FALSE
        BY <2>4 DEF Types, ExType
      <3> QED
        BY <2>1, <2>2, <2>4, <3>1, LeavingKeepsOrder, ExStays DEF Inside
    <2> QED
      BY <1>1, <2>3, <2>4 DEF DispatchUnlisted, ScopeExit
  <1>2. CASE DispatchUnknown(s, c)
    <2>1. sp[s].pc = "dispatch" /\ LeaveWithoutChange(s)
      BY <1>2 DEF DispatchUnknown
    <2>2. ex'.spinning = FALSE
      BY <2>1 DEF LeaveWithoutChange, ScopeExit, Types, ExType
    <2> QED
      BY <2>1, <2>2, LeavingKeepsOrder, ExStays, HistStays
         DEF LeaveWithoutChange, Inside
  <1> QED
    BY <1>1, <1>2

\* Every other way out of spin.
LEMMA FailingKeepsOrder ==
  ASSUME Types, Order, NEW s \in Spinners, LeaveWithoutChange(s),
         sp[s].pc \in {"allocate", "classify", "spawn", "adding", "loop"}
  PROVE  Order'
  <1>1. ex'.spinning = FALSE
    BY DEF LeaveWithoutChange, ScopeExit, Types, ExType
  <1> QED
    BY <1>1, LeavingKeepsOrder, ExStays, HistStays
       DEF LeaveWithoutChange, Inside

LEMMA LoadKeepsOrder ==
  ASSUME Types, Order, NEW s \in Spinners, Load(s) PROVE Order'
  BY BuildingKeepsOrder, ExportingKeepsOrder, FailingKeepsOrder,
     SwappingKeepsOrder DEF Load, AllocationThrows

LEMMA ClassifyKeepsOrder ==
  ASSUME Types, Order, NEW s \in Spinners, Classify(s) PROVE Order'
  BY ClassifyingKeepsOrder, FailingKeepsOrder, ClassifiedKeepsOrder
     DEF Classify, ClassifyThrows, NextPending

LEMMA SpawnKeepsOrder ==
  ASSUME Types, Order, NEW s \in Spinners, Spawn(s) PROVE Order'
  <1>1. CASE SpawnRefused(s) \/ SpawnThrows(s)
    BY <1>1, FailingKeepsOrder DEF SpawnRefused, SpawnThrows
  <1>2. CASE SpawnAllowed(s)
    BY <1>2, MovingKeepsOrder, ExStays, HistStays DEF SpawnAllowed
  <1>3. CASE SetSpawned(s)
    <2>1. ex'.spinning = ex.spinning
      BY <1>3 DEF SetSpawned, Types, ExType
    <2> QED
      BY <1>3, <2>1, MovingKeepsOrder, ExStays, HistStays DEF SetSpawned
  <1> QED
    BY <1>1, <1>2, <1>3, CreatingKeepsOrder, AddingKeepsOrder,
       StartingKeepsOrder, WorkersKeepOrder DEF Spawn

LEMMA LoopKeepsOrder ==
  ASSUME Types, Order, NEW s \in Spinners, Loop(s) PROVE Order'
  <1>1. CASE SpinLoop(s)
    BY <1>1, MovingKeepsOrder, ExStays, HistStays DEF SpinLoop
  <1>2. CASE Dispatch(s)
    BY <1>2, MovingKeepsOrder, ExStays, HistStays DEF Dispatch
  <1>3. CASE SpinLoopEnds(s)
    BY <1>3, FailingKeepsOrder DEF SpinLoopEnds
  <1> QED
    BY <1>1, <1>2, <1>3, DispatchingKeepsOrder DEF Loop

\* wait_for_work adopts no group that a classification has been through: it is
\* executed already, or by the executor for the listed groups.
LEMMA WaitingKeepsOrder ==
  ASSUME Types, Marked, Order, NEW s \in Spinners, WaitForWork(s) PROVE Order'
  <1> DEFINE adopted == {g \in Groups : /\ Alive(g) /\ CanAdd(g)
                                        /\ NodeOf[g] \in ex.weak_nodes}
  <1>1. /\ sp[s].pc = "wait" /\ Goto(s, "dispatch")
        /\ ex' = [ex EXCEPT !.rt_groups = @ \cup adopted, !.woken = FALSE]
        /\ UNCHANGED <<app, nr, registry, destruction, hist>>
    BY DEF WaitForWork
  <1>2. /\ sp'[s].pc = "dispatch" /\ sp'[s].visited = sp[s].visited
        /\ \A t \in Spinners : t # s => sp'[t] = sp[t]
    BY <1>1, Going DEF Others
  <1>3. \A g \in adopted : /\ g \in Groups /\ associated[g] = "none"
                           /\ NodeOf[g] \notin app.gone
    BY DEF CanAdd, Alive
  <1> HIDE DEF adopted
  <1>4. /\ ex'.rt_groups = ex.rt_groups \cup adopted
        /\ UNCHANGED <<ex.spinning, ex.pending, ex.timing, ex.thread_groups,
                       ex.workers, ex.non_rt_groups>>
    BY <1>1 DEF Types, ExType
  <1>5. FlagMeansInside' /\ Alone'
    BY <1>1, <1>2, <1>4 DEF Order, FlagMeansInside, Alone, Calm, Inside
  <1>6. Exported' /\ Added'
    BY <1>1, <1>2, <1>4 DEF Order, Exported, Added, Calm, Listed, Serving
  <1>7. Accounted'
    BY <1>1, <1>2, <1>4 DEF Order, Accounted, Kept, Listed
  <1>8. InTurn'
    <2> SUFFICES ASSUME destruction = "alive", ~hist.raced
                 PROVE  /\ hist.exports # 0
                        /\ hist.exports = 1 => AfterExport'
      BY <1>1 DEF Order, InTurn
    <2>1. hist.exports # 0
      BY <1>1 DEF Order, InTurn, BeforeExport
    <2>2. Calm
      BY DEF Order, Alone, Calm
    <2>3. \A t \in Spinners : t # s => sp'[t].pc = "idle"
      BY <1>1, <1>2, <2>2, NobodyElseInside DEF Inside
    <2>4. \A t \in Spinners : sp'[t].visited = {}
      BY <1>1, <1>2, <2>3 DEF Order, Accounted
    <2>5. \A g \in Groups : Listed(g) => associated[g] = "non_rt"
      BY <1>1, <2>2 DEF Order, Added, Serving, Marked, Types, NrType
    <2>6. \A g \in adopted : g \notin hist.accepted \ ex.pending
      BY <1>3, <2>5 DEF Order, Accounted, Kept, Marked
    <2>7. ASSUME hist.exports = 1 PROVE AfterExport'
      <3>1. \A g : Timed(g) => Timed(g)'
        BY <1>1, <1>4 DEF Timed
      <3>2. \A g \in ex.rt_groups : g \in hist.accepted \ ex.pending => Timed(g)
        BY <2>7 DEF Order, InTurn, AfterExport
      <3> QED
        BY <1>1, <1>2, <1>4, <2>3, <2>4, <2>6, <3>1, <3>2 DEF AfterExport
    <2> QED
      BY <2>1, <2>7
  <1> QED
    BY <1>5, <1>6, <1>7, <1>8 DEF Order

LEMMA TeardownKeepsOrder ==
  ASSUME Types, Order, Teardown PROVE Order'
  <1>1. ASSUME NEW s \in Spinners, NonRtSpin(s) PROVE Order'
    <2>1. /\ nr'.current = nr.current /\ nr'.runs = nr.runs
          /\ nr'.groups = nr.groups
          /\ \A t \in Spinners : nr.thread[t] # "none" => nr'.thread[t] # "none"
      BY <1>1 DEF NonRtSpin, Types, NrType
    <2> QED
      BY <1>1, <2>1, BystanderKeepsOrder, ExStays, HistStays
         DEF NonRtSpin, MoreApp
  <1>2. ASSUME NEW s \in Spinners, NonRtReturn(s) PROVE Order'
    <2> DEFINE k == nr.runs[s]
               dropped == IF k = nr.current THEN {}
                          ELSE LastHeldGroups(k, Spinners \ {s})
    <2>1. /\ nr' = [nr EXCEPT !.thread[s] = "ended", !.spinning[k] = FALSE,
                              !.groups[k] = @ \ dropped]
          /\ k \in Executors /\ nr.current \in Executors
          /\ k = nr.current => dropped = {}
      BY <1>2 DEF NonRtReturn, Types, NrType
    <2> HIDE DEF k, dropped
    <2>2. /\ nr'.current = nr.current /\ nr'.runs = nr.runs
          /\ nr.groups[nr.current] \subseteq nr'.groups[nr.current]
          /\ \A t \in Spinners : nr.thread[t] # "none" => nr'.thread[t] # "none"
      BY <2>1 DEF Types, NrType
    <2> QED
      BY <1>2, <2>2, BystanderKeepsOrder, ExStays, HistStays
         DEF NonRtReturn, MoreApp
  <1>3. ASSUME destruction' # "alive", UNCHANGED <<app, hist>>,
               ex'.spinning => ex.spinning, ex'.pending \in {{}, ex.pending},
               \A s \in Spinners : sp'[s].pc = "idle" /\ sp'[s].visited = {},
               \/ destruction # "alive"
               \/ ex'.spinning = FALSE
        PROVE  Order'
    BY <1>3 DEF Order, FlagMeansInside, Alone, Calm, Exported, Accounted,
       Added, InTurn, Inside
  <1>4. ASSUME NEW s \in Spinners, NonRtSpinThrows(s) PROVE Order'
    <2>1. ex'.spinning = FALSE /\ ex'.pending = ex.pending
      BY <1>4 DEF NonRtSpinThrows, Types, ExType
    <2> QED
      BY <1>3, <1>4, <2>1 DEF NonRtSpinThrows, Idle
  <1>5. CASE JoinNonRt \/ DestroyMembers
    <2>1. /\ destruction # "alive" /\ destruction' # "alive"
          /\ UNCHANGED <<app, sp, hist>>
      BY <1>5 DEF JoinNonRt, DestroyMembers
    <2>2. ex'.spinning = ex.spinning /\ ex'.pending \in {{}, ex.pending}
      BY <1>5 DEF JoinNonRt, DestroyMembers, Types, ExType
    <2>3. \A s \in Spinners : sp'[s].pc = "idle" /\ sp'[s].visited = {}
      BY <2>1 DEF Order, FlagMeansInside, Accounted, Inside
    <2> QED
      BY <1>3, <2>1, <2>2, <2>3
  <1> QED
    BY <1>1, <1>2, <1>4, <1>5 DEF Teardown

LEMMA NextKeepsOrder == Types /\ Marked /\ Order /\ [Next]_vars => Order'
  <1> SUFFICES ASSUME Types, Marked, Order, [Next]_vars PROVE Order'
    OBVIOUS
  <1>1. CASE UNCHANGED vars
    BY <1>1, BystanderKeepsOrder, ExStays, HistStays DEF vars, MoreApp
  <1> QED
    BY <1>1, ApplicationKeepsOrder, EnteringKeepsOrder, LoadKeepsOrder,
       ClassifyKeepsOrder, SpawnKeepsOrder, LoopKeepsOrder, WaitingKeepsOrder,
       TeardownKeepsOrder DEF Next, Finished

LEMMA OrderIsKept == Spec => [](Types /\ Order)
  BY InitTypes, NextTypes, InitMarks, NextMarks, InitOrder, NextKeepsOrder, PTL
     DEF Spec

\* As long as calls do not overlap, no accepted group is forgotten: it is
\* pending, or one of the two executors has it, or it is still listed and
\* nobody is past spawn_worker_groups without it, or its node is gone; for any
\* number of nodes, groups and calls of spin, failing ones included.
THEOREM AcceptedGroupsStay == Spec => []NoGroupIsLost
  <1>1. Types /\ Order => NoGroupIsLost
    <2> SUFFICES ASSUME Types, Order, destruction = "alive", ~hist.raced,
                        NEW g \in hist.accepted,
                        ~(g \in ex.pending \cup ex.rt_groups),
                        NodeOf[g] \notin app.gone
                 PROVE  \/ HasThread(g)
                        \/ /\ \A s \in Spinners : ~Serving(s)
                           /\ Listed(g)
      BY DEF NoGroupIsLost, Listed
    <2>1. Listed(g)
      BY DEF Order, Accounted, Kept
    <2>2. g \in Groups
      BY <2>1 DEF Listed, Types, ExType
    <2>3. ASSUME NEW s \in Spinners, Serving(s) PROVE HasThread(g)
      <3>1. Calm
        BY DEF Order, Alone, Calm
      <3> QED
        BY <2>1, <2>2, <2>3, <3>1 DEF Order, Added, HasThread
    <2> QED
      BY <2>1, <2>3
  <1> QED
    BY OrderIsKept, <1>1, PTL

\* populate_ready_queues never throws "Unknown thread group id" as long as no
\* two calls of spin overlap: the thread groups of the timing information all
\* have workers while anybody dispatches, whatever calls failed before and
\* however often the information was exported.
THEOREM ThreadGroupsAreKnown == Spec => []ListedCallbacksHaveWorkers
  <1>1. Order => ListedCallbacksHaveWorkers
    <2> SUFFICES ASSUME Order, ~hist.overlapped, NEW s \in Spinners,
                        sp[s].pc \in {"loop", "wait", "dispatch"}
                 PROVE  GroupsOf(ex.timing) \subseteq ex.workers
      BY DEF ListedCallbacksHaveWorkers
    <2>1. Calm
      BY DEF Order, FlagMeansInside, Calm, Inside
    <2>2. \A t \in Spinners : sp[t].pc # "groups"
      BY <2>1, NobodyElseInside DEF Inside
    <2> QED
      BY <2>1, <2>2 DEF Order, Exported
  <1> QED
    BY OrderIsKept, <1>1, PTL

\* With a single export and calls that do not overlap, populate_ready_queues
\* drops nothing that existed at the export in a classified group.
THEOREM InTimeIsNeverDropped == Spec => []OnlyLatecomersAreDropped
  <1>1. Order => OnlyLatecomersAreDropped
    BY DEF Order, InTurn, OnlyLatecomersAreDropped
  <1> QED
    BY OrderIsKept, <1>1, PTL

\* The destructor meets worker groups that have been told to stop, however
\* spin was left.
THEOREM WorkersHaveStopped == Spec => []WorkersAreStoppedBeforeDestruction
  <1>1. Order => WorkersAreStoppedBeforeDestruction
    BY DEF Order, FlagMeansInside, WorkersAreStoppedBeforeDestruction, Running
  <1> QED
    BY OrderIsKept, <1>1, PTL
=============================================================================
