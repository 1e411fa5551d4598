------------------------- MODULE MC_RTMemoryStrategy -------------------------
(***************************************************************************)
(* Two groups of entities for model checking RTMemoryStrategy.             *)
(***************************************************************************)
EXTENDS RTMemoryStrategy

CONSTANTS M, R,                \* a mutually exclusive and a reentrant group
          NodeM, NodeR,
          sub1, sub2, timer, service, waitable

Nodes == [g \in {M, R} |-> IF g = M THEN NodeM ELSE NodeR]

\* The waitable waits for a subscription and a guard condition of its own.
WaitableNeeds ==
    [w \in {e \in Entities : e = waitable} |->
       [k \in WaitKinds |-> IF k \in {"subscription", "guard_condition"} THEN 1
                                                                       ELSE 0]]

\* Both groups have a subscription, and the waitable comes between them.
BulkSeq   == <<sub1, waitable, sub2, timer>>
BulkKind  == [e \in {sub1, waitable, sub2, timer} |->
                CASE e = waitable -> "waitable" [] e = timer -> "timer"
                  [] OTHER -> "subscription"]
BulkGroup == [e \in {sub1, waitable, sub2, timer} |->
                IF e \in {sub1, waitable} THEN R ELSE M]

\* The mutually exclusive group has entities of two kinds.
SingleSeq   == <<sub1, service, waitable, timer>>
SingleKind  == [e \in {sub1, service, waitable, timer} |->
                  CASE e = sub1 -> "subscription" [] e = service -> "service"
                    [] e = waitable -> "waitable" [] OTHER -> "timer"]
SingleGroup == [e \in {sub1, service, waitable, timer} |->
                  IF e \in {sub1, service} THEN M ELSE R]
=============================================================================
