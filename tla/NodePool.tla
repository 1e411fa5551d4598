------------------------------ MODULE NodePool ------------------------------
(***************************************************************************)
(* What a free list promises: a node is held by one thread at a time, and  *)
(* a thread takes nodes that nobody holds.                                 *)
(***************************************************************************)
CONSTANTS Threads, Nodes

VARIABLE held  \* the nodes each thread holds

HeldBySomeone == UNION {held[t] : t \in Threads}

Exclusive == \A t, u \in Threads : t # u => held[t] \cap held[u] = {}

Init == held \in [Threads -> SUBSET Nodes] /\ Exclusive

Take(t) ==
    \E n \in Nodes \ HeldBySomeone :
        held' = [held EXCEPT ![t] = @ \cup {n}]

GiveBack(t) ==
    \E n \in held[t] : held' = [held EXCEPT ![t] = @ \ {n}]

Next == \E t \in Threads : Take(t) \/ GiveBack(t)

Spec == Init /\ [][Next]_held
=============================================================================
