----------------------------- MODULE FifoQueue ------------------------------
(***************************************************************************)
(* What the ready queue of a worker group promises: batches are enqueued   *)
(* as a whole, element i is handed to exactly one consumer, elements are   *)
(* claimed in the order they were enqueued in, and what a consumer holds   *)
(* is the element it claimed.  A try_dequeue that fails changes nothing.   *)
(***************************************************************************)
EXTENDS Naturals

CONSTANTS Consumers, None

VARIABLES
    tail,   \* number of elements enqueued
    head,   \* number of elements claimed
    held    \* the element each consumer has claimed and not yet returned with

vars == <<tail, head, held>>

Init == tail = 0 /\ head = 0 /\ held = [c \in Consumers |-> None]

Enqueue ==
    /\ tail' \in Nat /\ tail' > tail
    /\ UNCHANGED <<head, held>>

Claim(c) ==
    /\ held[c] = None /\ head < tail
    /\ held' = [held EXCEPT ![c] = head]
    /\ head' = head + 1
    /\ UNCHANGED tail

Return(c) ==
    /\ held[c] # None
    /\ held' = [held EXCEPT ![c] = None]
    /\ UNCHANGED <<tail, head>>

Next == Enqueue \/ \E c \in Consumers : Claim(c) \/ Return(c)

Spec == Init /\ [][Next]_vars

-----------------------------------------------------------------------------
\* The values the variables range over.
TypeOK == tail \in Nat /\ head \in Nat /\ held \in [Consumers -> Nat \cup {None}]

\* Elements are claimed after they were enqueued, and no two consumers hold
\* the same element.
EachElementOnce ==
    /\ head <= tail
    /\ \A c \in Consumers : held[c] # None => held[c] < head
    /\ \A c, d \in Consumers : c # d /\ held[c] # None => held[c] # held[d]
=============================================================================
