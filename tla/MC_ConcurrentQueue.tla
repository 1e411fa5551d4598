------------------------- MODULE MC_ConcurrentQueue -------------------------
(***************************************************************************)
(* The queue with interchangeable consumers.  No definition of             *)
(* ConcurrentQueue or FifoQueue tells one consumer from another, and every *)
(* property of the run is an invariant or an action property, so the       *)
(* symmetry is sound.                                                      *)
(***************************************************************************)
EXTENDS ConcurrentQueue, TLC

\* Workers with permits get as far as growing a block index whose ring has
\* turned; consumers without permits, which reach more states, not quite.
MC_MaxIndex == TRUE :> 7 @@ FALSE :> 6

ConsumerSymmetry == Permutations(Consumers)
=============================================================================
