------------------------ MODULE MC_BundledExecutable ------------------------
(***************************************************************************)
(* Small instances of BundledExecutable.                                   *)
(***************************************************************************)
EXTENDS BundledExecutable, TLC

CONSTANTS s1, s2, t1, pool, mutex, w1, w2, w3

\* A subscription that loans and a timer share a pool of two workers; a
\* subscription that does not loan belongs to a mutex group.
MC_TgidOf   == s1 :> pool @@ t1 :> pool @@ s2 :> mutex
MC_WorksFor == w1 :> pool @@ w2 :> pool @@ w3 :> mutex
MC_MaxArrivals == s1 :> 1 @@ s2 :> 2 @@ t1 :> 1
=============================================================================
