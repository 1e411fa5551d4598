------------------------ MODULE MC_PreemptiveExecutor ------------------------
(***************************************************************************)
(* An instance of PreemptiveExecutor for TLC.                              *)
(***************************************************************************)
EXTENDS PreemptiveExecutor, TLC

CONSTANTS n, gr, gl, rt, late

\* A node with a group gr that exists from the beginning and a group gl that
\* is created at any time.
MC_NodeOf  == gr :> n @@ gl :> n

\* Besides its first callback, gr gets a second one at any time, which makes it
\* a mixed group if it is not registered in time; gl is a group that is not
\* real-time.
MC_GroupOf == rt :> gr @@ late :> gr
MC_CallbackName  == rt :> "a" @@ late :> "b"
MC_ThreadGroupOf == "a" :> 1 @@ "b" :> 2
=============================================================================
