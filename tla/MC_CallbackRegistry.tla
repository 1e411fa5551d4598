------------------------- MODULE MC_CallbackRegistry -------------------------
(***************************************************************************)
(* Inputs for model checking CallbackRegistry.                             *)
(***************************************************************************)
EXTENDS CallbackRegistry

CONSTANTS M, N, R    \* callback groups: two mutually exclusive, one reentrant

Chain(s, d, p) == [callbacks |-> s, deadline |-> d, period |-> p]

\* Every entity is registered under its own name.
Input(chains, group) ==
    [chains |-> chains, name |-> [e \in DOMAIN group |-> e], group |-> group]

\* Two chains over at most three callbacks, without a repetition inside one.
Shapes == {s \in UNION {[1..n -> {"a", "b", "c"}] : n \in 1..3} :
             \A i, j \in DOMAIN s : s[i] = s[j] => i = j}

TwoChains ==
    {Input(<<Chain(s, 2, 1), Chain(t, 4, 1)>>, g) :
       s \in Shapes, t \in Shapes, g \in [{"a", "b", "c"} -> {M, R}]}

\* Two chains that meet in two consecutive callbacks, in all combinations of
\* three callback groups.
Converging ==
    {Input(<<Chain(<<"r", "a", "c">>, 5, 2), Chain(<<"s", "a", "c">>, 3, 2)>>, g) :
       g \in [{"r", "s", "a", "c"} -> {M, N, R}]}

\* Thread groups that are reached over two ways: two callbacks of one mutually
\* exclusive group have different predecessors and a common successor.
Rejoining ==
    {Input(<<Chain(<<"r", "a">>, 4, 2), Chain(<<"r", "a">>, 6, 2),
             Chain(<<"s", "b", "x">>, 9, 3), Chain(<<"s", "b", "x">>, 3, 3)>>,
           [cb \in {"r", "s", "a", "b", "x"} |->
              IF cb \in shared THEN M ELSE IF cb = "s" THEN g ELSE R]) :
       g \in {N, R},
       shared \in {{"a", "b"}, {"a", "b", "x"}, {"r", "b"}, {"a", "x"}}}

\* A callback of a chain that was not registered, a registered one that is in
\* no chain, two entities with one name, a chain that closes on itself.
Irregular ==
    LET lone(chains, names) ==
          [chains |-> chains, name |-> names, group |-> [e \in DOMAIN names |-> R]]
    IN {lone(<<Chain(<<"a", "b">>, 2, 1)>>, [e \in {"a"} |-> e]),
        lone(<<Chain(<<"a", "b">>, 2, 1)>>, [e \in {"a", "b", "z"} |-> e]),
        lone(<<Chain(<<"a", "b">>, 2, 1)>>,
             [e \in {"a", "b", "z"} |-> IF e = "z" THEN "b" ELSE e]),
        lone(<<Chain(<<"a", "b", "a">>, 2, 1)>>, [e \in {"a", "b"} |-> e])}

\* A callback that is a chain of its own and joins another one.
LoneAndJoining ==
    {Input(<<Chain(<<"a">>, 2, 1), Chain(<<"a", "c">>, 4, 1),
             Chain(<<"b", "c">>, 3, 1)>>, g) : g \in [{"a", "b", "c"} -> {M, R}]}

\* Two callbacks with the same two successors.
Crossing ==
    {Input(<<Chain(<<"a", "c">>, 4, 2), Chain(<<"a", "d">>, 6, 2),
             Chain(<<"b", "c">>, 3, 1), Chain(<<"b", "d">>, 3, 1)>>,
           [cb \in {"a", "b", "c", "d"} |-> IF cb \in shared THEN M ELSE R]) :
       shared \in {{}, {"a", "d"}, {"c", "d"}}}

AllInputs == TwoChains \cup Converging \cup Rejoining \cup Irregular
               \cup LoneAndJoining \cup Crossing

-----------------------------------------------------------------------------
\* Two chains that meet in two callbacks of one mutually exclusive group.
MeetInMutexGroup ==
    {Input(<<Chain(<<"r", "a", "c">>, 4, 2), Chain(<<"s", "a", "c">>, 2, 2)>>,
           [cb \in {"r", "s", "a", "c"} |-> IF cb \in {"a", "c"} THEN M ELSE R])}
=============================================================================
