------------------------- MODULE MC_ChainYamlParser -------------------------
(***************************************************************************)
(* Documents of up to two chains, the last one possibly with a fault.      *)
(***************************************************************************)
EXTENDS ChainYamlParser

CONSTANTS chainA, chainB

Scalar(v) == Node("scalar", v)
Callbacks == Node("sequence", <<Scalar(Text)>>)
ChainNode(c, d, p) ==
    Node("map", [callbacks |-> c, deadline |-> d, period |-> p])
GoodNode(d) == ChainNode(Callbacks, Scalar(d), Scalar(1))

BadNumbers == {Undefined, Null, Scalar(Text), Scalar(-1), Scalar(MaxUint32 + 1)}
BadCallbacks == {Undefined, Scalar(Text), Node("sequence", <<>>),
                 Node("sequence", <<Scalar(Text), Null>>)}

BadNodes ==
    {Null} \cup {ChainNode(c, Scalar(1), Scalar(1)) : c \in BadCallbacks}
           \cup {ChainNode(Callbacks, n, Scalar(1)) : n \in BadNumbers}
           \cup {ChainNode(Callbacks, Scalar(1), n) : n \in BadNumbers}

GoodEntries ==
    [name : {chainA, chainB}, node : {GoodNode(0), GoodNode(MaxUint32)}]
EntrySet ==
    GoodEntries \cup [name : {chainA}, node : BadNodes]
      \cup [name : {EmptyName, NoString}, node : {GoodNode(1)}]

Document(chains) == Node("map", chains)

MCDocuments ==
    {Null, Scalar(Text), Document(Undefined), Document(Scalar(Text)),
     Document(Node("map", <<>>))}
      \cup {Document(Node("map", <<e>>)) : e \in EntrySet}
      \cup {Document(Node("map", <<e, f>>)) :
                e \in GoodEntries, f \in EntrySet}
=============================================================================
