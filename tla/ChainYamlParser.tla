--------------------------- MODULE ChainYamlParser ---------------------------
(***************************************************************************)
(* ChainYamlParser: load_yaml_file reads a document, parse checks it and   *)
(* stores its chains one by one in user_chains, to which the executor      *)
(* keeps a reference until the registry is built from it.  The application *)
(* calls them in any order, and goes on after an error if it likes.        *)
(*                                                                         *)
(* A YAML node is a record of its type and value; yaml-cpp is external.    *)
(***************************************************************************)
EXTENDS Integers, Sequences

CONSTANTS
    Documents,    \* the files there are, as nodes
    MaxUint32,    \* the largest unsigned number of 32 bits
    EmptyName,    \* the chain name ""
    NoString,     \* a key of the map of chains that is not a scalar
    Text,         \* a scalar that is not a number, and is not empty
    Undefined     \* what a map holds under a key that it does not have

ASSUME ChainYamlParserAssumption ==
    MaxUint32 \in Nat /\ Text \notin Int /\ Undefined \notin Int

VARIABLES
    yaml_node,
    user_chains,  \* a function from the names stored so far
    at,           \* the entry that parse looks at, or 0 outside of its loop
    result,       \* of the last call: "none", "true", "false", "threw",
                  \* or "not loaded"
    registered,   \* what the registry was built from, or Undefined
    before        \* history: user_chains when parse was called

parserVars == <<yaml_node, user_chains, at, result, registered, before>>

Node(type, value) == [type |-> type, value |-> value]
Null == Node("null", Undefined)

ParserInit ==
    /\ yaml_node = Null
    /\ user_chains = [n \in {} |-> Undefined]
    /\ at = 0
    /\ result = "none"
    /\ registered = Undefined
    /\ before = user_chains

-----------------------------------------------------------------------------
(***************************************************************************)
(* What the checks of parse accept                                         *)
(***************************************************************************)

Is(node, type) == node # Undefined /\ node.type = type

\* yaml-cpp iterates over a map in the order of the document.
ASSUME DocumentsAssumption ==
    \A d \in Documents : Is(d, "map") /\ Is(d.value, "map") =>
        d.value.value \in Seq({d.value.value[i] : i \in DOMAIN d.value.value})

\* A scalar as an unsigned number of 32 bits: others are not converted.
AsUint32(node) == node.value \in 0..MaxUint32

\* A sequence as strings: every element is a scalar.
AsStrings(node) == \A i \in DOMAIN node.value : Is(node.value[i], "scalar")

\* Mutant: the callbacks may be an empty sequence.
AnySequence(entry) == Is(entry.callbacks, "sequence")

HasCallbacks(entry) ==
    Is(entry.callbacks, "sequence") /\ Len(entry.callbacks.value) > 0

Converts(entry) ==
    /\ AsStrings(entry.callbacks)
    /\ AsUint32(entry.deadline) /\ AsUint32(entry.period)

\* An entry of the map of chains is [name, node]; the node of a chain is a map
\* with the keys callbacks, deadline and period.
Valid(entry) ==
    /\ entry.name \notin {NoString, EmptyName}
    /\ Is(entry.node, "map")
    /\ HasCallbacks(entry.node.value)
    /\ Is(entry.node.value.deadline, "scalar")
    /\ Is(entry.node.value.period, "scalar")
    /\ Converts(entry.node.value)

userChain(entry) ==
    [callbacks |-> entry.node.value.callbacks.value,
     deadline |-> entry.node.value.deadline.value,
     period |-> entry.node.value.period.value]

-----------------------------------------------------------------------------
(***************************************************************************)
(* Operations                                                              *)
(***************************************************************************)

LoadYamlFile ==
    /\ at = 0
    /\ yaml_node' \in Documents /\ result' = "none"
    /\ UNCHANGED <<user_chains, at, registered, before>>

\* There is no such file, or it is no YAML.
LoadThrows ==
    /\ at = 0
    /\ result' = "not loaded"
    /\ UNCHANGED <<yaml_node, user_chains, at, registered, before>>

HasChains == Is(yaml_node, "map") /\ Is(yaml_node.value, "map")

\* The document has no map of chains.
ParseRefuses ==
    /\ at = 0 /\ ~HasChains
    /\ result' = "false"
    /\ UNCHANGED <<yaml_node, user_chains, at, registered, before>>

ParseBegins ==
    /\ at = 0 /\ HasChains
    /\ at' = 1 /\ result' = "none" /\ before' = user_chains
    /\ UNCHANGED <<yaml_node, user_chains, registered>>

\* The entries of the map of chains, in the order of the document.
Entries == yaml_node.value.value
Entry == Entries[at]

\* Mutant: a name that is there already is not stored again.
KeepOld(chains, name, chain) ==
    IF name \in DOMAIN chains THEN chains
    ELSE [n \in DOMAIN chains \cup {name} |->
            IF n = name THEN chain ELSE chains[n]]

Stored(chains, name, chain) ==
    [n \in DOMAIN chains \cup {name} |-> IF n = name THEN chain ELSE chains[n]]

StoreChain ==
    /\ at \in DOMAIN Entries /\ Valid(Entry)
    /\ user_chains' = Stored(user_chains, Entry.name, userChain(Entry))
    /\ at' = at + 1
    /\ UNCHANGED <<yaml_node, result, registered, before>>

\* The loop ends with an exception; what it stored stays.
ChainThrows ==
    /\ at \in DOMAIN Entries /\ ~Valid(Entry)
    /\ at' = 0 /\ result' = "threw"
    /\ UNCHANGED <<yaml_node, user_chains, registered, before>>

Verdict == IF DOMAIN user_chains = {} THEN "false" ELSE "true"

ParseEnds ==
    /\ at > Len(Entries)
    /\ at' = 0 /\ result' = Verdict
    /\ UNCHANGED <<yaml_node, user_chains, registered, before>>

\* The first spin builds the registry from the map that the executor refers to,
\* whatever the parser has made of it since the executor was constructed.
BuildRegistry ==
    /\ at = 0 /\ registered = Undefined
    /\ registered' = user_chains
    /\ UNCHANGED <<yaml_node, user_chains, at, result, before>>

ParserNext ==
    \/ LoadYamlFile \/ LoadThrows \/ ParseRefuses \/ ParseBegins
    \/ at > 0 /\ (StoreChain \/ ChainThrows \/ ParseEnds)
    \/ BuildRegistry

ParserSpec == ParserInit /\ [][ParserNext]_parserVars

-----------------------------------------------------------------------------
(***************************************************************************)
(* Properties                                                              *)
(***************************************************************************)

\* What the registry relies on without checking it (callbacks[0] in its
\* constructor): every chain has a name and a callback, whatever was loaded,
\* rejected halfway and parsed again before.
RegistryGetsValidChains ==
    registered # Undefined =>
        \A n \in DOMAIN registered :
            n # EmptyName /\ Len(registered[n].callbacks) > 0

\* The number of entries before the first one that is not valid.
ValidPrefix == CHOOSE n \in 0..Len(Entries) :
    /\ \A i \in 1..n : Valid(Entries[i])
    /\ n < Len(Entries) => ~Valid(Entries[n + 1])

\* When parse is over, user_chains is what it was when parse was called, with
\* the chains of the document up to the first invalid one put into it, each as
\* its last entry says, and nothing else; parse throws if there is an invalid
\* one, and else refuses only if user_chains is empty: a document without a
\* chain is accepted if an earlier one had some.  (What becomes of an empty
\* name is left open: see the README.)
StoredUpToTheFault ==
    /\ result \in {"true", "false", "threw"} /\ HasChains
    /\ \A i \in DOMAIN Entries : Entries[i].name # EmptyName
    =>
    LET read  == 1..ValidPrefix
        names == {Entries[i].name : i \in read}
    IN /\ result = "threw" <=> ValidPrefix < Len(Entries)
       /\ result = "false" <=> Len(Entries) = 0 /\ DOMAIN before = {}
       /\ DOMAIN user_chains = DOMAIN before \cup names
       /\ \A n \in DOMAIN before \ names : user_chains[n] = before[n]
       /\ \A i \in read :
             (\A j \in (i + 1)..ValidPrefix : Entries[j].name # Entries[i].name)
               => user_chains[Entries[i].name] = userChain(Entries[i])
==============================================================================
