SPECIFICATION ParserSpec
CONSTANTS
    Documents <- MCDocuments
    MaxUint32 = 7
    EmptyName = EmptyName
    NoString = NoString
    Text = Text
    Undefined = Undefined
    chainA = chainA
    chainB = chainB
INVARIANTS
    RegistryGetsValidChains
    StoredUpToTheFault
