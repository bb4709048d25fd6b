SPECIFICATION Spec
CONSTANTS
    a1 = a1
    a2 = a2
    h1 = h1
    h2 = h2
    h3 = h3
    NullHash = NullHash
    NoAccount = NoAccount
    GenesisBody = GenesisBody
    Account <- MCAccount
    Hash <- MCHash
    Body = {GenesisBody}
    MaxUint64 = 4
    MaxPage = 2
SYMMETRY Symmetry
INVARIANTS TypeOK Sequential HashIndexNewest PagesCoverChain
PROPERTY AppendOnly
CHECK_DEADLOCK FALSE
