SPECIFICATION Spec
CONSTANTS
    GROUP_TABLE_ENTRIES = 3
    ID_SPACE = 8
    ADDR_SPACE = 4
    mZero = mZero
    mA = mA
    NoGroup = NoGroup
    Masks <- MCMasks
    ZeroMask = mZero
INVARIANTS
    TypeOK
    ReadsLastWrite
PROPERTIES
    EntriesIndependent
    ImplementsMap
