SPECIFICATION FairSpec
CONSTANTS
    N = 8
    M = 8
    Quot = 4
    Radix = 4
    Messages <- MCMessages
    Garbled <- MCGarbled
    Memory = 24
    MaxCapacity = 32
INVARIANTS
    TypeOK
    TableSound
    Lossless
    RefusesTheDamaged
    BufferFits
PROPERTIES
    Terminates
CHECK_DEADLOCK FALSE
