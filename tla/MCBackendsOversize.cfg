SPECIFICATION Spec
SYMMETRY MCSymmetry
CONSTANTS
    s1 = s1
    s2 = s2
    s3 = s3
    Slot <- MCSlot
    Nil = Nil
    Stale = Stale
    Programs <- MCOversize
    MaxLen = 3
    MAX_TENSOR_ELEMS = 4
    MAX_ELEMS = 4
    WORD = 64
    HALF_WORD = 16
    HEAP_BASE = 8
    MaxSlots = 70
    STR_MAX_CLASS = 1
    TENSOR_MAX_CLASS = 1
    MaxArity = 2
    CHARS = 2
    FLOATS = 2
    CtorTags <- MCCtorTags
    FieldKinds <- MCFieldKinds
    FAdd <- MCFAdd
    FSub <- MCFSub
    FMul <- MCFMul
    FDot <- MCFDot
    FCosine <- MCFCosine
    FNorm <- MCFNorm
    Narrow <- MCNarrow
    Widen <- MCWiden
    Act <- MCAct
INVARIANTS
    BlocksDisjoint
CHECK_DEADLOCK FALSE
