SPECIFICATION Spec
CONSTANTS
    s1 = s1
    s2 = s2
    s3 = s3
    k1 = k1
    nil = nil
    spent = spent
    Slot = {s1, s2, s3}
    Token = {k1}
    Scalar = {}
    Ctors = {"pair"}
    Lambdas = {"lam"}
    ARRAY_TAG = "$Array"
    BYTES_TAG = "$Bytes"
    Arity <- MCArity
    Nil = nil
    Spent = spent
    MaxCells = 3
    MaxLen = 2
    MaxDepth = 1
INVARIANTS
    RcExact
    NoMemoryError
    TokensExclusive
    GarbageFree
PROPERTIES
    ImplementsValues
    CascadeShrinks
SYMMETRY MCSymmetry
CHECK_DEADLOCK FALSE
