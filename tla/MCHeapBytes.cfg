SPECIFICATION Spec
CONSTANTS
    s1 = s1
    s2 = s2
    s3 = s3
    k1 = k1
    n0 = n0
    n1 = n1
    nil = nil
    spent = spent
    Slot = {s1, s2, s3}
    Token = {k1}
    Scalar = {n0, n1}
    Ctors = {"pair"}
    Lambdas = {"lam"}
    ARRAY_TAG = "$Array"
    BYTES_TAG = "$Bytes"
    Arity <- MCArity
    Nil = nil
    Spent = spent
    MaxCells = 2
    MaxLen = 2
    MaxDepth = 1
PROPERTIES
    ImplementsValues
SYMMETRY MCSymmetry
CHECK_DEADLOCK FALSE
