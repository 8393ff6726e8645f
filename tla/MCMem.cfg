SPECIFICATION Spec
CONSTANTS
    Names <- MCNames
    MaxNesting = 3
    Programs <- MCPrograms
INVARIANTS
    NoInternalError
    NothingLeaks
    AgreesWithInterpreter
    LoweredIsWellFormed
    EveryPathBalanced
CHECK_DEADLOCK FALSE
