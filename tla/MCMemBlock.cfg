SPECIFICATION Spec
CONSTANTS
    Names <- MCNames
    MaxNesting = 3
    Programs <- InBlock
INVARIANT AgreesWithInterpreter
CHECK_DEADLOCK FALSE
