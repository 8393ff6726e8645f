SPECIFICATION Spec
CONSTANTS
    Programs <- MCProgramsBound
    Ints = {0, 1, 2}
    MaxNesting = 3
    MaxSpecializeDepth = 5
    MaxInstantiations = 100
    MaxCallDepth = 8
INVARIANT AcceptedIsSafe
CHECK_DEADLOCK FALSE
