SPECIFICATION Spec
CONSTANTS
    Programs <- MCPrograms
    Ints = {0, 1, 2}
    MaxNesting = 3
    MaxSpecializeDepth = 5
    MaxInstantiations = 100
    MaxCallDepth = 8
INVARIANTS
    AcceptedIsSafe
    WitnessEscapes
    SpecialisesAccepted
    SpecialisedAgrees
CHECK_DEADLOCK FALSE
