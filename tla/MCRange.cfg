SPECIFICATION FairSpec
CONSTANTS
    BITS = 2
    PROB_SCALE = 8
    ADAPT = 2
    RATES <- MCRates
    WEIGHT_ONE = 6
    WEIGHT_MAX = 12
    LEARNING = 4
    LOGIT_MAX = 8
    Stretch <- MCStretch
    Squash <- MCSquash
    RADIX = 4
    Messages <- MCMessages
    MaxCut = 2
INVARIANTS
    TypeOK
    Lossless
PROPERTIES
    CodesExactly
    Terminates
CHECK_DEADLOCK FALSE
