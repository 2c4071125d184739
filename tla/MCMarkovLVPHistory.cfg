SPECIFICATION MCSpec
CONSTANTS
    PC = {0, 1}
    Word = 4
    MCWordBits = 2
    TableSize = 2
    MCIndexBits = 1
    ContextDepth = 3
    ConfThreshold = 2
    MaxConf = 3
    ConfRange = 16
    HashContext <- MCHashContext
    MaxPredicts = 2
    MaxUpdates = 6
INVARIANTS
    TypeOK
    ConfidenceInv
    PredictionAccounting
    ContextIsHistory
    PredictionBacked
PROPERTIES
    ConfidenceSaturates
    ConfidentStrideKept
CHECK_DEADLOCK FALSE
