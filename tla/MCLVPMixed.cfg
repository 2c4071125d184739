SPECIFICATION MCSpec
CONSTANTS
    PC = {0}
    Word = 2
    MCWordBits = 1
    TableSize = 2
    MCIndexBits = 1
    ContextDepth = 1
    ConfThreshold = 1
    MaxConf = 2
    ConfRange = 4
    HashContext <- MCHashContext
    Microop = {FALSE, TRUE}
    LQEntries = 2
    NoData = NoData
    MaxLoads = 4
INVARIANTS
    QueueInOrder
    LostOnlyToDispatch
CHECK_DEADLOCK FALSE
