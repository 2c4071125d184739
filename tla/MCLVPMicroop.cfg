SPECIFICATION MCSpec
CONSTANTS
    PC = {0, 1}
    Word = 2
    MCWordBits = 1
    TableSize = 2
    MCIndexBits = 1
    ContextDepth = 1
    ConfThreshold = 1
    MaxConf = 2
    ConfRange = 4
    HashContext <- MCHashContext
    Microop = {TRUE}
    LQEntries = 2
    NoData = NoData
    MaxLoads = 6
INVARIANTS
    TrainedAreCommitted
    ExactAccounting
    LoadsCountedOnce
PROPERTIES
    CommitOnly
    CheckedAtNextCommit
CHECK_DEADLOCK FALSE
