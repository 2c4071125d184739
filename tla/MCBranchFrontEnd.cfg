SPECIFICATION MCSpec
CONSTANTS
    NumEntries = 2
    Null = 0
    HistBufferSize = 10
    MaxHist = 3
    RollbackBuffer = 2
    PathHistBits = 2
    Folded <- MCFolded
    OrigLength <- MCOrigLength
    CompLength <- MCCompLength
    GHRBits = 2
    PathLength = 1
    SpeculativePathLength = 2
    Types = {"DirectCond", "CallIndirect", "Return", "NoBranch"}
    MaxInFlight = 2
    MaxSeqNum = 4
INVARIANTS
    HistoryIsPath
    FoldedIsParity
    ReturnsToCaller
    CommitsWithRecord
    RecordsAreBranches
    CorrectsMispredicted
    TargetsRecovered
    IndexIsContext
