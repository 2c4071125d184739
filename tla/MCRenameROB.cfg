SPECIFICATION MCSpec
CONSTANTS
    ArchReg = {1, 2, 3}
    MiscReg = {3}
    PhysReg <- MCPhysReg
    InitMap <- MCInitMap
    InitFree <- MCInitFree
    RenameWidth = 3
    CommitWidth = 2
    SquashWidth = 1
    RefillDelay = 1
    None = None
    NumPhys = 8
    MaxSeq = 6
    MaxTC = 0
    Eager = TRUE
    ManyDests = {1}
INVARIANTS
    RRTypeOK
    Ownership
    HistoryChain
    CommitMapInHistory
    CommittedHeld
    NoOwnershipHazard
    NoneDropped
