SPECIFICATION MCFairSpec
CONSTANTS
    ArchReg = {1, 2, 3}
    MiscReg = {3}
    PhysReg <- MCPhysReg
    InitMap <- MCInitMap
    InitFree <- MCInitFree
    RenameWidth = 2
    CommitWidth = 2
    SquashWidth = 1
    RefillDelay = 2
    None = None
    NumPhys = 5
    MaxSeq = 3
    MaxTC = 1
    Eager = FALSE
    ManyDests = {1, 2, 3}
INVARIANTS
    RegsLeft
    SquashSparesCommitted
PROPERTIES
    RegistersReturned
    Drains
