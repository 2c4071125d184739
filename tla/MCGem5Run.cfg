SPECIFICATION FairRSpec
CONSTANTS
    Run = {r1, r2}
    Nobody = Nobody
    Timeout = 2
    Empty = Empty
    Torn = Torn
INVARIANTS
    RTypeOK
    InfoExact
    OutcomeTrue
    OneProcess
    SavedRecordEnded
PROPERTIES
    RunEnds
CHECK_DEADLOCK FALSE
