SPECIFICATION RSpec
CONSTANTS
    Run = {r1, r2}
    Nobody = Nobody
    Timeout = 2
    Empty = Empty
    Torn = Torn
INVARIANTS
    NoOrphan
CHECK_DEADLOCK FALSE
