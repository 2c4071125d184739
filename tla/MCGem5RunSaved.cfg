SPECIFICATION RSpec
CONSTANTS
    Run = {r1, r2}
    Nobody = Nobody
    Timeout = 2
    Empty = Empty
    Torn = Torn
PROPERTIES
    SavedIsFinal
CHECK_DEADLOCK FALSE
