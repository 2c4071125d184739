SPECIFICATION HashSpec
CONSTANTS
    WordBits = 4
    Multiplier = 5
    Rotation = 1
    Depth = 2
    IndexBits = 2
INVARIANTS
    HashSeparates
CHECK_DEADLOCK FALSE
