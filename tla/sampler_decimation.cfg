SPECIFICATION Spec
CONSTANTS
    Cap = 4
    Rss <- MCFlat
    MaxStarts = 1
    MinStep = 1
    MaxStep = 2
    MaxClock = 18
INVARIANTS GapBounded
CHECK_DEADLOCK FALSE
