SPECIFICATION Spec
CONSTANTS
    Cap = 4
    Rss <- MCFlat
    MaxStarts = 1
    MinStep = 1
    MaxStep = 1
    MaxClock = 6
PROPERTY FinalSampleKept
CHECK_DEADLOCK FALSE
