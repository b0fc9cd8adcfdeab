SPECIFICATION Spec
CONSTANTS
    a = a
    b = b
    Threads <- MCTwo
    NumFds = 5
    MaxInstalls = 2
    MaxSignals = 1
    MaxOther = 0
INVARIANT ExitStopsWatchers
CHECK_DEADLOCK FALSE
