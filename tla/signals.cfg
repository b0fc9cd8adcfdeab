SPECIFICATION FairSpec
CONSTANTS
    a = a
    b = b
    Threads <- MCOne
    NumFds = 5
    MaxInstalls = 3
    MaxSignals = 2
    MaxOther = 1
INVARIANTS RegisteredServes ExitStopsWatchers
PROPERTIES SignalAnswered StopEndsWatcher
CHECK_DEADLOCK FALSE
