SPECIFICATION Spec
CONSTANTS
    a = a
    b = b
    Threads <- MCTwo
    NumFds = 5
    MaxInstalls = 2
    MaxSignals = 1
    MaxOther = 1
INVARIANTS TypeOK WriteEndsAccounted ReadEndsAccounted WatcherReadsOwnPipe
CHECK_DEADLOCK FALSE
