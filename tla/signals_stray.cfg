SPECIFICATION Spec
CONSTANTS
    a = a
    b = b
    Threads <- MCOne
    NumFds = 5
    MaxInstalls = 2
    MaxSignals = 1
    MaxOther = 1
INVARIANT NoStrayByte
CHECK_DEADLOCK FALSE
