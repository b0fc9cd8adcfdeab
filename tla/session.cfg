SPECIFICATION Spec
CONSTANTS
    w1 = w1
    w2 = w2
    w3 = w3
    Controller = ctl
    FirstWorkers <- MCFirst
    Spares <- MCSpares
    Tests <- MCTests
    NoTest = NoTest
    SameName <- MCSameName
    Deltas <- MCDeltas
    NoEntry = NoEntry
    MaxPeak <- MCMaxPeak
    Percent = 10
    Absolute = 0
    MemoryFloor = 5
    TimeFloor = 5
    Here = "here"
    Starts <- MCStarts
    MaxRuns <- MCMaxRuns
SYMMETRY Symmetry
INVARIANTS TypeOK EntriesKept MergedAtEnd VerdictJustified
CHECK_DEADLOCK FALSE
