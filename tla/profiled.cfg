SPECIFICATION Spec
CONSTANTS
    Rss <- MCRss
    OwnDelta = 5
    Codes <- MCCodes
    MaxSamples = 3
    MaxAllocs = 2
    Tasks <- MCTasks
    Plain <- MCPlain
    ThreadOf <- MCThreadOf
    Warmup = 1
    MaxCalls = 3
    MaxTasks = 1
    MaxEntries = 3
    MaxCloses = 2
    Capacity = 2
    MaxTracked = 3
    MaxChunks = 2
    MaxWrites = 4
    MaxReads = 3
    MaxDumps = 2
    LoopTasks = {a, b}
    Sizes <- MCRss
    MaxTime = 3
    MaxReadings = 3
SYMMETRY MCSymmetry
INVARIANTS TypeOK ReportIsChilds TempRemoved SummaryRight OwnResult LoggedOnce PipeTimes DumpWhole PeakConsistent
CHECK_DEADLOCK FALSE
