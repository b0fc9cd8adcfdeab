SPECIFICATION FairSpec
CONSTANTS
    Cap = 3
    Rss <- MCRss
    MaxStarts = 2
    MinStep = 0
    MaxStep = 1
    MaxClock = 2
INVARIANTS TypeOK OneWorker SamplesWellFormed PeakCoversSamples PeakIsFirstMaximum
PROPERTIES RecordsPeak JoinEnds
CHECK_DEADLOCK FALSE
