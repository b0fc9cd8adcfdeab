SPECIFICATION Spec
CONSTANTS
    a = a
    b = b
    p = p
    log = log
    proc = proc
    t = t
    pool = pool
    Watchers <- MCWatchers
    Sampling <- MCSampling
    Tracing <- MCTracing
    Paths <- MCPaths
    Proc = proc
    Names <- MCNames
    AllowLeaked <- MCAllowLeaked
    AllowThreads <- MCAllowThreads
    MaxCount = 2
    MaxEvents = 3
INVARIANTS TypeOK TracingRestored NestedSnapshotsSucceed LeakReported NoFalseAlarm ThreadsReported
CHECK_DEADLOCK FALSE
