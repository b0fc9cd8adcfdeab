SPECIFICATION Spec
CONSTANTS
    p1 = p1
    p2 = p2
    c1 = c1
    Producers <- MCProducers
    Consumers <- MCConsumers
    QueueSize = 2
    Capacity = 3
    MaxPuts = 4
    MaxClock = 6
SYMMETRY Symmetry
INVARIANTS TypeOK LostOnlyIfReordered NeverUnderestimates ExactUnlessMissed PeakDepthCovers
CHECK_DEADLOCK FALSE
