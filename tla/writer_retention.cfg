SPECIFICATION Spec
CONSTANTS
    w1 = w1
    w2 = w2
    c1 = c1
    c2 = c2
    c3 = c3
    None = None
    Writer = {w1, w2}
    Caller = {c1, c2, c3}
    WriterOf <- SharedAndOwn
    MaxInode = 5
    MaxDay = 2
    MaxGeneration = 0
    MaxFileBytes = 4
    MaxRecordBytes = 4
    DegradedBytes = 3
    RecordSizes = {3}
    RetentionDays = 1
    Operations <- Writes
    Faults = {"crash"}
    MaxFaults = 1
    MaxSequence = 1
INVARIANTS
    ShardDates
    SweepIsComplete
    NoGapsBetweenShards
PROPERTIES
    ImplementsEventLog
SYMMETRY TwoCallers
CHECK_DEADLOCK FALSE
