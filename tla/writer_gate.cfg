SPECIFICATION FairSpec
CONSTANTS
    w1 = w1
    w2 = w2
    c1 = c1
    c2 = c2
    c3 = c3
    None = None
    Writer = {w1, w2}
    Caller = {c1, c2, c3}
    WriterOf <- SharedAndOwn
    MaxInode = 4
    MaxDay = 0
    MaxGeneration = 0
    MaxFileBytes = 5
    MaxRecordBytes = 4
    DegradedBytes = 3
    RecordSizes = {3}
    RetentionDays = 0
    Operations <- OneFlushesOneCloses
    Faults = {"append", "truncate", "unlock"}
    MaxFaults = 1
    MaxSequence = 1
INVARIANTS
    ClosedHoldsNoShard
    LinesIntact
PROPERTIES
    EveryCallReturns
CHECK_DEADLOCK FALSE
