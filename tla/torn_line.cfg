SPECIFICATION Spec
CONSTANTS
    w1 = w1
    w2 = w2
    c1 = c1
    c2 = c2
    c3 = c3
    None = None
    Writer = {w1, w2}
    Caller = {c1, c2}
    WriterOf <- OwnWriter
    MaxInode = 4
    MaxDay = 0
    MaxGeneration = 0
    MaxFileBytes = 4
    MaxRecordBytes = 4
    DegradedBytes = 3
    RecordSizes = {2, 3}
    RetentionDays = 0
    Operations <- Writes
    Faults = {"append", "truncate"}
    MaxFaults = 1
    MaxSequence = 2
INVARIANTS
    RejectedNotRecorded
CHECK_DEADLOCK FALSE
