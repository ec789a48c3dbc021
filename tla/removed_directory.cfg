SPECIFICATION FairSpec
CONSTANTS
    w1 = w1
    w2 = w2
    c1 = c1
    c2 = c2
    c3 = c3
    None = None
    Writer = {w1}
    Caller = {c1}
    WriterOf <- OneCaller
    MaxInode = 4
    MaxDay = 0
    MaxGeneration = 1
    MaxFileBytes = 4
    MaxRecordBytes = 4
    DegradedBytes = 3
    RecordSizes = {2, 3}
    RetentionDays = 0
    Operations <- Writes
    Faults = {"rmdir"}
    MaxFaults = 1
    MaxSequence = 2
PROPERTIES
    RemovedDirectoryComesBack
CHECK_DEADLOCK FALSE
