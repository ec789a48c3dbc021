SPECIFICATION Spec
CONSTANTS
    w1 = w1
    w2 = w2
    c1 = c1
    c2 = c2
    c3 = c3
    None = None
    Writer = {w1, w2}
    Caller = {c1, c2}
    WriterOf <- OwnWriter
    MaxInode = 4
    MaxDay = 2
    MaxGeneration = 1
    MaxFileBytes = 4
    MaxRecordBytes = 4
    DegradedBytes = 6
    RecordSizes = {5}
    RetentionDays = 1
    Operations <- Writes
    Faults = {"append", "chmod", "crash", "directory", "lock", "open", "readdir", "remove",
              "repair", "rmdir", "stat", "unlock"}
    MaxFaults = 1
    MaxSequence = 2
INVARIANTS
    NoStrandedLock
    ShardBounded
SYMMETRY TwoProcesses
CHECK_DEADLOCK FALSE
