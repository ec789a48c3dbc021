SPECIFICATION Spec
CONSTANTS
    t1 = t1
    t2 = t2
    Trace = {t1, t2}
    Wanted = t1
    MaxIndex = 1
    MaxSequence = 2
    MaxClock = 1
    MaxDamage = 1
INVARIANTS
    TypeOK
    NothingMissed
    TimelineInSequence
CHECK_DEADLOCK FALSE
