SPECIFICATION FairSpec
CONSTANTS
    g1 = g1
    g2 = g2
    t1 = t1
    t2 = t2
    f1 = f1
    None = None
    Trace = {t1}
    Goroutine = {g1}
    ForeignID = {f1}
    FailOnError = FALSE
    TrustIncomingTraceID = FALSE
    WriterFails = TRUE
    MaxDepth = 2
    MaxEvents = 3
    MaxClock = 0
PROPERTIES
    EventReturns
CHECK_DEADLOCK FALSE
