-------------------------- MODULE MCTraceTimeline ---------------------------
EXTENDS TraceTimeline, TLC
CONSTANTS g1, g2, t1, t2, f1
=============================================================================
