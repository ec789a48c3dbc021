-------------------------- MODULE MCTimelineReader --------------------------
EXTENDS TimelineReader
CONSTANTS t1, t2
=============================================================================
