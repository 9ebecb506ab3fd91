SPECIFICATION RWFairSpec
CONSTANTS
    Thread = {a, b, c, d}
    MaxOps = 2
\* All threads may have locked MaxOps times.
CHECK_DEADLOCK FALSE
INVARIANTS
    RWExclusion
    NoIdleWriterQueue
PROPERTIES
    AllServed
