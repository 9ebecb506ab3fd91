SPECIFICATION FairSpec
CONSTANTS
    t1 = t1
    t2 = t2
    t3 = t3
    init_t = t1
    NULL = NULL
    Thread = {t1, t2, t3}
    NCPU = 2
    cpu_affinity <- MCAffinity
INVARIANTS
    SchedInv
    OneCpuPerThread
    
    NotLost
    MyprocExact
    NoSpinCycle
PROPERTIES
    WokenRuns
