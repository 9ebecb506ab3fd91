SPECIFICATION SemSpec
CONSTANTS
    t1 = t1
    t2 = t2
    t3 = t3
    s1 = s1
    init_t = t1
    NULL = NULL
    Thread = {t1, t2, t3}
    NCPU = 2
    cpu_affinity <- MCAffinity
    Sem = {s1}
    sem_value0 <- MCValue0
    MaxValue = 1
SYMMETRY Symmetry
INVARIANTS
    SemAccounting
    WaitersExact
PROPERTIES
    ImplementsSemaphore
