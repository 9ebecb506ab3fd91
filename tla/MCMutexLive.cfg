SPECIFICATION MutexFairSpec
CONSTANTS
    t1 = t1
    t2 = t2
    t3 = t3
    m1 = m1
    init_t = t1
    NULL = NULL
    Thread = {t1, t2, t3}
    NCPU = 1
    cpu_affinity <- MCAffinity
    Sem = {m1}
    sem_value0 <- MCValue0
    MaxValue = 1
PROPERTIES
    MutexGranted
