SPECIFICATION MCSpec
CONSTANTS
    MaxKey = 6
    PageThreads = {p1, p2, p3}
    MAX_LEVEL_INDEX = 2
    ALL_PFN = 8
    kernel_pfn_end = 3
    MaxRefs = 2
    SlabThreads = {s1, s2}
    NCPU = 1
    obj_size = 8192
    PGSIZE = 4096
    FREE_LIST_MAX_LEN = 256
    MaxSlabs = 3
    Task = {k1, k2, k3}
    v1 = v1
    VA = {v1}
    vma_is_w = {v1}
    Frame = {f1, f2, f3}
SYMMETRY MCSym
CHECK_DEADLOCK FALSE
INVARIANTS
    TreeExact
    Balanced
    BlocksExact
    SlabsExact
    PanicNeedsRace
    RefExact
    
