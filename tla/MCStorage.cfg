SPECIFICATION MCSpec
CONSTANTS
    size = 10
    W = 4
    map0 <- BlockMap
    free0 <- BlockFree
    FTask = {a1, a2}
    File = {o1, o2}
    Inode = {i1, i2}
    NOFILE = 2
    MaxAreas = 2
    EThr = {e1, e2}
    Name = {n1, n2}
    MaxIno = 3
    NBlk = 6
    NDIRECT = 1
    NINDIRECT = 2
    MaxCalls = 3
SYMMETRY MCSym
CHECK_DEADLOCK FALSE
INVARIANTS
    HintSound
    CountExact
    FileRefs
    
    BlocksOwned
    
