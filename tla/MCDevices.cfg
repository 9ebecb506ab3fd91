SPECIFICATION MCSpec
CONSTANTS
    Caller = {"io", "flush"}
    Block = {0, 1}
    NUM = 4
    IdxRange = 4
    Reader = {r1, r2}
    BLK_SIZE = 2
    Junk = 9
    Range_ <- MCRange
    MaxRequests = 2
    Sleeper = {s1}
    User = {u1}
    NCPU = 2
    During = {4}
    Count = 2
CHECK_DEADLOCK FALSE
INVARIANTS
    DescExact
    WriteBack
    SleepExact
PROPERTIES
    ImplementsDisk
    RequestServed
    
