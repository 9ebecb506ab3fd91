SPECIFICATION ProcSpec
CONSTANTS
    i = i
    a = a
    b = b
    Proc = {i, a, b}
    init_t = i
    NULL = NULL
    WaitCall <- MCWaitCall
    UserSig <- MCUserSig
    MaxCreate = 2
    MaxSigOps = 1
\* The machine may stop: init_t panics, or everybody waits for a child.
CHECK_DEADLOCK FALSE
INVARIANTS
    ParentLive
    NoMissedZombie
    ReapSafe
    NoLockCycle
    PendingCounted
