SPECIFICATION BitmapSpec
CONSTANTS
    size = 10
    W = 4
    map0 <- InodeMap
    free0 <- InodeFree
\* The run ends at the panic.
CHECK_DEADLOCK FALSE
INVARIANT UsedFreeable
