SPECIFICATION FilesSpec
CONSTANTS
    FTask = {a1, a2}
    File = {o1, o2}
    Inode = {i1}
    NOFILE = 2
    MaxAreas = 2
CHECK_DEADLOCK FALSE
PROPERTY ForkCopiesFiles
