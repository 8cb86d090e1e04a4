CONSTANTS
    p1 = p1
    p2 = p2
    a = a
    b = b
    Procs <- MCProcs
    Names <- MCNames
    Buffers <- MCBuffers
    ReadSizes <- MCReadSizes
    FD_MAX = 1
    RAMFS_MAX_CHILDREN = 2
    MaxDepth = 2
    MaxNodes = 3
    MaxFiles = 3
    MaxBlocks = 2
    NULL = NULL
SYMMETRY MCSymmetry
SPECIFICATION Spec
INVARIANTS
    PathsResolve
PROPERTIES
    DescriptorsKept
    ReadBack
CHECK_DEADLOCK FALSE
