CONSTANTS
    p1 = p1
    p2 = p2
    f1 = f1
    f2 = f2
    f3 = f3
    f4 = f4
    f5 = f5
    Procs <- MCProcs
    Frames <- MCFrames
    Pages <- MCPages
    Programs <- MCPrograms
    PAGE_SIZE = 2
    EXEC_BUFFER_SIZE = 5
    RegionPages = 2
    NONE = NONE
SYMMETRY MCSymmetry
SPECIFICATION LSpec
INVARIANTS
    Loaded
    CopiesAgree
    NothingHeld
CHECK_DEADLOCK FALSE
