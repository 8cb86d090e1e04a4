CONSTANTS
    o1 = o1
    o2 = o2
    o3 = o3
    Objects <- MCObjects
    MaxPid = 4
    NULL = NULL
SYMMETRY MCSymmetry
SPECIFICATION Spec
INVARIANTS
    TasksHaveProcesses
    Listed
CHECK_DEADLOCK FALSE
