SPECIFICATION DSpec
CONSTANTS
    WORD = 16
    VMA_MAX_COUNT = 3
    Starts = {6, 8, 12}
    Sizes = {0, 3, 7}
    Flags = {TRUE, FALSE}
    PAGE_SIZE = 2
    HEAP_START = 2
    Total = 6
    Uses = {0, 5, 6, 8, 13}
    NULL = NULL
INVARIANTS
    Disjoint
    PagesAccounted
    HeapAreaCurrent
PROPERTIES
    DestroysOne
    AccessEnds
