SPECIFICATION Spec
CONSTANTS
    HEADER = 4
    HEAP_ALIGNMENT = 2
    PAGE_SIZE = 12
    SIZE_MAX = 255
    MaxEnd = 36
    Sizes = {0, 1, 5, 13}
    Counts = {0, 2}
    NULL = NULL
INVARIANTS
    Links
    Coalesced
    LiveBlocks
PROPERTY
    Allocator
