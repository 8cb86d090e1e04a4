SPECIFICATION Spec
CONSTANTS
    MemMaps <- Maps
    KernelImage <- Kernel
    PMM_PAGE_SIZE = 2
    PMM_BITMAP_MAX_BITS = 13
    PHYS_LIMIT = 32
    Lengths = {0, 3, 4}
    NULL = NULL
INVARIANTS
    Counters
    LowestFit
    OnlySafePages
PROPERTY
    Allocator
