SPECIFICATION Spec
CONSTANTS
    Index <- MCIndex
    Pages = {1, 2, 3, 4, 5, 6, 7, 8, 9, 10, 11, 12, 13, 14, 15}
    BootTables <- MCBootTables
    BootRoot = 91
    HeapVA <- MCHeapVA
    BootVA <- MCBootVA
    UserVA <- MCUserVA
    WritableVA <- MCWritableVA
    MaxProcs = 2
    MaxCalls = 4
    NULL = NULL
INVARIANTS
    Tree
    KernelAddressesAgree
    ActiveIsLoaded
PROPERTY
    Spaces
