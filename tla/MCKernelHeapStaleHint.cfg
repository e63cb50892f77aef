SPECIFICATION Spec
CONSTANTS
    HEAP_BYTES = 16
    SIZEOF_BLOCK = 2
    MIN_ALLOC_ALIGN = 2
    MIN_SPLIT_REMAINDER = 2
    UINT32_MOD = 32
    Requests = {1, 3, 7}
    Counts = {1}
    GrowsIntoHint = TRUE
INVARIANT
    OwnedTracked
