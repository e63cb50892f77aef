SPECIFICATION Spec
CONSTANTS
    HEAP_BYTES = 16
    SIZEOF_BLOCK = 2
    MIN_ALLOC_ALIGN = 2
    MIN_SPLIT_REMAINDER = 2
    UINT32_MOD = 18
    Requests = {0, 1, 3, 7}
    Counts = {0, 3}
    GrowsIntoHint = FALSE
INVARIANTS
    ListTiles
    OwnersMatch
    AllocationsDisjoint
    NoAdjacentFree
    UsedMemoryExact
    NullOnlyWhenFull
PROPERTIES
    ChangesOnlyForOwners
    NeverHandedOutTwice
