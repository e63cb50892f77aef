SPECIFICATION BootSpec
CONSTANTS
    RAM_PAGES = 13
    StackPage = 8
    ReservedPages <- MCReserved
    KernelSegments <- MCKernelSegments
    SLACK = 3
    MAX_CHANGES = 2
    MAX_PAGES = 12
    HeapStart = 3
    HeapEnd = 8
    MemoryMaps <- MCMemoryMaps
    NoMap = NoMap
    RING_PAGES = 1
    FRAMEBUFFER_PAGES = 2
    UserSegments <- MCUserSegments
    USER_BASE = 4
    MAX_CAPS = 4
    GB = 2
    MAX_PDPT_ENTRIES = 3
    LOW_GB = 2
    MMIO_WINDOW_BASE = 2
    MMIO_WINDOW_SLOTS = 2
    DevicePages = {1, 4, 7, 9}
    FramebufferEnds = {3, 5, 9}
INVARIANTS
    KernelSurvives
    UserImageComplete
    RetriesLeakNothing
    HangsOnlyForCause
    PagesAccounted
    TranslationsHold
    WindowNotWasted
PROPERTIES
    KernelReadsTheMap
    ImplementsParts
    BootEnds
CHECK_DEADLOCK FALSE
