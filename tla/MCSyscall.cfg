SPECIFICATION FairSpec
CONSTANTS
    PROCESS_MAX_COUNT = 3
    MAX_STACKS = 4
    EntryPoints <- MCEntryPoints
    HeapCalls = TRUE
INVARIANTS
    NoSharedStack
    ReturnsOnOwnStack
    FirstFrameIntact
    HaltsOnlyWhenIdle
PROPERTIES
    KeepsItsSlot
    RoundRobinProgress
    ImplementsScheduler
    ReadyRuns
CHECK_DEADLOCK FALSE
