SPECIFICATION Spec
CONSTANTS
    PROCESS_MAX_COUNT = 3
    MAX_STACKS = 2
    EntryPoints = {1}
    HeapCalls = FALSE
INVARIANT
    ResumesOwnRegisters
CHECK_DEADLOCK FALSE
