SPECIFICATION Spec
CONSTANTS
    Lbas = {0, 1, 2}
    MAX_SECTORS = 2
    Values = {1, 2}
    FAT32_START_LBA = 1
    LBA_MOD = 4
PROPERTIES
    ImplementsSectorStore
    DiskCallsReturn
