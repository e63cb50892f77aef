SPECIFICATION Spec
CONSTANTS
    BytesPerSector = 2
    SectorsPerCluster = 2
    MaxClusters = 4
    DataStart = 10
    EOC = 20
    Fat <- MCFat
    RootCluster = 2
    RootDir <- MCRootDir
    Byte = {0, 1}
    FILE_MAX_FD = 2
    NAME_LEN = 2
    EXT_LEN = 1
    Good = {2, 4, 20}
    GoodWrite = {1, 2, 4, 20}
    Paths <- MCPaths
    Lengths = {0, 3}
    Buffers <- MCBuffers
INVARIANTS
    DriverComplete
PROPERTIES
    ImplementsFileStore
    WritesStayInside
