SPECIFICATION DecoderSpec
CONSTANTS
    BYTE = 8
    BPP = 2
    Files <- MCFiles
INVARIANTS
    DecodesThePicture
CHECK_DEADLOCK FALSE
