SPECIFICATION FairSpec
CONSTANTS
    MAX_POLLS = 2
    IDX_MOD = 5
    MAX_PENDING = 1
    Frames = {f0, f1}
    BlankFrame = f0
    Layouts <- BothLayouts
INVARIANTS
    ReadyMeansConfigured
    IndicesInOrder
PROPERTIES
    PresentShowsFrame
    CallsReturn
