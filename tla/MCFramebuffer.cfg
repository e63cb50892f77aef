SPECIFICATION Spec
CONSTANTS
    Width = 3
    Height = 3
    UINT32_MOD = 5
    Colors = {0, 1}
    Black = 0
INVARIANTS
    FillsOnlyTheRectangle
