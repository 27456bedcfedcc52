CONSTANTS
    Handles = {h1, h2, h3}
    Size = 4
    BlockSize = 2
    WordBlocks = 2
    Values = {0, 1}
    Default = 0
    Offsets = {0, 1, 2, 3, 4}
    Sizes = {0, 2}
    Accesses = {}
SPECIFICATION Spec
SYMMETRY HandleSymmetry
VIEW Relevant
INVARIANTS
    TypeOK
    ListMatchesBitsmap
    DirtyBlocksInRange
    RewindCovered
CHECK_DEADLOCK FALSE
