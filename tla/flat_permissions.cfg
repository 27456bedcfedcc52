CONSTANTS
    Handles = {h1, h2}
    Size = 2
    BlockSize = 3
    WordBlocks = 8
    Values = {0, 1}
    Default = 0
    Offsets = {0, 1, 2}
    Sizes = {0, 1, 2}
    Accesses = {"Read", "Write", "ReadWrite"}
SPECIFICATION DisciplinedSpec
SYMMETRY HandleSymmetry
VIEW Relevant
PROPERTY
    ImplementsSnapshots
CHECK_DEADLOCK FALSE
