CONSTANTS
    Handles = {h1, h2}
    Space = 7
    Values = {0, 1}
    Default = 0
    InnerSize = 3
    ReadOnly = {2}
    Statics <- TwoWindows
    Heaps <- OneHeap
    Extents <- OneExtent
    Names = {"data"}
    Sizes = {1, 2, 3}
SPECIFICATION Spec
CONSTRAINT UnwrittenSet
SYMMETRY HandleSymmetry
VIEW Relevant
INVARIANT
    TypeOK
PROPERTY
    ImplementsSparse
CHECK_DEADLOCK FALSE
