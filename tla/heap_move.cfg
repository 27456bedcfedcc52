CONSTANTS
    Size = 10
    Values = {0}
    Default = 0
    AllocSizes = {1, 2, 3, 4, 5}
    AccessSizes = {}
    Addresses = {0, 1, 2, 3, 4, 5, 6, 7, 8, 9, 10}
SPECIFICATION Spec
PROPERTIES
    MovesComplete
CHECK_DEADLOCK FALSE
