CONSTANTS
    Size = 5
    Contents = {0, 1, 2}
SPECIFICATION LoopSpec
INVARIANTS
    LoopTypeOK
    EndsAsMemmove
CHECK_DEADLOCK FALSE
