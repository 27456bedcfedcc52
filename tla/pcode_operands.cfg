CONSTANTS
    Handles = {h1, h2}
    Base = 2
    BigEndian = TRUE
    AddressSize = 2
    Offsets <- FewOffsets
    Operands <- FewOperands
    Numbers = {1, 2}
    Bytes = {1}
SPECIFICATION Spec
SYMMETRY HandleSymmetry
INVARIANT
    AddressesRead
    AddressesSet
PROPERTY
    OthersKept
CHECK_DEADLOCK FALSE
