CONSTANTS
    AddressSpace = 4
    Code <- MCCode
    Ops <- MCOps
    Length <- MCLength
    Bounds <- MCBounds
    Entries <- MCEntries
    Branches <- MCBranches
SPECIFICATION Spec
INVARIANTS
    TypeOK
    BoundRespected
    LocationsAgree
PROPERTIES
    StepsEnd
CHECK_DEADLOCK FALSE
