CONSTANTS
    Databases <- SmallDatabases
    Bytes = {0, 1}
    DefaultByte = 0
SPECIFICATION LoadSpec
INVARIANT
    WindowsApart
    BytesLoaded
CHECK_DEADLOCK FALSE
