CONSTANTS
    Size = 7
    Values = {0, 1}
    Default = 0
    AllocSizes = {0, 1, 3, 5}
    AccessSizes = {1, 6}
    Addresses = {0, 2}
SPECIFICATION SnapshotSpec
VIEW Relevant
INVARIANTS
    TypeOK
    ChunksTileHeap
    FreeChunksMerged
    RegionsAreChunks
    ChunksSealed
    WritesConfined
PROPERTIES
    ContentsKept
    ImplementsRegions
CHECK_DEADLOCK FALSE
