SPECIFICATION FairFileSpec
CONSTANTS
    InitMax = 4
    LBlk = {3}
    PBlk <- ScatteredAndRuns
    MaxBlocks = {1}
    SpaceRoot = 1
    SpaceRootIdx = 2
    SpaceBlock = 2
    SpaceBlockIdx = 3
    Candidates <- LowestScattered
    Faults = {}
    Files <- LongExtents
    Ranges <- AllRanges
INVARIANTS
    EveryBlockFound
    RoomForIndex
    EmptyFileHasNoTree
PROPERTIES
    LeaksOnlyInside
    ImplementsMap
    EveryCallReturns
