SPECIFICATION FairFileSpec
CONSTANTS
    InitMax = 4
    LBlk = {0, 1, 2, 4, 8}
    PBlk <- EvenAndRuns
    MaxBlocks = {2}
    SpaceRoot = 1
    SpaceRootIdx = 1
    SpaceBlock = 2
    SpaceBlockIdx = 3
    Candidates <- LowestFirst
    Faults = {}
    Files <- ThreeFiles
    Ranges = {}
INVARIANTS
    TypeOK
    BinSearchFindsClosest
    RoomForIndex
    SplitNodesFull
    EveryBlockFound
    ConsistentLeafNotEmpty
    OneOwner
PROPERTIES
    LeaksOnlyInside
    ImplementsMap
    EveryCallReturns
