SPECIFICATION FileSpec
CONSTANTS
    InitMax = 4
    LBlk = {1, 2}
    PBlk <- ScatteredAndRuns
    MaxBlocks = {1}
    SpaceRoot = 1
    SpaceRootIdx = 1
    SpaceBlock = 2
    SpaceBlockIdx = 2
    Candidates <- LowestScattered
    Faults = {"alloc", "calloc", "noread", "read"}
    Files <- FullTrees
    Ranges <- SomeRanges
INVARIANTS
    ChildrenLive
    NodesNotFree
    WithinCapacity
    PathLive
    ConsistentLeafNotEmpty
    OneOwner
CHECK_DEADLOCK FALSE
