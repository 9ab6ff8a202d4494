SPECIFICATION Spec
CONSTANTS
    InitMax = 4
    LBlk = {0, 1, 2, 3, 4}
    PBlk <- NearlyFull
    MaxBlocks = {1}
    SpaceRoot = 1
    SpaceRootIdx = 1
    SpaceBlock = 2
    SpaceBlockIdx = 2
    Candidates <- LowestFirst
    Faults = {}
    Files <- EmptyFile
PROPERTIES
    MappingsStay
