SPECIFICATION Spec
CONSTANTS
    InitMax = 4
    LBlk = {2}
    PBlk <- Contiguous
    MaxBlocks = {1}
    SpaceRoot = 1
    SpaceRootIdx = 1
    SpaceBlock = 2
    SpaceBlockIdx = 2
    Candidates <- LowestFirst
    Faults = {}
    Files <- Preallocated
PROPERTIES
    ConversionMapsNothingNew
