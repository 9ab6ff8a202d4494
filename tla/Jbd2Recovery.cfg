SPECIFICATION FairSpec
CONSTANTS
    jh_start = 1
    jh_end = 9
    TidMod = 16
    WordBits = 3
    FsBlk <- AllFsBlk
    Journals <- AllJournals
    Faults = {"read", "write", "alloc"}
INVARIANTS
    TypeOK
    InsideLog
    EndIsCommitted
    ClientBlocksFromTheirTags
PROPERTIES
    RecoveryEnds
CHECK_DEADLOCK FALSE
