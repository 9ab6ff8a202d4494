SPECIFICATION Spec
CONSTANTS
    jh_start = 1
    jh_end = 9
    TidMod = 16
    WordBits = 3
    FsBlk <- AllFsBlk
    Journals <- AllJournals
    Faults = {}
INVARIANTS
    SuccessMeansReplayed
CHECK_DEADLOCK FALSE
