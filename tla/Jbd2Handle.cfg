SPECIFICATION FairSpec
CONSTANTS
    Block = {b1, b2, b3}
    NoBlock = NoBlock
INVARIANTS
    TypeOK
    NothingLeftBehind
    ListsInLiveMemory
PROPERTIES
    LosesOnlyOnRaise
    OpenReturns
