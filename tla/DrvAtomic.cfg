SPECIFICATION FairSpec
CONSTANTS
    Thread = {t1, t2, t3}
    LongMax = 1
    Amount <- Amounts
    NoCall = NoCall
INVARIANTS
    TypeOK
PROPERTIES
    ImplementsCounter
    LockFree
