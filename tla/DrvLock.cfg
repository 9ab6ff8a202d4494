SPECIFICATION Spec
CONSTANTS
    Thread = {t1, t2}
    NoThread = NoThread
    MaxHeld = 2
INVARIANT
    Exclusive
