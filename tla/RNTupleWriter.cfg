SPECIFICATION FairSpec
CONSTANTS
    t1 = t1
    t2 = t2
    t3 = t3
    Threads = {t1, t2, t3}
    c1 = c1
    c2 = c2
    c3 = c3
    Calls = {c1, c2, c3}
    NReco = 2
    NSim = 1
    TupleOf <- MCTupleOf
    Size <- MCSize
    MaxFaults = 2
    NoThread = NoThread
    NoCall = NoCall
INVARIANTS
    TypeOK
    FileExclusive
    NoHitTwice
    NoHitLost
    CallOrder
    CleanCloseIsComplete
PROPERTIES
    SealedIsFrozen
    Terminates
    StoreSpec
