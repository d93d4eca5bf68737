CONSTANTS
    w1 = w1
    w2 = w2
    r1 = r1
    r2 = r2
    NoThread = NoThread
    Threads = {w1, w2, r1, r2}
    MayCall <- OneTaker
    MaxItems = 3
    MaxBatch = 2
SPECIFICATION Spec
INVARIANTS TypeOK WriterAlone HolderNotStale TakeAssertHolds
PROPERTY ImplementsFifo
