CONSTANTS
    p1 = p1
    p2 = p2
    c1 = c1
    c2 = c2
    NoThread = NoThread
    Threads = {p1, p2, c1, c2}
    MayCall <- MixedCalls
    MaxItems = 3
    MaxBatch = 1
SPECIFICATION Spec
INVARIANTS TypeOK HolderIsOwner TakeFindsItem NoSleepOverItems NoDuplicate
PROPERTY ImplementsFifo
