CONSTANTS
    p1 = p1
    p2 = p2
    c1 = c1
    c2 = c2
    NoThread = NoThread
    Threads = {p1, c1, c2}
    MayCall <- BatchCalls
    MaxItems = 2
    MaxBatch = 2
SPECIFICATION Spec
INVARIANT NoSleepOverItems
