CONSTANTS
    w1 = w1
    w2 = w2
    r1 = r1
    r2 = r2
    NoThread = NoThread
    Threads = {w1, r1, r2}
    MayCall <- TwoTakers
    MaxItems = 2
    MaxBatch = 1
SPECIFICATION Spec
INVARIANT PopFindsItem
