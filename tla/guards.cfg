CONSTANTS
    NoThread = NoThread
    Threads = {t1, t2, t3}
    TopAddress = 3
    Mutexes = {1, 2, 3}
SPECIFICATION FairSpec
INVARIANTS TypeOK GuardProtects NoCircularWait
PROPERTY SomeoneGetsIn
CHECK_DEADLOCK FALSE
