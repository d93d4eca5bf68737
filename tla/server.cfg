CONSTANTS
    base = base
    io = io
    Loops = {base, io}
    Base = base
    IoLoops <- OneIoLoop
    Conns = {c1, c2}
SPECIFICATION FairSpec
INVARIANTS TypeOK UpThenDown WakeupNotLost AssertsHoldWhileServing
PROPERTIES ClosedIsReleased QuitIsHeard
CHECK_DEADLOCK FALSE
