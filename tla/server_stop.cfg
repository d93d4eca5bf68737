CONSTANTS
    base = base
    io = io
    Loops = {base, io}
    Base = base
    IoLoops <- OneIoLoop
    Conns = {c1}
SPECIFICATION Spec
INVARIANT AssertsHold
CHECK_DEADLOCK FALSE
