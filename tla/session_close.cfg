CONSTANTS
    HighWaterMark = 2
    MsgSizes = {1, 2}
    MaxSends = 3
SPECIFICATION Spec
INVARIANT CloseAssertHolds
