CONSTANTS
    kCheapPrepend = 2
    kInitialSize = 3
    Strings <- ShortStrings
    Ints <- SampleInts
    MaxSize = 8
    MaxReserve = 4
SPECIFICATION Spec
INVARIANTS TypeOK SpaceIsMade IntReadsBack
PROPERTY ImplementsByteFifo
