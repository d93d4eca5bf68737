CONSTANTS
    kCheapPrepend = 4
    kInitialSize = 8
    Messages <- AllMessages
    KnownNames <- Names
    Decodable <- GoodMessages
    Foreign <- OtherSenders
    kMaxMessageLen = 18
    ChunkSizes = {3, 14, 40}
    MaxSent = 3
SPECIFICATION Spec
INVARIANTS TypeOK DeliversWhatArrived ErrorIsTheFirst
PROPERTY NothingAfterError
CHECK_DEADLOCK FALSE
