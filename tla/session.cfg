CONSTANTS
    HighWaterMark = 2
    MsgSizes = {1, 2}
    MaxSends = 6
SPECIFICATION FairSpec
INVARIANTS TypeOK OverflowPauses PausedWillResume WritingIffOutput FlushedBeforeFin
PROPERTY Resumes
