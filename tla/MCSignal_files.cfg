SPECIFICATION FairSpec
CONSTANTS
    t1 = t1
    t2 = t2
    t3 = t3
    None = None
    Threads = {t1, t2}
    Readers = {"r"}
    Writers = {"w"}
    Rdwrs = {"d"}
    Cap = 1
    FrameLen = 2
    ReadSizes = {1}
    MaxFrames = 2

INVARIANT StreamsIntact
PROPERTY RdwrCloseReturns
CHECK_DEADLOCK FALSE
