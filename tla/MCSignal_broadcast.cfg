SPECIFICATION Spec
CONSTANTS
    t1 = t1
    t2 = t2
    t3 = t3
    None = None
    Threads <- MCThreads
    Readers = {"r", "s"}
    Writers = {"w"}
    Rdwrs = {}
    Cap = 1
    FrameLen = 2
    ReadSizes = {1}
    MaxFrames = 2

INVARIANT BroadcastReachesSubscribers
CHECK_DEADLOCK FALSE
