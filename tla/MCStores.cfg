CONSTANTS
    t1 = t1
    t2 = t2
    Threads = {t1, t2}
    Paths <- MCPaths
    Names = {"d", "e", "x"}
    Stored <- MCStored
    Ops <- MCOps
    MaxRetries = 2
    MaxCalls = 3
    MaxFaults = 1
    CowDirs <- MCCowDirs
    CowFiles <- MCCowFiles
    CowBase <- MCCowBase
    CowOps = 4
SPECIFICATION MCSpec
INVARIANTS AsOneByOne RenameKeepsObject ViewIsTree CutRenameKeepsFile
CHECK_DEADLOCK FALSE
