CONSTANTS
    t1 = t1
    t2 = t2
    Tasks = {t1, t2}
    MaxFaults = 1
    Inline = 2
    MaxLen = 3
    Stored <- MCStored
    CachesThere <- MCCaches
    LocalHosts = {"local"}
    MaxSize = 3
    MaxFile = 3
    TreeThere <- MCTree
    MaxFlushes = 2
SPECIFICATION Spec
INVARIANTS RenameKeeps CachesAgree  SaveIsDue
CHECK_DEADLOCK FALSE
