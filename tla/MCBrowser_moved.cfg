CONSTANTS
    t1 = t1
    t2 = t2
    Tasks = {t1, t2}
    MaxFaults = 0
    Inline = 2
    MaxLen = 3
    Stored <- MCStored
    CachesThere <- MCCaches
    LocalHosts = {"local"}
    MaxSize = 3
    MaxFile = 3
    TreeThere <- MCTree
    MaxFlushes = 2
SPECIFICATION Spec
INVARIANT ExternalIsThere
CHECK_DEADLOCK FALSE
