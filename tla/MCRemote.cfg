CONSTANTS
    c1 = c1
    c2 = c2
    Clients = {c1, c2}
    Paths <- MCPaths
    Names = {"d", "e", "f"}
    Stored <- MCStored
    Ops <- MCOps
    Modes = {1}
    Background = {"renew", "prefetch"}
    MaxCalls <- MCCalls
    MaxFaults = 1
    Threads = {c1, c2}
    SyncPaths = {1, 2}
    SyncStored <- MCSyncStored
    SyncStart = 4
    SyncOps <- MCSyncOps
    MaxOps = 2
    MaxRemote = 1
    SyncFaults = 1
SPECIFICATION MCSpec
INVARIANTS NothingLost InStep PushIsDue SeesOwnChanges KeepsMode
CHECK_DEADLOCK FALSE
