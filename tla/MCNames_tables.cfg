CONSTANTS
    Threads = {t1, t2}
    Spaces = {main, child}
    Main = main
    Names = {hash, a}
    Kept = {hash}
    Systems = {pipe, mem}
    Creators = {mem}
    Allocators = {pipe}
    Modes = {"after", "before", "replace", "bad"}
    None = None
    MaxMaps = 3
    MaxAllocs = 2
    NS = "ns"
    Bound = {"rom", "map", "mem"}
    Creating = {"mem"}
    Mounts <- MapMounts
    Trees <- RomTrees
    Letters <- TwoLetters
    Points <- Points2
    Sources <- RomSources
    Queries <- Queries2
    MaxBinds = 3
SPECIFICATION MCSpec
INVARIANTS OpenIsTheUnion StatIsOpen
PROPERTIES SnapshotsFrozen AtomicTables CallsReturn CreatedIsFound
CHECK_DEADLOCK FALSE
