SPECIFICATION Spec
CONSTANTS
  Paths <- TreePaths
  Kinds = {"stat", "lstat", "readdir"}
  Clients = {c1, c2}
  Refreshers = {r}
  TTL = 1
  InitialTrees <- Trees
  MaxChanges = 4
  MaxEvents = 5
INVARIANTS SeesOwnChanges WrongForAtMostTTL
SYMMETRY Symmetry
CHECK_DEADLOCK FALSE
