SPECIFICATION Spec
CONSTANTS
  Threads = {t1, t2}
  AutoKind = auto
  Kinds = {exec}
  Unknown = unknown
  Names = {a}
  Start = start
  NoOne = NoOne
  MaxFiles = 3
  MaxCalls = 7
INVARIANTS OneTaskPerFile AliasFound AckedWritesReachCloseFunc NobodyStuck
SYMMETRY Symmetry
CHECK_DEADLOCK FALSE
