CONSTANTS
  k1 = k1  k2 = k2  r1 = r1
  Procs = {p, q}
  Getters = {p, q}
  Keys <- MCKeys
  Vals = {v}
  Tab2Of <- MCTab2Of
  RowOf <- MCRowOf
  TABS = 2
  REFS = 2
  Inodes <- ManyInodes
  NULL = NULL
  REPLACED = REPLACED
SPECIFICATION Spec
INVARIANT NothingMissed
CHECK_DEADLOCK FALSE
