CONSTANTS
  k1 = k1  k2 = k2  r1 = r1
  Procs = {p, q}
  Getters = {p}
  Keys <- MCKeys
  Vals = {v}
  Tab2Of <- MCTab2Of
  RowOf <- MCRowOf
  TABS = 2
  REFS = 2
  Inodes <- MCInodes
  NULL = NULL
  REPLACED = REPLACED
SPECIFICATION FairSpec
INVARIANTS RefsBelong DataCounted OnlyOverflowExits NothingMissed
PROPERTIES KeepsPromise PutEnds
CHECK_DEADLOCK FALSE
