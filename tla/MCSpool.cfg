SPECIFICATION FairSpec
CONSTANTS
  p1 = p1
  p2 = p2
  f1 = f1
  f2 = f2
  NULL = NULL
  Procs = {p1, p2}
  Files = {f1, f2}
  Suffix <- OneSuffix
INVARIANTS
  ClaimsDisjoint
  ReadOnce
  StopIsFinal
PROPERTIES
  OrphansAreLost
  KeepsPromise
  SpoolDrains
  InstanceComesBack
CHECK_DEADLOCK FALSE
