SPECIFICATION FairSpec
CONSTANTS
  Procs = {a, b}
  qs = 3
  q_items = 3
  qids_nolock_max = 2
  NONE = NONE
INVARIANTS
  ListsSound
  EachItemOnce
PROPERTIES
  KeepsPromise
  Delivered
