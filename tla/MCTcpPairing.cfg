SPECIFICATION Spec
CONSTANTS
  Hosts <- MCHosts
  Hops <- MCHops
  MaxHop = 2
  Frames <- MCFrames
  MaxFrames = 5
  NULL = NULL
INVARIANT
  FoundForRes
CHECK_DEADLOCK FALSE
