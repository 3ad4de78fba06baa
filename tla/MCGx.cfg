SPECIFICATION Spec
CONSTANTS
  App = "Gx"
  Hops <- MCHops
  Times <- MCTimes
  Ccs <- MCCcs
  ReqTypes <- MCReqTypes
  ResCodes <- MCResCodes
  MaxPackets = 5
INVARIANTS
  Balanced
  CutoffUnreachable
  Conservation
  PrintedOnce
PROPERTIES
  RollOverSettles
  WindowsDisjoint
CHECK_DEADLOCK FALSE
