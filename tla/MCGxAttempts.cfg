SPECIFICATION Spec
CONSTANTS
  App = "Gx"
  Hops <- MCHops
  Times <- MCTimes
  Ccs <- MCCcs
  ReqTypes <- MCReqTypes
  ResCodes <- MCResCodes
  MaxPackets = 5
INVARIANTS
  AttemptsAreRequests
CHECK_DEADLOCK FALSE
