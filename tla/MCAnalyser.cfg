SPECIFICATION AnalyserSpec
CONSTANTS
  Hosts <- MCHosts
  Hops <- MCHops
  MaxHop = 2
  Frames <- MCFrames
  Captures <- MCCaptures
  MaxFrames = 5
  NULL = NULL
INVARIANTS
  HopIdsDiffer
  ObjectsSound
  AnsweredByPeer
  PayloadIsOwn
  FlowsCountOwn
  TotalsWithinFlows
  FirstFrameBounds
PROPERTIES
  ReportsAdvance
CHECK_DEADLOCK FALSE
