SPECIFICATION ParseSpec
CONSTANTS
  Messages <- MCMessages
  Garbage <- MCGarbage
  NoValue = NoValue
  BYTE = 3
  Buffers <- MCBuffers
  Requests <- MCRequests
INVARIANTS
  OnBoundary
  TypeIsFound
  ReturnsTheBits
  ReadsNoFurther
PROPERTIES
  ResultMissedOnlyByGarbage
  Terminates
CHECK_DEADLOCK FALSE
