SPECIFICATION ForwardFairSpec
CONSTANTS
  MaxHttpHeaderSize = 4
  DefaultBufSize = 2
  WordSize = 16
  Requests <- MCRequests
INVARIANTS ForwardTypeOK ForwardedInOrder BodyComplete
PROPERTIES RequestEnds
CHECK_DEADLOCK FALSE
