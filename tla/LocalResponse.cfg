SPECIFICATION LocalFairSpec
CONSTANTS
  Requests <- MCRequests
  MaxHeadersNum = 2
  CompressChunk = 2
  CopyChunk = 2
  MaxSize = 4
INVARIANTS LocalTypeOK EndMeansWhole SuccessIsComplete BodyAsAnnounced
PROPERTIES AnswerEnds
CHECK_DEADLOCK FALSE
