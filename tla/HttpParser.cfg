SPECIFICATION ParserFairSpec
CONSTANTS
  BufferSize = 2
  MaxMsgLength = 6
INVARIANTS ParserTypeOK BytesInOrder ParsedRequest
PROPERTIES CallReturns
CHECK_DEADLOCK FALSE
