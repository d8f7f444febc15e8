SPECIFICATION ForwardSpec
CONSTANTS
  MaxHttpHeaderSize = 4
  DefaultBufSize = 2
  WordSize = 16
  Requests <- ShortHeader
INVARIANT WholeBody
CHECK_DEADLOCK FALSE
