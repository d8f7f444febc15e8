SPECIFICATION RelayFairSpec
CONSTANT MaxMessages = 3
INVARIANTS CallbackPerEnd
PROPERTIES  MessageDelivered SessionEnds
CHECK_DEADLOCK FALSE
