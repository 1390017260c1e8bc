CONSTANTS
  Sessions <- SmallSessions
  BUF = 6
  TOP_UP = 4
  READ_INPUT = 12
  Pieces = {1, 3}
  ReadSizes = {1, 2}
SPECIFICATION FairSpec
INVARIANTS Understood
PROPERTIES ImplementsStream EchoArrives
CHECK_DEADLOCK FALSE
