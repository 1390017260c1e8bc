CONSTANTS
  Sessions <- SmallSessions
  Requests = {1, 4}
  ReadSizes = {1, 2}
  MAX_MESSAGE = 3
  FIX = 1
  IO_BUFFER_SIZE = 4
SPECIFICATION FairSpec
INVARIANTS NeverWaitsWithData ContextReleased
PROPERTIES ImplementsStream AnswersArrive
CHECK_DEADLOCK FALSE
