CONSTANTS
  Sessions <- SmallSessions
  BUFF = 12
  SendSizes = {3, 20}
  Pieces = {2, 5, 12}
  LIMIT = 3
SPECIFICATION FairSpec
INVARIANTS Announced Unpacked
PROPERTIES AllArrive
CHECK_DEADLOCK FALSE
