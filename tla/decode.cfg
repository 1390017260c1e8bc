CONSTANTS
  Response <- SmallResponses
  ReadSizes = {1, 2, 4}
  SIZE_BUFF = 5
  TRAILER_BUFF = 8
SPECIFICATION FairSpec
INVARIANTS InStep
PROPERTIES Completes ImplementsStream
