SPECIFICATION Spec
CONSTANTS
  UnderstoodHeaders <- Declared
  Messages <- SmallMessages
  Styles <- SmallStyles
INVARIANTS Restored EndedOnce RoundTrip
