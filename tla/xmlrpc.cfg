CONSTANTS
  Members = {1, 3}
  Markup = {3}
  Values <- SmallValues
  Arguments <- SmallArguments
  Answers <- SmallAnswers
  Layouts <- SmallLayouts
  MaxOps = 2
  MaxCalls = 2
SPECIFICATION Spec
INVARIANTS ResponseMeant RoundTrip Reported
CONSTRAINT Bounded
CHECK_DEADLOCK FALSE
