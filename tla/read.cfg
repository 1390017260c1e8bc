CONSTANTS
  Callers = {c1, c2}
  Workers = {w1, w2}
  Requests = {r1, r2}
  Handles = {h1, h2}
  NULL = NULL
  Patient = FALSE
SPECIFICATION FairReadSpec
INVARIANTS WakeFindsWork AvailExact NoUseAfterFree
PROPERTIES CallReturns
CHECK_DEADLOCK FALSE
