CONSTANTS
  Transport = {t1, t2}
  Key <- TwoKeys
  Addr = {a1, a2, a3}
  Handle = {h1, h2, h3}
  NULL = NULL
  INVALID_SOCKET = INVALID_SOCKET
  DestroyOnDisconnect = TRUE
  TickMod = 8
  SCAVANGE_INTERVAL = 1
  MAX_CONNECTION_AGE = 3
  StartTime = 0
  MaxTime = 0
SPECIFICATION Spec
INVARIANTS PtrExclusive
SYMMETRY Symmetry
CHECK_DEADLOCK FALSE
