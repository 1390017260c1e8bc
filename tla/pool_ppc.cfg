CONSTANTS
  Transport = {t1, t2}
  Key <- OneKey
  Addr = {a1, a2}
  Handle = {h1, h2}
  NULL = NULL
  INVALID_SOCKET = INVALID_SOCKET
  DestroyOnDisconnect = FALSE
  TickMod = 8
  SCAVANGE_INTERVAL = 1
  MAX_CONNECTION_AGE = 2
  StartTime = 2
  MaxTime = 10
SPECIFICATION Spec
INVARIANTS TypeOK PtrExclusive
PROPERTIES Scavanges IdleAgeBounded
SYMMETRY Symmetry
CHECK_DEADLOCK FALSE
