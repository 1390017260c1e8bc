CONSTANTS
  Transport = {t1, t2}
  Key <- ProxyKeys
  Addr = {a1, a2}
  Handle = {h1, h2}
  NULL = NULL
  INVALID_SOCKET = INVALID_SOCKET
  DestroyOnDisconnect = TRUE
  TickMod = 8
  SCAVANGE_INTERVAL = 1
  MAX_CONNECTION_AGE = 3
  StartTime = 0
  MaxTime = 0
SPECIFICATION FairSpec
INVARIANTS ExclusiveLease RightEndpoint SocketsAccountedFor
PROPERTIES SendReturns
CONSTRAINT AstrayAlone
CHECK_DEADLOCK FALSE
