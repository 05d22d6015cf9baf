CONSTANTS
  c1 = c1
  c2 = c2
  unix = unix
  NoConn = NoConn
  Conns <- MCConns
  Listeners <- MCListeners
  Worlds <- MCWorlds
  MaxRequests = 1
  MaxEnables = 2
SPECIFICATION Spec
INVARIANTS
  NoDanglingUse
  OffIsOff
PROPERTIES
  ShutdownReturns
CHECK_DEADLOCK FALSE
