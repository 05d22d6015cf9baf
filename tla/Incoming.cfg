SPECIFICATION FairSpec
CONSTANTS
  MaxRequests = 2
  MaxUnits = 3
  BufferSize = 2
  MaxIncoming = 3
  MaxFds = 1
  ClientFds = 2
INVARIANTS
  TypeOK
  FdsAccounted
  KilledForCause
PROPERTIES
  DispatchesBytes
  DispatchesWithFds
CHECK_DEADLOCK FALSE
