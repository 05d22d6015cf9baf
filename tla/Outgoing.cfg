SPECIFICATION FairSpec
CONSTANTS
  MaxEvents = 3
  MaxUnits = 2
  Capacity = 2
  MaxFds = 2
INVARIANTS
  TypeOK
  FdsHeldOnce
  ClosedOnlyWhenSent
PROPERTIES
  DeliversBytes
  DeliversWithFds
CHECK_DEADLOCK FALSE
