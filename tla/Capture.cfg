CONSTANTS
  h1 = h1
  Helpers = {h1}
  Worlds <- MCWorlds
  MaxFrames = 3
  PixelUnits = 2
  Capacity = 2
  AckCapacity = 2
SPECIFICATION Spec
INVARIANTS
  ShownAreFrames
PROPERTIES
  SessionsEnd
CHECK_DEADLOCK FALSE
