CONSTANTS
  h1 = h1
  Helpers = {h1}
  Worlds <- MCWorlds
  MaxFrames = 2
  PixelUnits = 2
  Capacity = 2
  AckCapacity = 1
SPECIFICATION Spec
PROPERTIES
  StopReturns
CHECK_DEADLOCK FALSE
