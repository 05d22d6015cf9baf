SPECIFICATION Spec
CONSTANTS
  Base = 6
  Values <- MCValues
  Foreign <- MCForeign
  MaxArgs = 3
INVARIANTS
  ReaderStaysInside
  ReadsWhatWasWritten
  FramedWhole
CHECK_DEADLOCK FALSE
