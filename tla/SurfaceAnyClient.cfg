SPECIFICATION Spec
CONSTANTS
  Ids = {i1, i2, i3}
  NoId = NoId
  Limit <- AnyLimit
  MaxSize = 2
  Promises = {}
SYMMETRY Symmetry
INVARIANTS
  TypeOK
  IdConservation
  NoEventAfterDelete
  FramesListedOnce
CHECK_DEADLOCK FALSE
