SPECIFICATION FairSpec
CONSTANTS
  Ids = {i1, i2, i3, i4}
  NoId = NoId
  Limit <- FrameLimit
  MaxSize = 1
  Promises = {"wellFormed", "paced", "waitsRelease", "rolesFirst"}
INVARIANTS
  ReleaseOwedOnce
  DataMatchesObject
  NeverKilled
PROPERTIES
  ImplementsContract
