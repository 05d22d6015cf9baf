SPECIFICATION FairSpec
CONSTANTS
  SurfaceIds = {s1}
  XdgIds = {x1}
  ToplevelIds = {t1, t2}
  NoId = NoId
  MaxRequests = 2
  MaxOut = 1
INVARIANTS
  TypeOK
  OneWindowPerSurface
  QuietIsAsAsked
PROPERTIES
  AsksAreAnswered
  DisplaysFollow
