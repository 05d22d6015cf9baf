SPECIFICATION Spec
CONSTANTS
  c1 = c1
  c2 = c2
  Conns = {c1, c2}
  NoConn = NoConn
  r1 = r1
  o1 = o1
  w1 = w1
  p1 = p1
  k1 = k1
  s1 = s1
  s2 = s2
  Ids = {r1, o1, w1, p1, k1, s1, s2}
  KindOf <- MCKindOf
  NoId = NoId
  Available <- MCAvailable
  MaxFds = 1
  Mortal = {c1}
  Worlds <- MCWorlds
  Keys = {a}
  Unmapped = {esc, g}
  ExitKey = esc
  CaptureKey = g
  MaxHeld = 2
SYMMETRY Surf
INVARIANTS
  PointerGrammar
  KeyboardGrammar
  KeymapFdsAccounted
  NoKeyStuck
