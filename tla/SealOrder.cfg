CONSTANTS
  k1 = k1
  k2 = k2
  p1 = p1
  p2 = p2
  x1 = x1
  x2 = x2
  Keys = {k1, k2}
  Pools = {p1, p2}
  Candidates = {x1, x2}
  Times = {1, 2}
  NoFile = NoFile
  Torn = Torn
SPECIFICATION Spec
SYMMETRY Symmetric
INVARIANTS
  TypeOK
  VerifiedIsBlind
  VerifiedHalvesMatch
PROPERTIES
  SpentIsFinal
