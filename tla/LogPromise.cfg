SPECIFICATION Spec
CONSTANTS
  w1 = w1
  w2 = w2
  i1 = i1
  i2 = i2
  i3 = i3
  i4 = i4
  NoId = NoId
  Malformed = Malformed
  Undecodable = Undecodable
  Writers <- TwoWriters
  Ids <- FourIds
  Cuts <- AsciiCut
SYMMETRY Sym24
INVARIANT TypeOK LossBoundedByTears SuccessorsBounded VerifierBlamesTears
PROPERTY ImplementsAtomicLog
CHECK_DEADLOCK FALSE
