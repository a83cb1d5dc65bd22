SPECIFICATION Spec
CONSTANTS
  o1 = o1
  o2 = o2
  o3 = o3
  a = a
  NoRecord = NoRecord
  Ids <- ThreeIds
  Tokens <- OneToken
  Policies <- EveryPolicy
  Sizes = {1, 3}
  Lengths = {0, 2}
  Weights = {0, 1}
  Draws = {0, 1}
  Times = {0, 1}
  Num = 1
  Den = 2
  RareCap = 2
  MaxSeen = 4
  MaxBatch = 3
SYMMETRY Sym
INVARIANT TypeOK WithinOneRecord InnerMirrors NewestStay
PROPERTY EvictsTheLeast
