SPECIFICATION Spec
CONSTANTS
  p1 = p1
  p2 = p2
  p3 = p3
  Procs <- TwoProcs
  MaxEvents = 2
  MaxEdits = 0
SYMMETRY Sym2
PROPERTY LoneSearchHidesSuperseded
CHECK_DEADLOCK FALSE
