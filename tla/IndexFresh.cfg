SPECIFICATION Spec
CONSTANTS
  p1 = p1
  p2 = p2
  p3 = p3
  Procs <- ThreeProcs
  MaxEvents = 2
  MaxEdits = 1
SYMMETRY Sym3
INVARIANT TypeOK
PROPERTY SearchSeesAcknowledged IndexNeverGoesBack
CHECK_DEADLOCK FALSE
