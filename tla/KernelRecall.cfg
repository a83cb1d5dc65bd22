SPECIFICATION KernelSpec
CONSTANTS
  k1 = k1
  k2 = k2
  k3 = k3
  w = w
  None = None
  NoDate = NoDate
  Stems <- OneStem
  Inputs <- EveryItem
  AsOf = 2
  Nows = {1, 2, 3}
  RareDf = 1
  MaxFeed = 3
SYMMETRY Sym
INVARIANT ReplacedHasHeir HiddenChangesNothing
CHECK_DEADLOCK FALSE
