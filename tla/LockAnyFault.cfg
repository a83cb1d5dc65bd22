SPECIFICATION FairSpec
CONSTANTS
  p1 = p1
  p2 = p2
  p3 = p3
  NoProc = NoProc
  Procs <- ThreeProcs
  Host <- TwoHosts
  Faults <- AllFaults
INVARIANT TypeOK ExclusiveUnlessStolen HolderOwnsTheFile
PROPERTY FirstTheft OrphanIsRemoved
CHECK_DEADLOCK FALSE
