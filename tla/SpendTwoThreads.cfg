SPECIFICATION Spec
CONSTANTS
  proxy = proxy
  client = client
  w1 = w1
  w2 = w2
  w3 = w3
  Procs <- OneProc
  Workers <- TwoWorkers
  ProcOf <- BothInProxy
  Clients = {}
  Costs <- OneCost
  TotalCap = 5
  RunCap = 9
  FirstReserve = 2
  Scoped = TRUE
  Faults <- NoFaults
  MaxCalls = 5
INVARIANT HardCap
CHECK_DEADLOCK FALSE
