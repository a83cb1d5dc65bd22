SPECIFICATION Spec
CONSTANTS
  proxy = proxy
  client = client
  w1 = w1
  w2 = w2
  w3 = w3
  Procs <- TwoProcs
  Workers <- ThreeWorkers
  ProcOf <- TwoAndOne
  Clients = {client}
  Costs <- SteadyCosts
  TotalCap = 5
  RunCap = 5
  FirstReserve = 3
  Scoped = TRUE
  Faults <- AnyFault
  MaxCalls = 5
INVARIANT TypeOK OverspendBounded RunOverspendBounded LedgerErrorBoundedByTears
CHECK_DEADLOCK FALSE
