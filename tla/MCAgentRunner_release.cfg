SPECIFICATION Spec
CONSTANTS
  Message = {m1, m2}
  Instance = {r1, r2}
  Outputs = {o1}
  Unsupported = {}
  RetryBudget = 2
  MaxInFlight = 2
  FaultyBus = FALSE
  ReleaseDropsPending = TRUE
  MaxSlow = 0
INVARIANT NoLoss
CHECK_DEADLOCK FALSE
