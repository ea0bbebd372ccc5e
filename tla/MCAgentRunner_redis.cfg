SPECIFICATION Spec
CONSTANTS
  Message = {m1, m2}
  Instance = {r1, r2}
  Outputs = {o1}
  Unsupported = {m2}
  RetryBudget = 2
  MaxInFlight = 2
  FaultyBus = TRUE
  ReleaseDropsPending = TRUE
  MaxSlow = 1
SYMMETRY Symmetry
INVARIANTS OnlyReleaseLoses AckedIsSettled NoPrematureDeadLetter
CHECK_DEADLOCK FALSE
