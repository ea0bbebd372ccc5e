SPECIFICATION FairSpec
CONSTANTS
  Message = {m1}
  Instance = {r1, r2}
  Outputs = {o1, o2}
  Unsupported = {}
  RetryBudget = 2
  MaxInFlight = 2
  FaultyBus = FALSE
  ReleaseDropsPending = FALSE
  MaxSlow = 1
INVARIANT ExclusiveUnlessSlow
PROPERTIES ImplementsReliableTopic EventuallySettled
CHECK_DEADLOCK FALSE
