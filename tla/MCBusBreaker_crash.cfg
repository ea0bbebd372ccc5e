CONSTANTS
    Message = {m1, m2, m3, c1}
    Critical = {c1}
    FailThreshold = 2
    MaxSpool = 2
    MaxCrashes = 2
SPECIFICATION BreakerFairSpec
CHECK_DEADLOCK FALSE
INVARIANTS BreakerTypeOK SpooledSurvives DoubleOnlyTorn
PROPERTIES SpoolDrained
