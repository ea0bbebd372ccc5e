CONSTANTS
    Caller = {c1, c2, c3}
    Key = {k1, k2}
    MaxInflight = 2
    Sweeping = TRUE
    Aborting = {c1}
    None = None
SPECIFICATION FairSpec
CHECK_DEADLOCK FALSE
INVARIANTS SingleDoer SharedOutcome HonestAnswer
PROPERTIES EveryCallReturns
