CONSTANTS
    r1 = r1
    r2 = r2
    a = a
    b = b
    bad = bad
    neg = neg
    p1 = p1
    p2 = p2
    p3 = p3
    Record = {r1, r2}
    Value = {a, b, neg, bad}
    Malformed = {bad}
    Terminal = {b, neg}
    Impossible = {neg}
    LeagueOf <- MCLeagueOf
    PlaneOf <- MCPlaneOf
    Feed <- MCFeed
    Predictors <- MCPredictors
    Drifting = {p2}
    Reactor = {"live", "trainer"}
    RetryBudget = 2
    MaxInFlight = 2
    LedgerSize = 1
    MaxScrapes = 2
    MaxFaults = 1
SPECIFICATION FairSpec
CHECK_DEADLOCK FALSE
INVARIANTS TypeOK ChangeAnnounced RowBehindOnlyByReplay AckedEventReacted RequestOncePerMemory DebounceBacked
PROPERTY EventuallyQuiet
