SPECIFICATION FairSpec
CONSTANTS
  k1 = k1 k2 = k2 p1 = p1 p2 = p2
  Key = {k1, k2}
  Predictor = {p1, p2}
  Unfusable <- BadVotes
  MaxPending = 1
  LedgerSize = 1
  MaxVersion = 2
  MaxRestarts = 2
INVARIANTS OncePerPrediction MarkedIsPublished AcceptedVotesFused
PROPERTY EventuallyResolved
