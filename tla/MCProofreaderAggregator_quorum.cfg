CONSTANTS
    Prediction = {p1, p2}
    Replica = {r1, r2, r3}
    Quorum = 2
    MaxPending = 1
    LedgerSize = 1
    KeyMissing = TRUE
SPECIFICATION Spec
SYMMETRY Symmetry
INVARIANTS ApprovalBacked RejectIsFatal ApprovedOnce CandidateAccounted
