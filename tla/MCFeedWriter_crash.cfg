CONSTANTS
    Writer = {w1, w2}
    AlwaysSync = {w1}
    Record = {r1, r2}
    None = None
    MaxDay = 2
    MaxRotations = 1
    MaxCrashes = 1
SPECIFICATION Spec
SYMMETRY Symmetry
INVARIANTS OnlySealingLoses SingleWriterUnlessLapsed
CHECK_DEADLOCK FALSE
