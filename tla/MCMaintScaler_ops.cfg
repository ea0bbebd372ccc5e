CONSTANTS
    Target = {t1, t2, t3}
    SelfScaling = {}
    Signal <- MCSignal
    PinCount = {2}
    Deployed = {1, 3}
    MaxTargets = 2
    MinReplicas = 1
    MaxReplicas = 2
    MaxStep = 1
    GraceWindows = 0
    HysteresisWindows = 2
    MinInterval = 0
    PinTtl = 1
    PauseTtl = 2
    GlobalCap = 3
    MaxChanges = 2
    MaxEvents = 3
SPECIFICATION Spec
SYMMETRY Symmetry
INVARIANTS TypeOK PinHeld PauseHeld
PROPERTY CapOverrunByNewcomers
