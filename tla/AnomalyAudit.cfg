SPECIFICATION Spec
CONSTANTS
    Tokens = {t1}
    Threshold = 3
    Window = 2
    Horizon = 4
    Burst = 3
INVARIANTS
    AnomalyAudited
CHECK_DEADLOCK FALSE
