CONSTANTS
    t1 = t1
    Timer = {t1}
    NoTimer = NoTimer
    MAX_NESTED = 1
    MaxCount = 0
    Allow = {"early"}
SPECIFICATION Spec
PROPERTY TimeoutStops
