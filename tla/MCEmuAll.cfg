CONSTANTS
    t1 = t1
    Timer = {t1}
    NoTimer = NoTimer
    MAX_NESTED = 2
    MaxCount = 0
    Allow = {"stop", "setpc", "protect", "nest", "fault", "exception", "it", "delay", "debug", "early"}
SPECIFICATION Spec
INVARIANT JumpTarget
INVARIANT DoneOutside
