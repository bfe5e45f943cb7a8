CONSTANTS
    Timer = {}
    NoTimer = NoTimer
    MAX_NESTED = 2
    MaxCount = 1
    Allow = {"stop", "setpc", "nest", "fault", "nomem"}
SPECIFICATION Spec
INVARIANT StopHonoured
INVARIANT ErrorsStayLocal
PROPERTY StopStops
