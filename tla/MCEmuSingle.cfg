CONSTANTS
    t1 = t1
    Timer = {t1}
    NoTimer = NoTimer
    MAX_NESTED = 1
    MaxCount = 2
    Allow = {"stop", "fault", "nomem"}
SPECIFICATION Spec
INVARIANT CountExact
INVARIANT StopsOnlyWhenAsked
INVARIANT TimerJoined
PROPERTY TimeoutStops
