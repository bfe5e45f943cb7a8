SPECIFICATION FairSpec
CONSTANTS
    H1 = H1
    H2 = H2
    H3 = H3
    Count = Count
    Helper = Helper
    NoHook = NoHook
    Cells <- MCCells
    PageSize = 2
    Jumps <- MCJumps
    Hook <- MCHook
    Type <- MCType
    Bounds <- MCBounds
    Begins = {1}
    Untils = {2, 4}
    Exits <- MCExits
    Counts = {0, 2}
    MoveExits = {"off"}
    MaxOps = 5
CHECK_DEADLOCK FALSE
INVARIANT CountKept
INVARIANT DeletedNotCalled
INVARIANT RemovedTakesEffect
INVARIANT HaltsAtExit
PROPERTY StopEnds
PROPERTY CountEnds
