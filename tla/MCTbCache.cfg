SPECIFICATION FairSpec
CONSTANTS
    NSlots = 3
    PageSize = 2
    VPages = {0, 1}
    Frames = {0, 1}
    Pc = {0, 1, 2}
    Size <- MCSize
    Target <- MCTarget
    Indirect <- MCIndirect
    StoreTo <- MCStoreTo
    JmpHash <- MCJmpHash
    PreciseSmc = TRUE
    MaxLevel = 1
    Calls = {"ondemand"}
    MaxOps = 2
CHECK_DEADLOCK FALSE
INVARIANT ChainsMirror
 
INVARIANT JmpCacheCurrent
 
INVARIANT RunningKept
PROPERTY StoreCompletes
