SPECIFICATION FairSpec
CONSTANTS
    Page <- MCPage
    PageSize <- MCPageSize
    Program <- MCProgram
    Hooks <- MCHooks
    Layouts <- MCLayouts
    Residents <- MCResidents
    MaxRuns = 2
    MaxOps = 3
    Rules = {"kept", "still", "nostop", "resident", "uniform"}
CHECK_DEADLOCK FALSE
 
INVARIANT Checked
INVARIANT AppliedOnce
INVARIANT ErrorReported
INVARIANT HooksSeen
PROPERTY Returns
