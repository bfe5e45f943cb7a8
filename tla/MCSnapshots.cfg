SPECIFICATION Spec
CONSTANTS
    C1 = C1
    C2 = C2
    Unmapped = Unmapped
    Junk = Junk
    Ctx = {C1, C2}
    Id = {1, 2, 3, 4, 5, 6, 7, 8, 9, 10}
    Page <- MCPage
    Cells = 2
    Val = {0, 1}
    Maps <- MCMaps
    Unmaps <- MCUnmaps
    Writes <- MCWrites
    Rules = {"inpage", "mapping", "unmapping", "writable", "order", "lifo"}
    MaxLevel = 2
    MaxOps = 8
CHECK_DEADLOCK FALSE
INVARIANT NoDangling
INVARIANT FlatIsTree
INVARIANT BlocksAreRegions
INVARIANT CallsSucceed
 
