CONSTANTS
    P = 4
    Highest = 2
    Perms <- ROandRW
    Cbs <- OnlyRW
    Tag = {"zero", "one"}
    Zero = "zero"
    Host = {0}
    Plenty = 16
    Room = {0, 1, 2, 3, 16}
SPECIFICATION Spec
INVARIANT SearchExact
INVARIANT RepliesExact
 
