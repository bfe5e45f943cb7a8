CONSTANTS
    P = 4
    Highest = 3
    Perms <- OnlyRW
    Cbs = {}
    Tag = {"zero", "one"}
    Zero = "zero"
    Host = {}
    Plenty = 16
    Room = {16}
SPECIFICATION Spec
PROPERTY ImplementsMemory
