CONSTANTS
    h1 = h1
    h2 = h2
    h3 = h3
    Hook = {h1, h2, h3}
    NoHook = NoHook
    Idx = {1, 2, 3, 16}
    INSN_IDX = 1
    CODE_IDX = 2
    BLOCK_IDX = 3
    TCG_OPCODE_IDX = 16
    MAX_NESTED = 2
    NoMemAt = {}
SYMMETRY HookSymmetry
SPECIFICATION Spec
CHECK_DEADLOCK FALSE
INVARIANT NoDangling
INVARIANT IterSafe
INVARIANT CountExact
INVARIANT CounterFirst
INVARIANT DeletedDestroyed
