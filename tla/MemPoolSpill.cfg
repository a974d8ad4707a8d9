SPECIFICATION Spec
CONSTANTS
    Chunk = {c1, c2}
    Slot = {s1}
    NIL = NIL
    AlignSize = 2
    MinPoolSize = 4
    SizeMod = 64
    Overhead = 3
    HeapMax = 16
    PoolSizes = {6}
    Requests = {1, 3}
    ShrinkTo = {0}
    CfChoices = {{"DYNAMIC"}}
    Calls = {"new", "dalloc", "nalloc", "ralloc"}
    MallocMayFail = FALSE
    MaxBlocks = 3
SYMMETRY Symmetry
CHECK_DEADLOCK FALSE
INVARIANTS BlocksSafe
