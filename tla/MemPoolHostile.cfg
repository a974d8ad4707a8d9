SPECIFICATION Spec
CONSTANTS
    Chunk = {c1, c2, c3}
    Slot = {s1, s2}
    NIL = NIL
    AlignSize = 2
    MinPoolSize = 4
    SizeMod = 64
    Overhead = 3
    HeapMax = 16
    PoolSizes = {6}
    Requests = {2, 4}
    ShrinkTo = {0}
    CfChoices = {{"DYNAMIC", "NOZEROFILL"}}
    Calls = {"new", "free", "shrink", "merge", "dalloc", "nalloc", "ralloc", "destroy"}
    MallocMayFail = TRUE
    MaxBlocks = 2
SYMMETRY Symmetry
CHECK_DEADLOCK FALSE
INVARIANTS ChainsSound BlocksSafeUnlessOverrun
