SPECIFICATION Spec
CONSTANTS
    Chunk = {c1, c2, c3}
    Slot = {s1, s2}
    NIL = NIL
    AlignSize = 2
    MinPoolSize = 4
    SizeMod = 64
    Overhead = 3
    HeapMax = 16
    PoolSizes = {3, 6}
    Requests = {2, 3, 5}
    ShrinkTo = {0}
    CfChoices = {{"DYNAMIC"}, {"DYNAMIC", "AUTOSIZE"}}
    Calls = {"new", "free", "info", "dalloc", "nalloc"}
    MallocMayFail = TRUE
    MaxBlocks = 3
SYMMETRY Symmetry
CHECK_DEADLOCK FALSE
INVARIANTS BlocksSafe NoLeak UsedExact
PROPERTIES FailureIsClean OthersSpared ImplementsArena
