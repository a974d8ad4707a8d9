SPECIFICATION Spec
CONSTANTS
    Node = {n1, n2, n3, n4}
    Own = {}
    List = {l1, l2}
    NoMalloc = {}
    NIL = NIL
    Data = {1, 2}
    MaxRecyclable <- Defaults
    Calls = {"new", "free", "insert_tail_data", "remove", "concat", "sort", "foreach"}
    BrokenCalls = {}
    MallocMayFail = FALSE
SYMMETRY Symmetric
CHECK_DEADLOCK FALSE
INVARIANTS SortsAsMergesort
PROPERTIES ImplementsSequences
