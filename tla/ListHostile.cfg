SPECIFICATION Spec
CONSTANTS
    Node = {n1, n2, n3}
    Own = {n3}
    List = {l1, l2}
    NoMalloc = {l2}
    NIL = NIL
    Data = {1}
    MaxRecyclable <- DefaultsOrNone
    Calls = {"new", "free", "bring", "node_new", "node_free", "insert_tail", "insert_head", "insert_tail_data", "insert_head_data", "remove", "remove_data", "find_data", "foreach", "concat", "sort", "resize"}
    BrokenCalls = {"free", "foreach", "remove", "remove_data"}
    MallocMayFail = TRUE
SYMMETRY Symmetric
CHECK_DEADLOCK FALSE
INVARIANTS ForwardSound MembersMet TailKnown RecycledApart
PROPERTIES OthersSpared
