SPECIFICATION Spec
CONSTANTS
    Proc = {p1, p2, p3}
    Label = {l1}
    Object = {o1, o2}
    NIL = NIL
    AlignSize = 2
    PageSize = 4
    Sizes = {2, 6}
    CfChoices <- Creating
    Rewinders = {p1}
    SyscallsMayFail = TRUE
    MaxCrashes = 1
SYMMETRY Symmetric
INVARIANTS CountExactUnlessScribbled OneOwner OwnerBacked NoOrphans
