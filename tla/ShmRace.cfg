SPECIFICATION Spec
CONSTANTS
    Proc = {p1, p2}
    Label = {l1}
    Object = {o1, o2, o3}
    NIL = NIL
    AlignSize = 2
    PageSize = 4
    Sizes = {2}
    CfChoices <- Sharing
    Rewinders = {}
    SyscallsMayFail = FALSE
    MaxCrashes = 0
SYMMETRY Symmetric
PROPERTIES UnlinkOnLastRelease
