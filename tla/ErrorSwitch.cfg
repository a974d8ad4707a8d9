SPECIFICATION SpecAll
CONSTANTS
    Builds = {FALSE}
    MayFail = FALSE
    Hooked = {}
    MaxInits = 0
    MaxSignals = 0
    Declarations = {}
    CommandLines = {}
    Names = {}
    BufSize = 3
    FreedMemory = {"kept"}
    Threads = {"main"}
    Starter = "main"
    Version <- SomeVersion
    Reported <- SomeErrors
    Errnos = {}
    UserBits = {}
    Letters = {}
    MaxTame = 0
    MaxWild = 0
    PoolMarks = {64}
    MaskBit = 4
    SizeMax = 1000
    Chars = {}
    MaxText = 0
    SplitTexts = {}
    Separators = {}
    Sources = {}
    Fills = {}
    TrimSets = {}
    MaxLen = 0
    PrintRoom = 2
    Jobs = {"errors"}
INVARIANT ReasonTold
CHECK_DEADLOCK FALSE
