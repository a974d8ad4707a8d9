SPECIFICATION SpecAll
CONSTANTS
    Builds = {FALSE}
    MayFail = FALSE
    Hooked = {}
    MaxInits = 0
    MaxSignals = 0
    Declarations <- SomeDeclarations
    CommandLines <- SomeCommandLines
    Names <- AskedNames
    BufSize = 3
    FreedMemory = {"kept"}
    Threads = {"main"}
    Starter = "main"
    Version <- SomeVersion
    Reported = {}
    Errnos = {}
    UserBits = {}
    Letters = {}
    MaxTame = 0
    MaxWild = 0
    PoolMarks = {64}
    MaskBit = 4
    SizeMax = 1000
    Chars = {}
    MaxText = 0
    SplitTexts = {}
    Separators = {}
    Sources = {}
    Fills = {}
    TrimSets = {}
    MaxLen = 0
    PrintRoom = 2
    Jobs = {"options"}
PROPERTY ValidOptionsTaken
CHECK_DEADLOCK FALSE
