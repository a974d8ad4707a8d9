SPECIFICATION SpecAll
CONSTANTS
    Builds = {TRUE, FALSE}
    MayFail = TRUE
    Hooked = {"TERM", "SEGV"}
    MaxInits = 2
    MaxSignals = 2
    Declarations <- SomeDeclarations
    CommandLines <- SomeCommandLines
    Names <- AskedNames
    BufSize = 3
    FreedMemory = {"kept", "lost"}
    Threads = {"main", "worker"}
    Starter = "main"
    Version <- SomeVersion
    Reported <- SomeErrors
    Errnos = {2}
    UserBits = {0, 1}
    Letters = {"a", "b", "?"}
    MaxTame = 4
    MaxWild = 4
    PoolMarks = {2, 64}
    MaskBit = 4
    SizeMax = 1000
    Chars = {44, 97, 200}
    MaxText = 5
    SplitTexts <- SmallSplitTexts
    Separators <- SmallSeparators
    Sources <- SmallSources
    Fills = {65}
    TrimSets <- SmallTrimSets
    MaxLen = 4
    PrintRoom = 2
    Jobs = {"life", "options", "errors", "wildcard", "tok", "split", "buf"}
INVARIANTS
    CleanupOnce CleanupRan PoolsReadyUnlessRetried
    AnswersRight RecordsFreed RcTells
    WildRight TokensRight SplitRoom SplitRight SplitFreed StrSound CmpLexicographic
PROPERTIES
    ExitEnds CrashEnds ArgumentsEnd MatchingEnds ImplementsText
CHECK_DEADLOCK FALSE
