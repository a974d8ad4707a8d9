SPECIFICATION WildSpec
CONSTANTS
    Letters = {"a", "b"}
    MaxTame = 4
    MaxWild = 4
INVARIANT WildMatches
CHECK_DEADLOCK FALSE
