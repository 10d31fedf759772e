\* Two regions, one write of the process, two searches before their results are taken.
\* The model stops where the program has died.
SPECIFICATION Spec
CONSTANTS
    NULL = NULL
    Byte <- MCByte
    Region <- MCRegion
    Pattern <- MCPattern
    Image <- MCImage
    Behind <- MCBehind
    MaxSearches = 2
    MaxWrites = 1
CHECK_DEADLOCK FALSE
INVARIANTS
    TypeOK
    MatchesLeftmost
    BlocksInside
    BlocksTellMemory
    OverrunOnlyAtTheEnd
    CondAnswered
