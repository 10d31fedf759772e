\* Short texts: is one of the two comments on searches right?
SPECIFICATION DocsSpec
CONSTANTS
    MaxLen = 3
    MaxOddLen = 1
    MaxRepeat = 2
    MaxKept = 3
    Start = 4096
    Text <- MCText
    Needle <- MCNeedle
    Replacement <- MCReplacement
    Pattern <- MCPattern
    Behind <- MCBehind
    Leftover <- MCLeftover
CHECK_DEADLOCK FALSE
INVARIANTS
    DocsRightSomewhere
