\* Texts of up to five letters, of up to four odder ones, and mask files of up to three lines.
\* The model stops where the heap is damaged.
SPECIFICATION Spec
CONSTANTS
    MaxLen = 5
    MaxOddLen = 4
    MaxRepeat = 2
    MaxKept = 3
    Start = 4096
    Text <- MCText
    Needle <- MCNeedle
    Replacement <- MCReplacement
    Pattern <- MCPattern
    Behind <- MCBehind
    Leftover <- MCLeftover
CHECK_DEADLOCK FALSE
INVARIANTS
    SearchesSound
    PartsDelimited
    RewritesFaithful
    LinesRead
    MaskOneByteLate
