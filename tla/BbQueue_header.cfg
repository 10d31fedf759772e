\* Callers are not careful: does one of the header's five statements hold?
CONSTANTS
    n1 = n1
    n2 = n2
    n3 = n3
    Node <- MCNode
    Data = {11, 12}
    NULL = NULL
    Position <- MCPosition
    Careful = FALSE
SPECIFICATION HeaderSpec
CHECK_DEADLOCK FALSE
SYMMETRY Symmetric
INVARIANT HeaderRightSomewhere
