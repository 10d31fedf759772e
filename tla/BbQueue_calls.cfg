\* Every call in every order on up to four children, positions from -2 to 5. The
\* model stops where a NULL child was followed.
CONSTANTS
    n1 = n1
    n2 = n2
    n3 = n3
    n4 = n4
    Node <- MCNode
    Data = {11, 12}
    NULL = NULL
    Position <- MCPosition
    Careful = TRUE
SPECIFICATION Spec
SYMMETRY Symmetric
CHECK_DEADLOCK FALSE
INVARIANTS
    TypeOK
    WellLinked
PROPERTIES
    OnlyAddNthLeaks
    ImplementsSequence
