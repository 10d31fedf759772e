\* Two threads that set any views, matrices of two parts.
SPECIFICATION Spec
CONSTANTS
    Thread = {t1, t2}
    Parts = 2
    Value <- MCValue
    Default <- MCDefault
INVARIANTS
    OneView
PROPERTIES
    ViewSettles
