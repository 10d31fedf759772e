\* Two threads that receive, send and meet a new handler. The model stops where the
\* client has died.
SPECIFICATION FairSpec
CONSTANTS
    Thread = {t1, t2}
    NoThread = NoThread
    capture = capture
    handlers = handlers
    stdout = stdout
    NULL = NULL
    NewHandlers = 1
CHECK_DEADLOCK FALSE
INVARIANTS
    TypeOK
    DumpsPlaced
    OutputRestored
PROPERTIES
    PassedOn
