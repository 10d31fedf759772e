\* The model stops where the client has died.
\* Two receiving threads that may meet a handler together.
SPECIFICATION Spec
CONSTANTS
    Thread = {t1, t2}
    Handler = {f1, f2}
    MaxChild = 3
    Recv = Recv
    RecvHook = RecvHook
    NullHook = NullHook
    h0 = h0
    h1 = h1
    NoFunction = NoFunction
    Original = Original
    Bridge = Bridge
    MaxHooks = 9
    Function <- MCFunction
    HookAddr <- MCHookAddr
    Declared <- MCDeclared
    Adder <- MCAdder
    Queue <- MCQueue
SYMMETRY Symmetric
CHECK_DEADLOCK FALSE
INVARIANTS
    TypeOK
    ClientSurvives
    OwnHandler
    NoCircle
    SameBothWays
    HandlersCovered
    NullCallOnlyIfHookedTwice
