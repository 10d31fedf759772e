\* One receiving thread, two handlers more than declared hooks.
SPECIFICATION Spec
CONSTANTS
    Thread = {t1}
    Handler = {f1, f2, f3, f4}
    MaxChild = 5
    Recv = Recv
    RecvHook = RecvHook
    NullHook = NullHook
    h0 = h0
    h1 = h1
    NoFunction = NoFunction
    Original = Original
    Bridge = Bridge
    MaxHooks = 9
    Function <- MCFunction
    HookAddr <- MCHookAddr
    Declared <- MCDeclared
    Adder <- MCAdder
    Queue <- MCQueue
SYMMETRY Symmetric
CHECK_DEADLOCK FALSE
INVARIANTS
    UniqueHook
