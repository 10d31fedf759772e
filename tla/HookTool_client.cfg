\* One injection of a tool, two calls of the client at a time. The model stops
\* where the client has died.
CONSTANTS
    recv = recv
    encrypt = encrypt
    recvHook = recvHook
    encryptHook = encryptHook
    here = here
    there = there
    t1 = t1
    t2 = t2
    p1 = p1
    p2 = p2
    Function <- MCFunction
    Hook <- MCHook
    Plan <- MCPlan
    Base <- MCBase
    HookAddr <- MCHookAddr
    Patch <- MCPatch
    Thread = {t1, t2}
    Replaced = {encrypt}
    MaxHooks = 2
    MaxInjections = 1
    NoFunction = NoFunction
    NoBase = NoBase
    NoPatch = NoPatch
    Unallocated = Unallocated
    Original = Original
    Bridge = Bridge
SPECIFICATION FairSpec
CHECK_DEADLOCK FALSE
INVARIANTS
    TypeOK
    JumpsCovered
    PatchesOwned
    OwnOriginal
PROPERTIES
    ImplementsCallThrough
    DetachCompletes
