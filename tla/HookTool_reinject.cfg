\* Two injections, at two addresses, and a table with room for one hook. The model
\* stops where the client has died.
CONSTANTS
    recv = recv
    encrypt = encrypt
    recvHook = recvHook
    encryptHook = encryptHook
    here = here
    there = there
    t1 = t1
    t2 = t2
    p1 = p1
    p2 = p2
    Function <- MCFunction
    Hook <- MCHook
    Plan <- MCPlan
    Base <- MCBases
    HookAddr <- MCHookAddrs
    Patch <- MCPatch
    Thread = {t1}
    Replaced = {}
    MaxHooks = 1
    MaxInjections = 2
    NoFunction = NoFunction
    NoBase = NoBase
    NoPatch = NoPatch
    Unallocated = Unallocated
    Original = Original
    Bridge = Bridge
SPECIFICATION Spec
CHECK_DEADLOCK FALSE
SYMMETRY SymmetricPatches
INVARIANTS
    JumpsIntoImage
    LookUpFailsAfterRebase
