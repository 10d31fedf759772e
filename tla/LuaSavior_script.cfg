\* Two threads, two Lua states, an ejection. The model stops where the client has died.
SPECIFICATION FairSpec
CONSTANTS
    t1 = t1
    t2 = t2
    p1 = p1
    main = main
    coroutine = coroutine
    lua_gettop = lua_gettop
    lua_gettop_hook = lua_gettop_hook
    NULL = NULL
    NoFunction = NoFunction
    Original = Original
    Bridge = Bridge
    Unallocated = Unallocated
    MaxReloads = 1
    MaxHooks = 1
    Function <- MCFunction
    HookAddr <- MCHookAddr
    Patch <- MCPatch
    Thread <- MCThread
    LuaState <- MCLuaState
CHECK_DEADLOCK FALSE
INVARIANTS
    TypeOK
    JumpLeftOnlyMidway
PROPERTIES
    SettledForGood
    ScriptRuns
