------------------------------- MODULE LuaSavior ------------------------------
(* LuaSavior borrows a Lua state of the client: its thread hooks lua_gettop,     *)
(* waits until some call of it has left its state in hLua, unhooks it, and from  *)
(* then on loads and calls script.lua on hLua. The client's threads call         *)
(* lua_gettop all the while, each for the Lua state it runs, and the DLL may be  *)
(* ejected at any time. One injection; HookTool is about the later ones.         *)
(*                                                                               *)
(* What two threads do to one Lua state at once is not modelled: the model is    *)
(* about which state the script is loaded into, and which one it is called on.   *)
EXTENDS HookEngine

CONSTANTS
    lua_gettop,         \* the client's function
    lua_gettop_hook,    \* its hook
    LuaState,           \* the client's Lua states
    Thread,             \* the client's threads that run Lua
    NULL,
    MaxReloads          \* bound: how often the user has the script called again

ASSUME LuaAssumption ==
    /\ Function = {lua_gettop}
    /\ HookAddr = {lua_gettop_hook}
    /\ NULL \notin LuaState
    /\ NULL \notin Patch
    /\ MaxReloads \in Nat

VARIABLES
    mapped,             \* the DLL's image is mapped
    hLua,               \* the state of the last hooked call, or NULL
    originalHook,       \* what HookEngine_hook returned
    spc, sp,            \* startInjection: its step and patch in hand
    reloads,            \* how often the script was asked for again
    chunks,             \* how often script.lua is loaded and uncalled, per state
    dpc, dp,            \* endInjection: its step and patch in hand
    early,              \* it began before HookEngine_hook was over
    gpc, self,          \* the client's calls: step and Lua state
    crash               \* how the client died

luaVars == <<hLua, originalHook, chunks>>
starterVars == <<spc, sp, reloads>>
detachVars == <<mapped, dpc, dp, early>>
callVars == <<gpc, self>>
vars == <<table, code, engine, patches, heap, mapped, hLua, originalHook, spc, sp,
          reloads, chunks, dpc, dp, early, gpc, self, crash>>

Hooking == {"new", "alloc", "queue", "register", "jump"}
Scripting == {"sethooks", "loadfile", "pcall", "loop"}
Alive == crash = "none"

TypeOK ==
    /\ NtTypeOK
    /\ EngineTypeOK
    /\ mapped \in BOOLEAN
    /\ hLua \in LuaState \cup {NULL}
    /\ originalHook \in Patch \cup {NULL}
    /\ spc \in Hooking \cup Scripting \cup {"load", "wait", "remove", "unhook", "ended"}
    /\ sp \in Patch \cup {NULL}
    /\ reloads \in 0 .. MaxReloads
    /\ chunks \in [LuaState -> 0 .. (MaxReloads + 1)]
    /\ dpc \in {"none", "pop", "unhook", "free"}
    /\ dp \in Patch \cup {NULL}
    /\ early \in BOOLEAN
    /\ gpc \in [Thread -> {"idle", "enter", "hook", "tail", "body", "back"}]
    /\ self \in [Thread -> LuaState]
    /\ crash \in {"none", "null_engine", "unmapped_code", "unmapped_entry"}

\* DLL_PROCESS_ATTACH has mapped the image and started the thread.
Init ==
    /\ NtInit
    /\ EngineInit
    /\ mapped = TRUE
    /\ hLua = NULL /\ originalHook = NULL
    /\ spc = "new" /\ sp = NULL /\ reloads = 0
    /\ chunks = [L \in LuaState |-> 0]
    /\ dpc = "none" /\ dp = NULL /\ early = FALSE
    /\ gpc = [t \in Thread |-> "idle"]
    /\ self \in [Thread -> LuaState]
    /\ crash = "none"

CrashWith(reason) ==
    /\ Alive
    /\ crash' = reason
    /\ UNCHANGED <<ntVars, engineVars, luaVars, starterVars, detachVars, callVars>>

-------------------------------------------------------------------------------
(* startInjection.                                                               *)

StarterStep(here, there) ==
    /\ Alive
    /\ mapped
    /\ spc = here
    /\ spc' = there
    /\ UNCHANGED <<detachVars, callVars, crash>>

LoadEngine ==
    /\ StarterStep("new", "alloc")
    /\ HookEngine_new
    /\ UNCHANGED <<ntVars, luaVars, sp, reloads>>

LoadEngineFails ==
    /\ StarterStep("new", "ended")
    /\ UNCHANGED <<ntVars, engineVars, luaVars, sp, reloads>>

HookAlloc(p) ==
    /\ StarterStep("alloc", "queue")
    /\ AllocPatch(p, lua_gettop)
    /\ sp' = p
    /\ UNCHANGED <<ntVars, luaVars, reloads>>

\* Mutated: the patch is not queued.
HookQueueNothing ==
    /\ StarterStep("queue", "register")
    /\ UNCHANGED <<ntVars, engineVars, luaVars, sp, reloads>>

HookQueue ==
    /\ StarterStep("queue", "register")
    /\ QueuePatch(sp)
    /\ UNCHANGED <<ntVars, luaVars, sp, reloads>>

HookRegister ==
    /\ StarterStep("register", "jump")
    /\ Register(lua_gettop, lua_gettop_hook)
    /\ UNCHANGED <<code, engineVars, luaVars, sp, reloads>>

\* HookEngine_hook returns NULL; the thread goes on, to wait for a hook not there.
HookFails ==
    /\ StarterStep("register", "load")
    /\ UNCHANGED <<ntVars, engineVars, luaVars, sp, reloads>>

HookJump ==
    /\ StarterStep("jump", "load")
    /\ WriteJump(lua_gettop, lua_gettop_hook)
    /\ originalHook' = sp
    /\ UNCHANGED <<table, engineVars, hLua, chunks, sp, reloads>>

\* loadLua: lua51.dll and its eight functions are found, or the thread ends with
\* lua_gettop still hooked.
LoadLua ==
    /\ StarterStep("load", "wait")
    /\ UNCHANGED <<ntVars, engineVars, luaVars, sp, reloads>>

LoadLuaFails ==
    /\ StarterStep("load", "ended")
    /\ UNCHANGED <<ntVars, engineVars, luaVars, sp, reloads>>

HandlerRead ==
    /\ hLua # NULL
    /\ StarterStep("wait", "remove")
    /\ UNCHANGED <<ntVars, engineVars, luaVars, sp, reloads>>

\* HookEngine_unhook(originalHook): out of the queue, then back to the bridge. The
\* patch is never freed here; if the ejection has freed it, its memory names no
\* function the library knows.
RemovePatch ==
    /\ StarterStep("remove", "unhook")
    /\ patches' = Remv(patches, originalHook)
    /\ UNCHANGED <<ntVars, engine, heap, luaVars, sp, reloads>>

Unhook ==
    /\ StarterStep("unhook", "sethooks")
    /\ UnhookPatch(originalHook)
    /\ UNCHANGED <<table, engineVars, luaVars, sp, reloads>>

luaSetHooks ==
    /\ StarterStep("sethooks", "loadfile")
    /\ UNCHANGED <<ntVars, engineVars, luaVars, sp, reloads>>

\* luaL_loadfile pushes the script on the stack of hLua as it is now.
LoadFile ==
    /\ StarterStep("loadfile", "pcall")
    /\ chunks' = [chunks EXCEPT ![hLua] = @ + 1]
    /\ UNCHANGED <<ntVars, engineVars, hLua, originalHook, sp, reloads>>

LoadFileFails ==
    /\ StarterStep("loadfile", "ended")
    /\ UNCHANGED <<ntVars, engineVars, luaVars, sp, reloads>>

\* Mutated: the stack is popped whatever it holds.
CalledBlindly == [chunks EXCEPT ![hLua] = @ - 1]

\* lua_pcall takes what is on top of the stack of hLua as it is now, and succeeds
\* or fails; without the script there, that is a value of the client's.
Called == [chunks EXCEPT ![hLua] = IF @ = 0 THEN 0 ELSE @ - 1]

PCall ==
    /\ StarterStep("pcall", "loop")
    /\ chunks' = Called
    /\ UNCHANGED <<ntVars, engineVars, hLua, originalHook, sp, reloads>>

PCallFails ==
    /\ StarterStep("pcall", "ended")
    /\ chunks' = Called
    /\ UNCHANGED <<ntVars, engineVars, hLua, originalHook, sp, reloads>>

\* Shift and F12: the script once more.
Reload ==
    /\ StarterStep("loop", "loadfile")
    /\ reloads < MaxReloads
    /\ reloads' = reloads + 1
    /\ UNCHANGED <<ntVars, engineVars, luaVars, sp>>

StarterFaults == ~ mapped /\ spc # "ended" /\ CrashWith("unmapped_code")

Starter ==
    \/ LoadEngine \/ LoadEngineFails
    \/ \E p \in Patch : HookAlloc(p)
    \/ HookQueue \/ HookRegister \/ HookFails \/ HookJump
    \/ LoadLua \/ LoadLuaFails \/ HandlerRead \/ RemovePatch \/ Unhook
    \/ luaSetHooks \/ LoadFile \/ LoadFileFails \/ PCall \/ PCallFails
    \/ StarterFaults

-------------------------------------------------------------------------------
(* The ejection: HookEngine_unhook_all, and the image is gone.                   *)

DetachStep(here, there) ==
    /\ Alive
    /\ mapped
    /\ dpc = here
    /\ dpc' = there
    /\ UNCHANGED <<luaVars, starterVars, callVars, crash>>

Detach ==
    /\ DetachStep("none", "pop")
    /\ early' = (spc \in Hooking)
    /\ UNCHANGED <<ntVars, engineVars, mapped, dp>>

DetachFaults == dpc = "pop" /\ mapped /\ ~ engine /\ CrashWith("null_engine")

DetachPop ==
    /\ engine
    /\ DetachStep("pop", "unhook")
    /\ PopPatch
    /\ dp' = Last(patches)
    /\ UNCHANGED <<ntVars, mapped, early>>

DetachUnhook ==
    /\ DetachStep("unhook", "free")
    /\ UnhookPatch(dp)
    /\ UNCHANGED <<table, engineVars, mapped, dp, early>>

DetachFree ==
    /\ DetachStep("free", "pop")
    /\ FreePatch(dp)
    /\ dp' = NULL
    /\ UNCHANGED <<ntVars, mapped, early>>

Unmap ==
    /\ engine
    /\ patches = <<>>
    /\ DetachStep("pop", "none")
    /\ mapped' = FALSE
    /\ UNCHANGED <<ntVars, engineVars, dp, early>>

Detacher == DetachFaults \/ DetachPop \/ DetachUnhook \/ DetachFree \/ Unmap

-------------------------------------------------------------------------------
(* A client thread's call of lua_gettop.                                         *)

CallStep(t, here, there) ==
    /\ Alive
    /\ gpc[t] = here
    /\ gpc' = [gpc EXCEPT ![t] = there]
    /\ UNCHANGED <<ntVars, engineVars, originalHook, chunks, starterVars, detachVars, crash>>

Call(t, L) ==
    /\ CallStep(t, "idle", "enter")
    /\ self' = [self EXCEPT ![t] = L]
    /\ UNCHANGED hLua

RunUnhooked(t) ==
    /\ code[lua_gettop] # lua_gettop_hook
    /\ CallStep(t, "enter", "idle")
    /\ UNCHANGED <<hLua, self>>

EnterHook(t) ==
    /\ code[lua_gettop] = lua_gettop_hook
    /\ mapped
    /\ CallStep(t, "enter", "hook")
    /\ UNCHANGED <<hLua, self>>

\* Mutated: the state is not kept.
ForgetHandler(t) ==
    /\ mapped
    /\ CallStep(t, "hook", "tail")
    /\ UNCHANGED <<hLua, self>>

\* lua_gettop_hook. Its lookup finds the original, since a jump is written only
\* once the function is in the library's table.
SetHandler(t) ==
    /\ mapped
    /\ HookEngine_get_original_function(lua_gettop_hook) = lua_gettop
    /\ CallStep(t, "hook", "tail")
    /\ hLua' = self[t]
    /\ UNCHANGED self

\* Mutated: the state is kept once the original has been called.
RunOriginalFirst(t) ==
    /\ mapped
    /\ CallStep(t, "tail", "body")
    /\ hLua' = self[t]
    /\ UNCHANGED self

RunOriginal(t) ==
    /\ mapped
    /\ CallStep(t, "tail", "body")
    /\ UNCHANGED <<hLua, self>>

ReturnToHook(t) ==
    /\ CallStep(t, "body", "back")
    /\ UNCHANGED <<hLua, self>>

Return(t) ==
    /\ mapped
    /\ CallStep(t, "back", "idle")
    /\ UNCHANGED <<hLua, self>>

EnterUnmapped(t) ==
    /\ code[lua_gettop] = lua_gettop_hook
    /\ ~ mapped
    /\ gpc[t] = "enter"
    /\ CrashWith("unmapped_entry")

HookFaults(t) ==
    /\ gpc[t] \in {"hook", "tail", "back"}
    /\ ~ mapped
    /\ CrashWith("unmapped_code")

Progress(t) ==
    \/ RunUnhooked(t) \/ EnterHook(t) \/ SetHandler(t) \/ RunOriginal(t)
    \/ ReturnToHook(t) \/ Return(t) \/ EnterUnmapped(t) \/ HookFaults(t)

-------------------------------------------------------------------------------
Next ==
    \/ Starter \/ Reload
    \/ Detach \/ Detacher
    \/ \E t \in Thread : Progress(t) \/ \E L \in LuaState : Call(t, L)

Spec == Init /\ [][Next]_vars

\* The scheduler runs every thread, and the client keeps running Lua: it asks for
\* the height of a Lua stack in every frame. Nobody need press a key or eject.
Fairness ==
    /\ WF_vars(Starter)
    /\ WF_vars(Detacher)
    /\ \A t \in Thread : WF_vars(Progress(t)) /\ WF_vars(\E L \in LuaState : Call(t, L))

FairSpec == Spec /\ Fairness

-------------------------------------------------------------------------------
(* What must hold.                                                               *)

\* The hook is gone for good, and no call is left in it that has yet to write hLua.
Settled ==
    /\ spc \in Scripting \cup {"ended"}
    /\ code[lua_gettop] = Bridge
    /\ \A t \in Thread : gpc[t] # "hook"

\* From then on the script's state stays the same, whatever the client calls.
SettledForGood == [][Settled => Settled' /\ hLua' = hLua]_vars

\* A jump into the image outlives it for one reason only, other than an ejection
\* during HookEngine_hook: the thread had taken the patch from the queue and not
\* unhooked the function yet, so that HookEngine_unhook_all did not see it.
JumpLeftOnlyMidway ==
    ~ early /\ ~ mapped /\ code[lua_gettop] = lua_gettop_hook => spc = "unhook"

\* If lua_gettop is hooked, the thread does not wait for ever: it comes to call the
\* script or to give up, unless the tool is ejected or the client dies.
ScriptRuns ==
    spc = "wait" /\ code[lua_gettop] = lua_gettop_hook
      ~> spc \in {"loop", "ended"} \/ dpc # "none" \/ ~ mapped \/ ~ Alive
===============================================================================
