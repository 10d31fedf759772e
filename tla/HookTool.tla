------------------------------- MODULE HookTool -------------------------------
(* The life of a tool's DLL in the game client. Every tool has the same shape:  *)
(* DllMain starts a thread on DLL_PROCESS_ATTACH, that thread (startInjection)  *)
(* loads the hook engine and hooks the functions of the tool's plan, and        *)
(* DLL_PROCESS_DETACH runs HookEngine_unhook_all before the image is unmapped.  *)
(* The client's own threads call the hooked functions all the while.            *)
EXTENDS HookEngine

CONSTANTS
    Plan,           \* <<[function, hook]>>: the HookEngine_hook calls, in order
    Replaced,       \* the functions whose hook never calls the original
    Hook,           \* the names of the hook functions, without a load address
    Base,           \* the addresses the tool's DLL may be loaded at
    NoBase,         \* the DLL is not mapped
    NoPatch,        \* no patch in hand
    Thread,         \* the calls the client may have in progress
    MaxInjections   \* bound: how often the tool is injected

HookAt(h, b) == [hook |-> h, base |-> b]

ASSUME PlanAssumption ==
    /\ Plan \in Seq([function : Function, hook : Hook])
    /\ \A i, j \in DOMAIN Plan : i # j =>
         /\ Plan[i].function # Plan[j].function
         /\ Plan[i].hook # Plan[j].hook
    /\ HookAddr = [hook : Hook, base : Base]
    /\ Replaced \subseteq Function
    /\ NoBase \notin Base
    /\ NoPatch \notin Patch
    /\ MaxInjections \in Nat

VARIABLES
    base,           \* where the DLL is mapped now
    injections,     \* how often it has been injected
    spc, si, sp,    \* startInjection: its step, plan index and patch in hand
    dpc, dp,        \* endInjection: its step and patch in hand
    early,          \* TRUE once a detach began before startInjection had ended
    gpc, fn, via,   \* the client's calls: step, function called, hook entered
    orig,           \* the function whose own code the call runs, once known
    crash           \* how the client died

starterVars == <<spc, si, sp>>
detachVars == <<dpc, dp>>
callVars == <<gpc, fn, via, orig>>
dllVars == <<base, injections, early>>
vars == <<table, code, engine, patches, heap, base, injections, early,
          spc, si, sp, dpc, dp, gpc, fn, via, orig, crash>>

Mapped == base # NoBase
Alive == crash = "none"
StarterEnded == spc \in {"none", "done", "failed"}

Crashes == {"none", "null_engine", "null_call", "unmapped_code", "unmapped_entry"}

TypeOK ==
    /\ NtTypeOK
    /\ EngineTypeOK
    /\ base \in Base \cup {NoBase}
    /\ injections \in 0 .. MaxInjections
    /\ early \in BOOLEAN
    /\ spc \in {"none", "new", "alloc", "queue", "register", "jump", "done", "failed"}
    /\ si \in 1 .. (Len(Plan) + 1)
    /\ (spc \in {"queue", "register", "jump"} => si \in DOMAIN Plan)
    /\ sp \in Patch \cup {NoPatch}
    /\ (spc \in {"queue"} => sp \in Patch)
    /\ dpc \in {"none", "pop", "unhook", "free"}
    /\ dp \in Patch \cup {NoPatch}
    /\ (dpc \in {"unhook", "free"} => dp \in Patch)
    /\ gpc \in [Thread -> {"idle", "enter", "hook", "tail", "body", "back"}]
    /\ fn \in [Thread -> Function]
    /\ via \in [Thread -> HookAddr \cup {Original}]
    /\ orig \in [Thread -> Function \cup {NoFunction}]
    /\ crash \in Crashes

Init ==
    /\ NtInit
    /\ EngineInit
    /\ base = NoBase
    /\ injections = 0
    /\ early = FALSE
    /\ spc = "none" /\ si = 1 /\ sp = NoPatch
    /\ dpc = "none" /\ dp = NoPatch
    /\ gpc = [t \in Thread |-> "idle"]
    /\ fn \in [Thread -> Function]
    /\ via = [t \in Thread |-> Original]
    /\ orig = [t \in Thread |-> NoFunction]
    /\ crash = "none"

CrashWith(reason) ==
    /\ crash' = reason
    /\ UNCHANGED <<ntVars, engineVars, dllVars, starterVars, detachVars, callVars>>

-------------------------------------------------------------------------------
(* The injector.                                                                *)

\* DLL_PROCESS_ATTACH: a fresh image, with its globals reset, and a new thread.
\* The library NtHookEngine.dll stays loaded from one injection to the next.
Attach(b) ==
    /\ Alive
    /\ ~ Mapped
    /\ StarterEnded
    /\ injections < MaxInjections
    /\ base' = b
    /\ injections' = injections + 1
    /\ engine' = FALSE
    /\ patches' = <<>>
    /\ spc' = "new" /\ si' = 1 /\ sp' = NoPatch
    /\ UNCHANGED <<ntVars, heap, early, detachVars, callVars, crash>>

\* The injector ejects the DLL (eject.bat): DLL_PROCESS_DETACH begins.
Detach ==
    /\ Alive
    /\ Mapped
    /\ dpc = "none"
    /\ dpc' = "pop"
    /\ early' = (early \/ ~ StarterEnded)
    /\ UNCHANGED <<ntVars, engineVars, base, injections, starterVars, dp,
                   callVars, crash>>

-------------------------------------------------------------------------------
(* startInjection. Its code is in the image: once that is gone, it faults.      *)

StarterStep == Alive /\ Mapped /\ UNCHANGED <<dllVars, detachVars, callVars, crash>>

LoadEngine ==
    /\ spc = "new"
    /\ StarterStep
    /\ HookEngine_new
    /\ spc' = "alloc"
    /\ UNCHANGED <<ntVars, si, sp>>

LoadEngineFails ==
    /\ spc = "new"
    /\ StarterStep
    /\ spc' = "failed"
    /\ UNCHANGED <<ntVars, engineVars, si, sp>>

StarterEnds ==
    /\ spc = "alloc"
    /\ si = Len(Plan) + 1
    /\ StarterStep
    /\ spc' = "done"
    /\ UNCHANGED <<ntVars, engineVars, si, sp>>

\* Mutated: the new patch is not kept for the steps that follow.
HookAllocDropped(p) ==
    /\ spc = "alloc"
    /\ si \in DOMAIN Plan
    /\ StarterStep
    /\ AllocPatch(p, Plan[si].function)
    /\ sp' = NoPatch
    /\ spc' = "queue"
    /\ UNCHANGED <<ntVars, si>>

HookAlloc(p) ==
    /\ spc = "alloc"
    /\ si \in DOMAIN Plan
    /\ StarterStep
    /\ AllocPatch(p, Plan[si].function)
    /\ sp' = p
    /\ spc' = "queue"
    /\ UNCHANGED <<ntVars, si>>

HookQueue ==
    /\ spc = "queue"
    /\ StarterStep
    /\ QueuePatch(sp)
    /\ spc' = "register"
    /\ UNCHANGED <<ntVars, si, sp>>

\* Mutated: the library is not told of the hook.
HookUnregistered ==
    /\ spc = "register"
    /\ StarterStep
    /\ spc' = "jump"
    /\ UNCHANGED <<ntVars, engineVars, si, sp>>

\* The library has the function from an earlier injection, or gives it an entry.
HookRegister ==
    /\ spc = "register"
    /\ StarterStep
    /\ \/ Registered(Plan[si].function) /\ UNCHANGED table
       \/ Register(Plan[si].function, HookAt(Plan[si].hook, base))
    /\ spc' = "jump"
    /\ UNCHANGED <<code, engineVars, si, sp>>

\* The table is full or no bridge can be made: HookEngine_hook returns NULL, which
\* no startInjection looks at; the patch stays queued.
HookFails ==
    /\ spc = "register"
    /\ ~ Registered(Plan[si].function)
    /\ StarterStep
    /\ si' = si + 1
    /\ sp' = NoPatch
    /\ spc' = "alloc"
    /\ UNCHANGED <<ntVars, engineVars>>

\* Mutated: one hook function serves the whole plan.
HookJumpShared ==
    /\ spc = "jump"
    /\ StarterStep
    /\ WriteJump(Plan[si].function, HookAt(Plan[1].hook, base))
    /\ si' = si + 1
    /\ sp' = NoPatch
    /\ spc' = "alloc"
    /\ UNCHANGED <<table, engineVars>>

HookJump ==
    /\ spc = "jump"
    /\ StarterStep
    /\ WriteJump(Plan[si].function, HookAt(Plan[si].hook, base))
    /\ si' = si + 1
    /\ sp' = NoPatch
    /\ spc' = "alloc"
    /\ UNCHANGED <<table, engineVars>>

StarterFaults ==
    /\ Alive
    /\ ~ StarterEnded
    /\ ~ Mapped
    /\ CrashWith("unmapped_code")

Starter ==
    \/ LoadEngine \/ LoadEngineFails \/ StarterEnds
    \/ \E p \in Patch : HookAlloc(p)
    \/ HookQueue \/ HookRegister \/ HookFails \/ HookJump
    \/ StarterFaults

-------------------------------------------------------------------------------
(* endInjection, which is HookEngine_unhook_all, and the unmapping after it.    *)

DetachStep == Alive /\ UNCHANGED <<injections, early, starterVars, callVars, crash>>

\* The queue's length is read through `engine`, whether or not it was ever set.
DetachFaults ==
    /\ Alive
    /\ dpc = "pop"
    /\ ~ engine
    /\ CrashWith("null_engine")

DetachPop ==
    /\ dpc = "pop"
    /\ engine
    /\ DetachStep
    /\ PopPatch
    /\ dp' = Last(patches)
    /\ dpc' = "unhook"
    /\ UNCHANGED <<ntVars, base>>

DetachUnhook ==
    /\ dpc = "unhook"
    /\ DetachStep
    /\ UnhookPatch(dp)
    /\ dpc' = "free"
    /\ UNCHANGED <<table, engineVars, base, dp>>

DetachFree ==
    /\ dpc = "free"
    /\ DetachStep
    /\ FreePatch(dp)
    /\ dp' = NoPatch
    /\ dpc' = "pop"
    /\ UNCHANGED <<ntVars, base>>

\* Mutated: the image goes after one patch (`if` for `while`).
UnmapEarly ==
    /\ dpc = "pop"
    /\ engine
    /\ DetachStep
    /\ base' = NoBase
    /\ dpc' = "none"
    /\ UNCHANGED <<ntVars, engineVars, dp>>

\* The queue is empty: DllMain returns and the loader unmaps the image.
Unmap ==
    /\ dpc = "pop"
    /\ engine
    /\ patches = <<>>
    /\ DetachStep
    /\ base' = NoBase
    /\ dpc' = "none"
    /\ UNCHANGED <<ntVars, engineVars, dp>>

Detacher == DetachFaults \/ DetachPop \/ DetachUnhook \/ DetachFree \/ Unmap
-------------------------------------------------------------------------------
(* A call the client makes: the hook, if one is jumped to, looks up the original *)
(* and calls it, and the original returns into the hook.                         *)

CallStep == Alive /\ UNCHANGED <<ntVars, engineVars, dllVars, starterVars, detachVars, crash>>

\* The code of a hook is still where the call entered it.
HookMapped(t) == Mapped /\ via[t].base = base

Call(t, f) ==
    /\ gpc[t] = "idle"
    /\ CallStep
    /\ gpc' = [gpc EXCEPT ![t] = "enter"]
    /\ fn' = [fn EXCEPT ![t] = f]
    /\ via' = [via EXCEPT ![t] = Original]
    /\ orig' = [orig EXCEPT ![t] = NoFunction]

\* The function is not hooked: its own code runs, from its start or its bridge.
RunUnhooked(t) ==
    /\ gpc[t] = "enter"
    /\ code[fn[t]] \in {Original, Bridge}
    /\ CallStep
    /\ gpc' = [gpc EXCEPT ![t] = "body"]
    /\ orig' = [orig EXCEPT ![t] = fn[t]]
    /\ UNCHANGED <<fn, via>>

\* The jump leads into the image.
EnterHook(t) ==
    /\ gpc[t] = "enter"
    /\ code[fn[t]] \in HookAddr
    /\ Mapped
    /\ code[fn[t]].base = base
    /\ CallStep
    /\ gpc' = [gpc EXCEPT ![t] = "hook"]
    /\ via' = [via EXCEPT ![t] = code[fn[t]]]
    /\ UNCHANGED <<fn, orig>>

\* The jump leads to where an image was.
EnterUnmapped(t) ==
    /\ Alive
    /\ gpc[t] = "enter"
    /\ code[fn[t]] \in HookAddr
    /\ ~ (Mapped /\ code[fn[t]].base = base)
    /\ CrashWith("unmapped_entry")

\* The image is unmapped under a call that is executing it.
HookFaults(t) ==
    /\ Alive
    /\ gpc[t] \in {"hook", "tail", "back"}
    /\ ~ HookMapped(t)
    /\ CrashWith("unmapped_code")

\* Mutated: any hook may return without calling its original.
ReplaceAny(t) ==
    /\ gpc[t] = "hook"
    /\ HookMapped(t)
    /\ CallStep
    /\ gpc' = [gpc EXCEPT ![t] = "back"]
    /\ UNCHANGED <<fn, via, orig>>

\* A hook that takes the function's place (DisableEncryption) just returns.
Replace(t) ==
    /\ gpc[t] = "hook"
    /\ fn[t] \in Replaced
    /\ HookMapped(t)
    /\ CallStep
    /\ gpc' = [gpc EXCEPT ![t] = "back"]
    /\ UNCHANGED <<fn, via, orig>>

LookUp(t) ==
    /\ gpc[t] = "hook"
    /\ fn[t] \notin Replaced
    /\ HookMapped(t)
    /\ engine
    /\ CallStep
    /\ gpc' = [gpc EXCEPT ![t] = "tail"]
    /\ orig' = [orig EXCEPT ![t] = HookEngine_get_original_function(via[t])]
    /\ UNCHANGED <<fn, via>>

\* A call left over from an earlier injection finds the globals reset.
LookUpFaults(t) ==
    /\ Alive
    /\ gpc[t] = "hook"
    /\ fn[t] \notin Replaced
    /\ HookMapped(t)
    /\ ~ engine
    /\ CrashWith("null_engine")

RunOriginal(t) ==
    /\ gpc[t] = "tail"
    /\ HookMapped(t)
    /\ orig[t] # NoFunction
    /\ CallStep
    /\ gpc' = [gpc EXCEPT ![t] = "body"]
    /\ UNCHANGED <<fn, via, orig>>

\* The lookup returned NULL, which every hook calls unchecked.
RunNull(t) ==
    /\ Alive
    /\ gpc[t] = "tail"
    /\ HookMapped(t)
    /\ orig[t] = NoFunction
    /\ CrashWith("null_call")

ReturnToHook(t) ==
    /\ gpc[t] = "body"
    /\ via[t] \in HookAddr
    /\ CallStep
    /\ gpc' = [gpc EXCEPT ![t] = "back"]
    /\ UNCHANGED <<fn, via, orig>>

Return(t) ==
    /\ \/ gpc[t] = "body" /\ via[t] = Original
       \/ gpc[t] = "back" /\ HookMapped(t)
    /\ CallStep
    /\ gpc' = [gpc EXCEPT ![t] = "idle"]
    /\ UNCHANGED <<fn, via, orig>>

Progress(t) ==
    \/ RunUnhooked(t) \/ EnterHook(t) \/ EnterUnmapped(t) \/ HookFaults(t)
    \/ Replace(t) \/ LookUp(t) \/ LookUpFaults(t) \/ RunOriginal(t) \/ RunNull(t)
    \/ ReturnToHook(t) \/ Return(t)

-------------------------------------------------------------------------------
Next ==
    \/ \E b \in Base : Attach(b)
    \/ Detach
    \/ Starter
    \/ Detacher
    \/ \E t \in Thread : Progress(t) \/ \E f \in Function : Call(t, f)

Spec == Init /\ [][Next]_vars

\* The scheduler runs every thread that can run. Nothing makes the injector eject
\* the DLL, or the client call a function.
Fairness ==
    /\ WF_vars(Starter)
    /\ WF_vars(Detacher)
    /\ \A t \in Thread : WF_vars(Progress(t))

FairSpec == Spec /\ Fairness

-------------------------------------------------------------------------------
(* What must hold. A detach that overtakes startInjection is outside the tools'  *)
(* control (the injector decides), so some properties are about the others.      *)

\* A function of the plan is in the queue of patches, or in endInjection's hand.
Held(f) ==
    \/ \E i \in DOMAIN patches : heap[patches[i]] = f
    \/ dpc = "unhook" /\ heap[dp] = f

\* Every jump into the DLL is one endInjection will still undo: HookEngine_hook
\* queues the patch before the jump is written, HookEngine_unhook_all removes it
\* no earlier than it unhooks the function.
JumpsCovered ==
    ~ early => \A f \in Function : code[f] \in HookAddr => Mapped /\ Held(f)

\* A jump into the DLL leads to the image that is mapped now, so that no call
\* enters an image that is gone: unhooking is over before the image is unmapped.
JumpsIntoImage ==
    ~ early => \A f \in Function : code[f] \in HookAddr => code[f].base = base

\* No patch is queued twice, freed while it is queued, or left allocated once
\* HookEngine_unhook_all is done.
PatchesOwned ==
    /\ \A i, j \in DOMAIN patches : patches[i] = patches[j] => i = j
    /\ \A i \in DOMAIN patches : Live(patches[i])
    /\ dpc \in {"unhook", "free"} => Live(dp) /\ ~ Queued(dp)
    /\ ~ Mapped /\ ~ early => \A p \in Patch : ~ Live(p)

\* A hook is only ever given the original of the function it was entered by:
\* HookEngine_get_original_function tells hooks apart by their address alone.
OwnOriginal == \A t \in Thread : orig[t] \in {fn[t], NoFunction}

\* The lookup fails for one reason only: the library met the function when the
\* DLL was loaded at another address and keeps the hook of that time.
LookUpFailsAfterRebase ==
    \A t \in Thread :
        gpc[t] = "tail" /\ orig[t] = NoFunction =>
            \E i \in DOMAIN table :
                /\ table[i].function = fn[t]
                /\ table[i].hook.base # via[t].base

\* endInjection comes to its end, even as startInjection keeps adding patches.
DetachCompletes == dpc # "none" ~> ~ Mapped \/ ~ Alive

\* The client's view: CallThrough is implemented, whatever is hooked meanwhile.
Status(t) ==
    CASE gpc[t] \in {"enter", "hook", "tail"} -> "pending"
      [] gpc[t] = "back" /\ orig[t] = NoFunction -> "pending"
      [] gpc[t] = "idle" -> "idle"
      [] OTHER -> "ran"

Body(t) == IF gpc[t] \in {"enter", "hook", "tail"} THEN NoFunction ELSE orig[t]

Abstract == INSTANCE CallThrough WITH
    status <- [t \in Thread |-> Status(t)],
    called <- fn,
    body <- [t \in Thread |-> Body(t)]

\* Every behaviour of the tools is one CallThrough allows.
ImplementsCallThrough == Abstract!Spec
===============================================================================
