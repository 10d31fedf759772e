---------------------------- MODULE LuaSaviorProofs ---------------------------
(* Theorems about LuaSavior, for any threads, Lua states, patch addresses and     *)
(* number of reloads.                                                             *)
EXTENDS LuaSavior, WalkLemmas

USE DEF Alive

\* HookEngine_hook runs once, so there is no patch but sp, wherever it is.
OnePatch ==
    /\ \A p \in Patch : Live(p) => p = sp
    /\ patches \in Seq({sp})
    /\ dpc \in {"unhook", "free"} => dp = sp
    /\ spc \in {"new", "alloc"} =>
         patches = <<>> /\ dpc \notin {"unhook", "free"} /\ \A p \in Patch : ~ Live(p)

\* The ejection begins after HookEngine_hook is over, unless it is early.
InOrder ==
    /\ ~ early /\ (dpc # "none" \/ ~ mapped) => spc \notin Hooking
    /\ dpc = "none" /\ mapped => ~ early

\* The jump is written for the patch in hand, which lives until it is undone, and
\* which is queued before the jump is written.
JumpOfPatch ==
    /\ code[lua_gettop] = lua_gettop_hook =>
         spc \notin Hooking /\ originalHook = sp /\ sp \in Patch /\ Registered(lua_gettop)
    /\ ~ early =>
         /\ spc \in {"queue", "register", "jump"} \/ code[lua_gettop] = lua_gettop_hook => Live(sp)
         /\ spc \in {"register", "jump"} => patches # <<>>
         /\ dpc = "free" => code[lua_gettop] # lua_gettop_hook
    /\ spc = "jump" => Registered(lua_gettop)

\* A jump is in the mapped image and its patch in the queue or in endInjection's hand,
\* except between the two steps of the thread's own unhooking.
JumpHeld ==
    ~ early /\ code[lua_gettop] = lua_gettop_hook /\ spc # "unhook" =>
        mapped /\ (patches # <<>> \/ dpc = "unhook")

\* A load of the script adds one chunk and there is one load per round.
ChunksBounded ==
    \A L \in LuaState :
        chunks[L] <= reloads + (IF spc \in {"pcall", "loop", "ended"} THEN 1 ELSE 0)

\* HookEngine_hook queues the patch it has allocated.
InHand == spc \in {"queue", "register", "jump"} => sp \in Patch

IInv == TypeOK /\ ChunksBounded /\ InHand /\ OnePatch /\ InOrder /\ JumpOfPatch /\ JumpHeld

-------------------------------------------------------------------------------
(* Type correctness.                                                             *)

\* bb_queue_remv keeps a queue of patches a queue of patches.
LEMMA RemvType ==
    ASSUME NEW S, NEW q \in Seq(S), NEW p
    PROVE  Remv(q, p) \in Seq(S)
<1>1. CASE ~ \E i \in DOMAIN q : IsFirstIndexOf(i, q, p)
  BY <1>1 DEF Remv
<1>2. CASE \E i \in DOMAIN q : IsFirstIndexOf(i, q, p)
  <2> DEFINE k == CHOOSE i \in DOMAIN q : IsFirstIndexOf(i, q, p)
  <2>1. k \in DOMAIN q
    BY <1>2
  <2>2. Remv(q, p) = [j \in 1 .. (Len(q) - 1) |-> IF j < k THEN q[j] ELSE q[j + 1]]
    BY <1>2 DEF Remv
  <2> HIDE DEF k
  <2> QED  BY <2>1, <2>2, AllButOne
<1> QED  BY <1>1, <1>2

\* A queue of one kind of patch stays one when its last patch is popped.
LEMMA PopType ==
    ASSUME NEW S, patches \in Seq(S), PopPatch
    PROVE  patches' \in Seq(S) /\ Last(patches) \in S
<1>1. patches # <<>>
  BY DEF PopPatch
<1>2. ButLast(patches) \in Seq(S) /\ Last(patches) \in S
  BY <1>1, AllButLast DEF ButLast, Last
<1> QED  BY <1>2, RemvType DEF PopPatch

\* Every variable of LuaSavior keeps its type, the patch being queued is one, and no
\* state has more chunks than loads.
THEOREM TypeCorrect == Spec => [](TypeOK /\ ChunksBounded /\ InHand)
<1> DEFINE Inv == TypeOK /\ ChunksBounded /\ InHand
<1>1. Init => Inv
  <2> SUFFICES ASSUME Init PROVE Inv
    OBVIOUS
  <2>1. NtTypeOK
    BY SMT DEF Init, NtInit, NtTypeOK, CodeState
  <2>2. EngineTypeOK
    BY EmptySeq DEF Init, EngineInit, EngineTypeOK
  <2>3. MaxReloads \in Nat /\ 0 \in 0 .. MaxReloads /\ 0 \in 0 .. (MaxReloads + 1)
    BY LuaAssumption, SMT
  <2>4. chunks \in [LuaState -> 0 .. (MaxReloads + 1)]
    BY <2>3 DEF Init
  <2>5. ChunksBounded
    BY SMT DEF Init, ChunksBounded
  <2> QED  BY <2>1, <2>2, <2>3, <2>4, <2>5 DEF Init, TypeOK, Hooking, InHand
<1>2. Inv /\ [Next]_vars => Inv'
  <2> SUFFICES ASSUME TypeOK, ChunksBounded, InHand, [Next]_vars PROVE Inv'
    OBVIOUS
  <2> USE LuaAssumption DEF TypeOK, NtTypeOK, EngineTypeOK, CodeState, Hooking, Scripting,
          ntVars, engineVars, luaVars, detachVars, callVars, InHand
  <2>c. \A reason \in {"null_engine", "unmapped_code", "unmapped_entry"} :
          CrashWith(reason) => Inv'
    BY SMT DEF CrashWith, starterVars, ChunksBounded
  <2>1. CASE Starter \/ Reload
    <3> USE DEF StarterStep, ChunksBounded
    <3>1. CASE LoadEngine
      BY <3>1, SMT DEF LoadEngine, HookEngine_new
    <3>2. CASE LoadEngineFails \/ HookFails \/ LoadLua \/ LoadLuaFails \/ HandlerRead
                 \/ luaSetHooks \/ LoadFileFails
      BY <3>2, SMT DEF LoadEngineFails, HookFails, LoadLua, LoadLuaFails, HandlerRead,
           luaSetHooks, LoadFileFails
    <3>3. ASSUME NEW p \in Patch, HookAlloc(p) PROVE Inv'
      BY <3>3, SMT DEF HookAlloc, AllocPatch
    <3>4. CASE HookQueue
      <4>1. patches' \in Seq(Patch)
        BY <3>4, AppendProperties DEF HookQueue, QueuePatch
      <4> QED  BY <3>4, <4>1, SMT DEF HookQueue, QueuePatch
    <3>5. CASE HookRegister
      <4>1. [function |-> lua_gettop, hook |-> lua_gettop_hook] \in Entry
        BY DEF Entry
      <4>2. table' \in Seq(Entry)
        BY <3>5, <4>1, AppendProperties DEF HookRegister, Register
      <4> QED  BY <3>5, <4>2, SMT DEF HookRegister
    <3>6. CASE HookJump
      BY <3>6, SMT DEF HookJump, WriteJump
    <3>7. CASE RemovePatch
      <4>1. patches' \in Seq(Patch)
        BY <3>7, RemvType DEF RemovePatch
      <4> QED  BY <3>7, <4>1, SMT DEF RemovePatch
    <3>8. CASE Unhook
      BY <3>8, SMT DEF Unhook, UnhookPatch, UnhookFunction, WriteJump
    <3>9. CASE LoadFile \/ PCall \/ PCallFails
      <4> DEFINE bound == reloads + (IF spc' \in {"pcall", "loop", "ended"} THEN 1 ELSE 0)
      <4>1. bound \in 0 .. (MaxReloads + 1)
        BY <3>9, SMT DEF LoadFile, PCall, PCallFails
      <4>2. \A L \in LuaState : chunks'[L] \in 0 .. bound
        <5> SUFFICES ASSUME NEW L \in LuaState PROVE chunks'[L] \in 0 .. bound
          OBVIOUS
        <5>1. chunks[L] \in Nat /\ reloads \in Nat
          BY SMT
        <5>2. CASE LoadFile
          <6>1. chunks[L] <= reloads /\ bound = reloads + 1
            BY <5>2 DEF LoadFile
          <6>2. chunks'[L] \in {chunks[L], chunks[L] + 1}
            BY <5>2 DEF LoadFile
          <6> HIDE DEF bound
          <6> QED  BY <5>1, <6>1, <6>2, SMT
        <5>3. CASE PCall \/ PCallFails
          <6>1. chunks[L] <= reloads + 1 /\ bound = reloads + 1
            BY <5>3 DEF PCall, PCallFails
          <6>2. chunks'[L] \in {chunks[L], IF chunks[L] = 0 THEN 0 ELSE chunks[L] - 1}
            BY <5>3 DEF PCall, PCallFails, Called
          <6> HIDE DEF bound
          <6> QED  BY <5>1, <6>1, <6>2, SMT
        <5> QED  BY <3>9, <5>2, <5>3
      <4>3. chunks' = [L \in LuaState |-> chunks'[L]]
        BY <3>9 DEF LoadFile, PCall, PCallFails, Called
      <4> HIDE DEF bound
      <4>4. \A L \in LuaState : chunks'[L] \in 0 .. (MaxReloads + 1) /\ chunks'[L] <= bound
        BY <4>1, <4>2, SMT
      <4>5. chunks' \in [LuaState -> 0 .. (MaxReloads + 1)]
        BY <4>3, <4>4
      <4>6. reloads' = reloads
        BY <3>9 DEF LoadFile, PCall, PCallFails
      <4> USE DEF bound
      <4>7. ChunksBounded'
        BY <4>4, <4>6
      <4>8. NtTypeOK' /\ EngineTypeOK'
        BY <3>9 DEF LoadFile, PCall, PCallFails
      <4> QED  BY <3>9, <4>5, <4>7, <4>8 DEF LoadFile, PCall, PCallFails
    <3>11. CASE Reload
      <4>1. reloads' \in 0 .. MaxReloads /\ \A L \in LuaState : chunks[L] <= reloads'
        BY <3>11, SMT DEF Reload
      <4> QED  BY <3>11, <4>1, SMT DEF Reload
    <3>12. CASE StarterFaults
      BY <3>12, <2>c DEF StarterFaults
    <3> QED  BY <2>1, <3>1, <3>2, <3>3, <3>4, <3>5, <3>6, <3>7, <3>8, <3>9, <3>11, <3>12
             DEF Starter
  <2>2. CASE Detach
    BY <2>2, SMT DEF Detach, DetachStep, starterVars, ChunksBounded
  <2>3. CASE Detacher
    <3> USE DEF DetachStep, starterVars, ChunksBounded
    <3>1. CASE DetachFaults
      BY <3>1, <2>c DEF DetachFaults
    <3>2. CASE DetachPop
      <4>1. patches' \in Seq(Patch) /\ dp' \in Patch
        BY <3>2, PopType DEF DetachPop
      <4> QED  BY <3>2, <4>1, SMT DEF DetachPop, PopPatch
    <3>3. CASE DetachUnhook
      BY <3>3, SMT DEF DetachUnhook, UnhookPatch, UnhookFunction, WriteJump
    <3>4. CASE DetachFree
      <4>1. heap' \in [Patch -> Function \cup {Unallocated}]
        BY <3>4 DEF DetachFree, FreePatch
      <4> QED  BY <3>4, <4>1 DEF DetachFree, FreePatch
    <3>5. CASE Unmap
      BY <3>5 DEF Unmap
    <3> QED  BY <2>3, <3>1, <3>2, <3>3, <3>4, <3>5 DEF Detacher
  <2>4. ASSUME NEW t \in Thread, Progress(t) \/ \E L \in LuaState : Call(t, L) PROVE Inv'
    <3> USE DEF starterVars, ChunksBounded, CallStep
    <3>1. CASE EnterUnmapped(t) \/ HookFaults(t)
      BY <3>1, <2>c DEF EnterUnmapped, HookFaults
    <3>2. ASSUME NEW L \in LuaState, Call(t, L) PROVE Inv'
      BY <3>2 DEF Call
    <3>3. CASE RunUnhooked(t)
      BY <3>3 DEF RunUnhooked
    <3>3a. CASE EnterHook(t)
      BY <3>3a DEF EnterHook
    <3>4. CASE SetHandler(t)
      BY <3>4 DEF SetHandler
    <3>5. CASE RunOriginal(t)
      BY <3>5 DEF RunOriginal
    <3>6. CASE ReturnToHook(t)
      BY <3>6 DEF ReturnToHook
    <3>7. CASE Return(t)
      BY <3>7 DEF Return
    <3> QED  BY <2>4, <3>1, <3>2, <3>3, <3>3a, <3>4, <3>5, <3>6, <3>7 DEF Progress
  <2>5. CASE UNCHANGED vars
    BY <2>5, SMT DEF vars, ChunksBounded
  <2> QED  BY <2>1, <2>2, <2>3, <2>4, <2>5 DEF Next
<1> QED  BY <1>1, <1>2, PTL DEF Spec

-------------------------------------------------------------------------------
(* The state the script runs on.                                                 *)

\* Once lua_gettop is unhooked for good and no call is left before its write of hLua,
\* no step of any thread changes the state the script is loaded into and called on.
THEOREM SettledForGoodCorrect == Spec => SettledForGood
<1>1. TypeOK /\ [Next]_vars => [Settled => Settled' /\ hLua' = hLua]_vars
  <2> SUFFICES ASSUME TypeOK, Next, Settled PROVE Settled' /\ hLua' = hLua
    OBVIOUS
  <2> USE LuaAssumption, CodeAssumption DEF Settled, ntVars, engineVars, luaVars, detachVars, callVars
  <2>1. CASE Starter \/ Reload
    BY <2>1 DEF Starter, Reload, LoadEngine, LoadEngineFails, HookAlloc, HookQueue, HookRegister,
         HookFails, HookJump, LoadLua, LoadLuaFails, HandlerRead, RemovePatch, Unhook, luaSetHooks,
         LoadFile, LoadFileFails, PCall, PCallFails, StarterFaults, StarterStep, CrashWith,
         Scripting, starterVars
  <2>2. CASE DetachUnhook
    BY <2>2 DEF DetachUnhook, DetachStep, UnhookPatch, UnhookFunction, WriteJump, starterVars,
         TypeOK, NtTypeOK
  <2>3. CASE Detach \/ DetachFaults \/ DetachPop \/ DetachFree \/ Unmap
    BY <2>3 DEF Detach, DetachFaults, DetachPop, DetachFree, Unmap, DetachStep, CrashWith,
         starterVars
  <2>4. ASSUME NEW t \in Thread, Progress(t) \/ \E L \in LuaState : Call(t, L)
        PROVE  Settled' /\ hLua' = hLua
    BY <2>4 DEF Progress, Call, RunUnhooked, EnterHook, SetHandler, RunOriginal, ReturnToHook,
         Return, EnterUnmapped, HookFaults, CallStep, CrashWith, starterVars, TypeOK
  <2> QED  BY <2>1, <2>2, <2>3, <2>4 DEF Next, Detacher
<1> QED  BY <1>1, TypeCorrect, PTL DEF Spec, SettledForGood
-------------------------------------------------------------------------------
(* The jump that outlives the image.                                             *)

\* The patch in hand is registered for lua_gettop and carries its address while it lives.
LEMMA OnlyFunction ==
    ASSUME TypeOK
    PROVE  /\ \A p \in Patch : Live(p) => heap[p] = lua_gettop
           /\ code \in [{lua_gettop} -> {Original, Bridge, lua_gettop_hook}]
           /\ lua_gettop_hook # Bridge /\ lua_gettop_hook # Original
  BY LuaAssumption, CodeAssumption DEF TypeOK, NtTypeOK, EngineTypeOK, Live, CodeState

\* IInv is inductive: the patch of the one HookEngine_hook is alive and in the queue or
\* in somebody's hand for as long as its jump is in the client's code.
THEOREM IInvInductive == Spec => []IInv
<1> DEFINE Inv == OnePatch /\ InOrder /\ JumpOfPatch /\ JumpHeld
<1>1. Init => Inv
  <2> SUFFICES ASSUME Init PROVE Inv
    OBVIOUS
  <2>1. code[lua_gettop] # lua_gettop_hook
    BY LuaAssumption, CodeAssumption DEF Init, NtInit
  <2>2. \A p \in Patch : ~ Live(p)
    BY DEF Init, EngineInit, Live
  <2>3. patches \in Seq({sp})
    BY EmptySeq DEF Init, EngineInit
  <2> QED  BY <2>1, <2>2, <2>3 DEF Init, EngineInit, OnePatch, InOrder, JumpOfPatch, JumpHeld, Hooking
<1>2. IInv /\ TypeOK' /\ [Next]_vars => Inv'
  <2> SUFFICES ASSUME IInv, TypeOK', [Next]_vars PROVE Inv'
    OBVIOUS
  <2> USE LuaAssumption DEF Live, Hooking, Scripting, ntVars, engineVars, luaVars, detachVars,
          callVars
  <2>t. /\ \A p \in Patch : Live(p) => heap[p] = lua_gettop
        /\ code \in [{lua_gettop} -> {Original, Bridge, lua_gettop_hook}]
        /\ lua_gettop_hook # Bridge /\ lua_gettop_hook # Original
    BY OnlyFunction DEF IInv
  <2>p. /\ patches \in Seq(Patch) /\ patches \in Seq({sp})
        /\ sp \in Patch \cup {NULL} /\ heap \in [Patch -> Function \cup {Unallocated}]
    BY DEF IInv, TypeOK, EngineTypeOK, OnePatch
  <2>r. UNCHANGED table => (Registered(lua_gettop)' <=> Registered(lua_gettop))
    BY DEF Registered
  <2>c. ASSUME NEW reason, CrashWith(reason) PROVE Inv'
    BY <2>c, <2>r DEF CrashWith, starterVars, IInv, OnePatch, InOrder, JumpOfPatch, JumpHeld
  <2>1. CASE Starter \/ Reload
    <3> USE DEF StarterStep
    <3>1. CASE LoadEngine
      <4>11. OnePatch'
        BY <3>1, <2>t, <2>p, <2>r, EmptySeq
        DEF LoadEngine, HookEngine_new, IInv, OnePatch, InHand
      <4>12. InOrder'
        BY <3>1, <2>t, <2>p, <2>r, EmptySeq
        DEF LoadEngine, HookEngine_new, IInv, InOrder
      <4>13. JumpOfPatch'
        BY <3>1, <2>t, <2>p, <2>r, EmptySeq
        DEF LoadEngine, HookEngine_new, IInv, JumpOfPatch, OnePatch, InOrder, InHand
      <4>14. JumpHeld'
        BY <3>1, <2>t, <2>p, <2>r, EmptySeq
        DEF LoadEngine, HookEngine_new, IInv, JumpHeld, OnePatch, InOrder, JumpOfPatch
      <4> QED  BY <4>11, <4>12, <4>13, <4>14
    <3>2. CASE LoadEngineFails \/ HookFails \/ LoadLua \/ LoadLuaFails \/ HandlerRead
      <4>11. OnePatch'
        BY <3>2, <2>t, <2>p, <2>r
        DEF LoadEngineFails, HookFails, LoadLua, LoadLuaFails, HandlerRead, IInv, OnePatch, InHand
      <4>12. InOrder'
        BY <3>2, <2>t, <2>p, <2>r
        DEF LoadEngineFails, HookFails, LoadLua, LoadLuaFails, HandlerRead, IInv, InOrder
      <4>13. JumpOfPatch'
        BY <3>2, <2>t, <2>p, <2>r
        DEF LoadEngineFails, HookFails, LoadLua, LoadLuaFails, HandlerRead, IInv, JumpOfPatch, OnePatch, InOrder, InHand
      <4>14. JumpHeld'
        BY <3>2, <2>t, <2>p, <2>r
        DEF LoadEngineFails, HookFails, LoadLua, LoadLuaFails, HandlerRead, IInv, JumpHeld, OnePatch, InOrder, JumpOfPatch
      <4> QED  BY <4>11, <4>12, <4>13, <4>14
    <3>3. CASE luaSetHooks \/ LoadFileFails \/ LoadFile \/ PCall \/ PCallFails \/ Reload
      <4>11. OnePatch'
        BY <3>3, <2>t, <2>p, <2>r
        DEF luaSetHooks, LoadFileFails, LoadFile, PCall, PCallFails, Reload, IInv, OnePatch, InHand
      <4>12. InOrder'
        BY <3>3, <2>t, <2>p, <2>r
        DEF luaSetHooks, LoadFileFails, LoadFile, PCall, PCallFails, Reload, IInv, InOrder
      <4>13. JumpOfPatch'
        BY <3>3, <2>t, <2>p, <2>r
        DEF luaSetHooks, LoadFileFails, LoadFile, PCall, PCallFails, Reload, IInv, JumpOfPatch, OnePatch, InOrder, InHand
      <4>14. JumpHeld'
        BY <3>3, <2>t, <2>p, <2>r
        DEF luaSetHooks, LoadFileFails, LoadFile, PCall, PCallFails, Reload, IInv, JumpHeld, OnePatch, InOrder, JumpOfPatch
      <4> QED  BY <4>11, <4>12, <4>13, <4>14
    <3>4. ASSUME NEW p \in Patch, HookAlloc(p) PROVE Inv'
      <4>11. OnePatch'
        BY <3>4, <2>t, <2>p, <2>r, EmptySeq, PatchAssumption
        DEF HookAlloc, AllocPatch, IInv, OnePatch, InHand
      <4>12. InOrder'
        BY <3>4, <2>t, <2>p, <2>r, EmptySeq, PatchAssumption
        DEF HookAlloc, AllocPatch, IInv, InOrder
      <4>13. JumpOfPatch'
        BY <3>4, <2>t, <2>p, <2>r, EmptySeq, PatchAssumption
        DEF HookAlloc, AllocPatch, IInv, JumpOfPatch, OnePatch, InOrder, InHand
      <4>14. JumpHeld'
        BY <3>4, <2>t, <2>p, <2>r, EmptySeq, PatchAssumption
        DEF HookAlloc, AllocPatch, IInv, JumpHeld, OnePatch, InOrder, JumpOfPatch
      <4> QED  BY <4>11, <4>12, <4>13, <4>14
    <3>5. CASE HookQueue
      <4>1. patches' \in Seq({sp}) /\ patches' # <<>>
        BY <3>5, <2>p, AppendProperties DEF HookQueue, QueuePatch
      <4>11. OnePatch'
        BY <3>5, <2>t, <2>p, <2>r, <4>1
        DEF HookQueue, QueuePatch, IInv, OnePatch, InHand
      <4>12. InOrder'
        BY <3>5, <2>t, <2>p, <2>r, <4>1
        DEF HookQueue, QueuePatch, IInv, InOrder
      <4>13. JumpOfPatch'
        BY <3>5, <2>t, <2>p, <2>r, <4>1
        DEF HookQueue, QueuePatch, IInv, JumpOfPatch, OnePatch, InOrder, InHand
      <4>14. JumpHeld'
        BY <3>5, <2>t, <2>p, <2>r, <4>1
        DEF HookQueue, QueuePatch, IInv, JumpHeld, OnePatch, InOrder, JumpOfPatch
      <4> QED  BY <4>11, <4>12, <4>13, <4>14
    <3>6. CASE HookRegister
      <4>1. Registered(lua_gettop)'
        BY <3>6, AppendProperties DEF HookRegister, Register, Registered, IInv, TypeOK, NtTypeOK
      <4>11. OnePatch'
        BY <3>6, <2>t, <2>p, <2>r, <4>1
        DEF HookRegister, Register, IInv, OnePatch, InHand
      <4>12. InOrder'
        BY <3>6, <2>t, <2>p, <2>r, <4>1
        DEF HookRegister, Register, IInv, InOrder
      <4>13. JumpOfPatch'
        BY <3>6, <2>t, <2>p, <2>r, <4>1
        DEF HookRegister, Register, IInv, JumpOfPatch, OnePatch, InOrder, InHand
      <4>14. JumpHeld'
        BY <3>6, <2>t, <2>p, <2>r, <4>1
        DEF HookRegister, Register, IInv, JumpHeld, OnePatch, InOrder, JumpOfPatch
      <4> QED  BY <4>11, <4>12, <4>13, <4>14
    <3>7. CASE HookJump
      <4>11. OnePatch'
        BY <3>7, <2>t, <2>p, <2>r
        DEF HookJump, WriteJump, IInv, OnePatch, InHand
      <4>12. InOrder'
        BY <3>7, <2>t, <2>p, <2>r
        DEF HookJump, WriteJump, IInv, InOrder
      <4>13. JumpOfPatch'
        BY <3>7, <2>t, <2>p, <2>r
        DEF HookJump, WriteJump, IInv, JumpOfPatch, OnePatch, InOrder, InHand
      <4>14. JumpHeld'
        BY <3>7, <2>t, <2>p, <2>r
        DEF HookJump, WriteJump, IInv, JumpHeld, OnePatch, InOrder, JumpOfPatch
      <4> QED  BY <4>11, <4>12, <4>13, <4>14
    <3>8. CASE RemovePatch
      <4>1. patches' \in Seq({sp})
        BY <3>8, <2>p, RemvType DEF RemovePatch
      <4>11. OnePatch'
        BY <3>8, <2>t, <2>p, <2>r, <4>1
        DEF RemovePatch, IInv, OnePatch, InHand
      <4>12. InOrder'
        BY <3>8, <2>t, <2>p, <2>r, <4>1
        DEF RemovePatch, IInv, InOrder
      <4>13. JumpOfPatch'
        BY <3>8, <2>t, <2>p, <2>r, <4>1
        DEF RemovePatch, IInv, JumpOfPatch, OnePatch, InOrder, InHand
      <4>14. JumpHeld'
        BY <3>8, <2>t, <2>p, <2>r, <4>1
        DEF RemovePatch, IInv, JumpHeld, OnePatch, InOrder, JumpOfPatch
      <4> QED  BY <4>11, <4>12, <4>13, <4>14
    <3>9. CASE Unhook
      <4>1. code'[lua_gettop] \in {code[lua_gettop], Bridge}
        BY <3>9, <2>t DEF Unhook, UnhookPatch, UnhookFunction, WriteJump
      <4>2. ~ early => code'[lua_gettop] # lua_gettop_hook
        BY <3>9, <2>t DEF Unhook, UnhookPatch, UnhookFunction, WriteJump, IInv, JumpOfPatch
      <4>11. OnePatch'
        BY <3>9, <2>t, <2>p, <2>r, <4>1, <4>2
        DEF Unhook, IInv, OnePatch, InHand
      <4>12. InOrder'
        BY <3>9, <2>t, <2>p, <2>r, <4>1, <4>2
        DEF Unhook, IInv, InOrder
      <4>13. JumpOfPatch'
        BY <3>9, <2>t, <2>p, <2>r, <4>1, <4>2
        DEF Unhook, IInv, JumpOfPatch, OnePatch, InOrder, InHand
      <4>14. JumpHeld'
        BY <3>9, <2>t, <2>p, <2>r, <4>1, <4>2
        DEF Unhook, IInv, JumpHeld, OnePatch, InOrder, JumpOfPatch
      <4> QED  BY <4>11, <4>12, <4>13, <4>14
    <3>10. CASE StarterFaults
      BY <3>10, <2>c DEF StarterFaults
    <3> QED  BY <2>1, <3>1, <3>2, <3>3, <3>4, <3>5, <3>6, <3>7, <3>8, <3>9, <3>10 DEF Starter
  <2>2. CASE Detach \/ Detacher
    <3> USE DEF DetachStep, starterVars
    <3>1. CASE DetachFaults
      BY <3>1, <2>c DEF DetachFaults
    <3>2. CASE Detach
      <4>11. OnePatch'
        BY <3>2, <2>t, <2>p, <2>r
        DEF Detach, IInv, OnePatch, InHand
      <4>12. InOrder'
        BY <3>2, <2>t, <2>p, <2>r
        DEF Detach, IInv, InOrder
      <4>13. JumpOfPatch'
        BY <3>2, <2>t, <2>p, <2>r
        DEF Detach, IInv, JumpOfPatch, OnePatch, InOrder, InHand
      <4>14. JumpHeld'
        BY <3>2, <2>t, <2>p, <2>r
        DEF Detach, IInv, JumpHeld, OnePatch, InOrder, JumpOfPatch
      <4> QED  BY <4>11, <4>12, <4>13, <4>14
    <3>3. CASE DetachPop
      <4>1. patches' \in Seq({sp}) /\ dp' = sp /\ patches # <<>>
        BY <3>3, <2>p, PopType DEF DetachPop, PopPatch
      <4>11. OnePatch'
        BY <3>3, <2>t, <2>p, <2>r, <4>1
        DEF DetachPop, PopPatch, IInv, OnePatch, InHand
      <4>12. InOrder'
        BY <3>3, <2>t, <2>p, <2>r, <4>1
        DEF DetachPop, PopPatch, IInv, InOrder
      <4>13. JumpOfPatch'
        BY <3>3, <2>t, <2>p, <2>r, <4>1
        DEF DetachPop, PopPatch, IInv, JumpOfPatch, OnePatch, InOrder, InHand
      <4>14. JumpHeld'
        BY <3>3, <2>t, <2>p, <2>r, <4>1
        DEF DetachPop, PopPatch, IInv, JumpHeld, OnePatch, InOrder, JumpOfPatch
      <4> QED  BY <4>11, <4>12, <4>13, <4>14
    <3>4. CASE DetachUnhook
      <4>1. code'[lua_gettop] \in {code[lua_gettop], Bridge}
        BY <3>4, <2>t DEF DetachUnhook, UnhookPatch, UnhookFunction, WriteJump
      <4>2. ~ early => code'[lua_gettop] # lua_gettop_hook
        BY <3>4, <2>t DEF DetachUnhook, UnhookPatch, UnhookFunction, WriteJump, IInv, OnePatch,
           JumpOfPatch
      <4>11. OnePatch'
        BY <3>4, <2>t, <2>p, <2>r, <4>1, <4>2
        DEF DetachUnhook, IInv, OnePatch, InHand
      <4>12. InOrder'
        BY <3>4, <2>t, <2>p, <2>r, <4>1, <4>2
        DEF DetachUnhook, IInv, InOrder
      <4>13. JumpOfPatch'
        BY <3>4, <2>t, <2>p, <2>r, <4>1, <4>2
        DEF DetachUnhook, IInv, JumpOfPatch, OnePatch, InOrder, InHand
      <4>14. JumpHeld'
        BY <3>4, <2>t, <2>p, <2>r, <4>1, <4>2
        DEF DetachUnhook, IInv, JumpHeld, OnePatch, InOrder, JumpOfPatch
      <4> QED  BY <4>11, <4>12, <4>13, <4>14
    <3>5. CASE DetachFree
      <4>11. OnePatch'
        BY <3>5, <2>t, <2>p, <2>r
        DEF DetachFree, FreePatch, IInv, OnePatch, InHand
      <4>12. InOrder'
        BY <3>5, <2>t, <2>p, <2>r
        DEF DetachFree, FreePatch, IInv, InOrder
      <4>13. JumpOfPatch'
        BY <3>5, <2>t, <2>p, <2>r
        DEF DetachFree, FreePatch, IInv, JumpOfPatch, OnePatch, InOrder, InHand
      <4>14. JumpHeld'
        BY <3>5, <2>t, <2>p, <2>r
        DEF DetachFree, FreePatch, IInv, JumpHeld, OnePatch, InOrder, JumpOfPatch
      <4> QED  BY <4>11, <4>12, <4>13, <4>14
    <3>6. CASE Unmap
      <4>11. OnePatch'
        BY <3>6, <2>t, <2>p, <2>r
        DEF Unmap, IInv, OnePatch, InHand
      <4>12. InOrder'
        BY <3>6, <2>t, <2>p, <2>r
        DEF Unmap, IInv, InOrder
      <4>13. JumpOfPatch'
        BY <3>6, <2>t, <2>p, <2>r
        DEF Unmap, IInv, JumpOfPatch, OnePatch, InOrder, InHand
      <4>14. JumpHeld'
        BY <3>6, <2>t, <2>p, <2>r
        DEF Unmap, IInv, JumpHeld, OnePatch, InOrder, JumpOfPatch
      <4> QED  BY <4>11, <4>12, <4>13, <4>14
    <3> QED  BY <2>2, <3>1, <3>2, <3>3, <3>4, <3>5, <3>6 DEF Detacher
  <2>4. ASSUME NEW t \in Thread, Progress(t) \/ \E L \in LuaState : Call(t, L) PROVE Inv'
    <3> USE DEF starterVars, CallStep
    <3>1. CASE EnterUnmapped(t) \/ HookFaults(t)
      BY <3>1, <2>c DEF EnterUnmapped, HookFaults
    <3>2. CASE ~ (EnterUnmapped(t) \/ HookFaults(t))
      <4>1. UNCHANGED <<ntVars, engineVars, originalHook, chunks, starterVars, detachVars, crash>>
        BY <2>4, <3>2 DEF Progress, Call, RunUnhooked, EnterHook, SetHandler, RunOriginal,
             ReturnToHook, Return
      <4> QED  BY <4>1, <2>r DEF IInv, OnePatch, InOrder, JumpOfPatch, JumpHeld
    <3> QED  BY <3>1, <3>2
  <2>5. CASE UNCHANGED vars
    BY <2>5, <2>r DEF vars, IInv, OnePatch, InOrder, JumpOfPatch, JumpHeld
  <2> QED  BY <2>1, <2>2, <2>4, <2>5 DEF Next
<1> QED  BY <1>1, <1>2, TypeCorrect, PTL DEF Spec, IInv

\* If endInjection did not begin during HookEngine_hook, the image leaves a jump to
\* itself behind only between the two halves of the thread's own HookEngine_unhook.
THEOREM JumpLeftOnlyMidwayCorrect == Spec => []JumpLeftOnlyMidway
<1>1. IInv => JumpLeftOnlyMidway
  BY DEF IInv, JumpHeld, JumpLeftOnlyMidway
<1> QED  BY <1>1, IInvInductive, PTL
===============================================================================
