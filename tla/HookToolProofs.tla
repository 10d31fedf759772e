---------------------------- MODULE HookToolProofs ----------------------------
(* Theorems about HookTool, for every plan, set of load addresses, number of    *)
(* calls in progress and table capacity.                                        *)
EXTENDS HookTool, WalkLemmas

USE DEF Alive

-------------------------------------------------------------------------------
(* Facts about the queue of patches and the library's table.                     *)

\* bb_queue_pop shortens the queue by its last element and keeps the others.
LEMMA ButLastFacts ==
    ASSUME NEW S, NEW q \in Seq(S), q # <<>>
    PROVE  /\ ButLast(q) \in Seq(S)
           /\ Len(ButLast(q)) = Len(q) - 1
           /\ Len(q) \in Nat \ {0}
           /\ DOMAIN ButLast(q) = 1 .. (Len(q) - 1)
           /\ DOMAIN q = 1 .. Len(q)
           /\ \A i \in 1 .. (Len(q) - 1) : ButLast(q)[i] = q[i]
           /\ Last(q) \in S
BY AllButLast DEF ButLast, Last

\* bb_queue_remv of a patch that is not queued leaves the queue as it is, so that
\* HookEngine_unhook may be given a patch HookEngine_unhook_all has popped.
LEMMA RemvOfAbsent ==
    ASSUME NEW q, NEW p, \A i \in DOMAIN q : q[i] # p
    PROVE  Remv(q, p) = q
  BY DEF Remv, IsFirstIndexOf

\* Together: with no patch queued twice, PopPatch removes exactly the last one.
LEMMA PopFacts ==
    ASSUME patches \in Seq(Patch),
           \A i, j \in DOMAIN patches : patches[i] = patches[j] => i = j,
           PopPatch
    PROVE  /\ patches' = ButLast(patches)
           /\ patches # <<>>
<1>1. patches # <<>>
  BY DEF PopPatch
<1>2. \A i \in DOMAIN ButLast(patches) : ButLast(patches)[i] # Last(patches)
  <2>1. /\ DOMAIN ButLast(patches) = 1 .. (Len(patches) - 1)
        /\ Len(patches) \in Nat \ {0}
        /\ DOMAIN patches = 1 .. Len(patches)
        /\ \A i \in 1 .. (Len(patches) - 1) : ButLast(patches)[i] = patches[i]
    BY <1>1, ButLastFacts
  <2>2. TAKE i \in DOMAIN ButLast(patches)
  <2>3. i \in DOMAIN patches /\ Len(patches) \in DOMAIN patches /\ i # Len(patches)
    BY <2>1
  <2> QED  BY <2>1, <2>3 DEF Last
<1> QED  BY <1>1, <1>2, RemvOfAbsent DEF PopPatch

\* bb_queue_remv keeps a queue of patches a queue of patches.
LEMMA RemvType ==
    ASSUME NEW S, NEW q \in Seq(S), NEW p
    PROVE  Remv(q, p) \in Seq(S)
<1>1. CASE ~ \E i \in DOMAIN q : IsFirstIndexOf(i, q, p)
  BY <1>1 DEF Remv
<1>2. CASE \E i \in DOMAIN q : IsFirstIndexOf(i, q, p)
  <2> DEFINE k == CHOOSE i \in DOMAIN q : IsFirstIndexOf(i, q, p)
  <2>1. k \in DOMAIN q
    BY <1>2
  <2>2. Remv(q, p) = [j \in 1 .. (Len(q) - 1) |-> IF j < k THEN q[j] ELSE q[j + 1]]
    BY <1>2 DEF Remv
  <2> HIDE DEF k
  <2> QED  BY <2>1, <2>2, AllButOne
<1> QED  BY <1>1, <1>2

\* GetOriginalFunction finds an entry given that hook, and its function, or NULL.
LEMMA LookUpFacts ==
    ASSUME NtTypeOK, NEW h
    PROVE  \/ HookEngine_get_original_function(h) = NoFunction
           \/ \E i \in DOMAIN table :
                /\ table[i].hook = h
                /\ HookEngine_get_original_function(h) = table[i].function
<1>1. CASE ~ \E i \in DOMAIN table : IsFirstEntryOf(i, h)
  BY <1>1 DEF HookEngine_get_original_function, GetOriginalFunction
<1>2. CASE \E i \in DOMAIN table : IsFirstEntryOf(i, h)
  <2> DEFINE k == CHOOSE i \in DOMAIN table : IsFirstEntryOf(i, h)
  <2>1. k \in DOMAIN table /\ IsFirstEntryOf(k, h)
    BY <1>2
  <2>2. HookEngine_get_original_function(h) = table[k].function
    BY <1>2 DEF HookEngine_get_original_function, GetOriginalFunction
  <2> QED  BY <2>1, <2>2 DEF IsFirstEntryOf
<1> QED  BY <1>1, <1>2

\* So what it returns is a function or NULL.
LEMMA LookUpType ==
    ASSUME NtTypeOK, NEW h
    PROVE  HookEngine_get_original_function(h) \in Function \cup {NoFunction}
<1>1. \A i \in DOMAIN table : table[i] \in Entry
  BY SMT DEF NtTypeOK
<1>2. \A e \in Entry : e.function \in Function
  BY DEF Entry
<1> QED  BY <1>1, <1>2, LookUpFacts

\* The lookup answers NULL for a hook only if no entry was given that hook.
LEMMA NullLookUp ==
    ASSUME NtTypeOK, NEW h, HookEngine_get_original_function(h) = NoFunction
    PROVE  \A i \in DOMAIN table : table[i].hook # h
<1> SUFFICES ASSUME NEW j \in DOMAIN table, table[j].hook = h PROVE FALSE
  OBVIOUS
<1>1. DOMAIN table \subseteq Nat /\ \A i \in DOMAIN table : table[i] \in Entry
  BY SMT DEF NtTypeOK
<1> DEFINE T == {i \in DOMAIN table : table[i].hook = h}
<1>2. T \subseteq Nat /\ T # {}
  BY <1>1
<1>3. PICK i \in T : \A k \in T : i <= k
  <2> HIDE DEF T
  <2> QED  BY <1>2, LeastNatural
<1>4. IsFirstEntryOf(i, h)
  BY <1>3 DEF IsFirstEntryOf
<1>5. PICK k \in DOMAIN table : HookEngine_get_original_function(h) = table[k].function
  BY <1>4 DEF HookEngine_get_original_function, GetOriginalFunction
<1>6. table[k].function \in Function
  BY <1>1, <1>5 DEF Entry
<1> QED  BY <1>5, <1>6, CodeAssumption

-------------------------------------------------------------------------------
(* Type correctness.                                                            *)

\* The kind of thing each address is told apart by.
LEMMA Addresses ==
    /\ \A i \in DOMAIN Plan : Plan[i].function \in Function /\ Plan[i].hook \in Hook
    /\ DOMAIN Plan = 1 .. Len(Plan)
    /\ Len(Plan) \in Nat
    /\ \A h \in Hook, b \in Base : HookAt(h, b) \in HookAddr
    /\ Original \notin HookAddr /\ Bridge \notin HookAddr
    /\ NoFunction \notin Function
<1>1. DOMAIN Plan = 1 .. Len(Plan) /\ Len(Plan) \in Nat
  BY PlanAssumption, LenProperties
<1>2. \A i \in DOMAIN Plan : Plan[i] \in [function : Function, hook : Hook]
  BY <1>1, PlanAssumption, ElementOfSeq
<1>3. \A e \in [function : Function, hook : Hook] : e.function \in Function /\ e.hook \in Hook
  OBVIOUS
<1>4. \A h \in Hook, b \in Base : HookAt(h, b) \in HookAddr
  BY PlanAssumption DEF HookAt
<1> QED  BY <1>1, <1>2, <1>3, <1>4, CodeAssumption

\* Every variable of HookTool keeps its type, whatever the threads do.
THEOREM TypeCorrect == Spec => []TypeOK
<1>1. Init => TypeOK
  <2> SUFFICES ASSUME Init PROVE TypeOK
    OBVIOUS
  <2>1. NtTypeOK
    BY SMT DEF Init, NtInit, NtTypeOK, CodeState
  <2>2. EngineTypeOK
    BY EmptySeq DEF Init, EngineInit, EngineTypeOK
  <2>3. 0 \in 0 .. MaxInjections /\ 1 \in 1 .. (Len(Plan) + 1)
    BY Addresses, PlanAssumption, SMT
  <2> QED  BY <2>1, <2>2, <2>3 DEF Init, TypeOK, Crashes
<1>2. TypeOK /\ [Next]_vars => TypeOK'
  <2> SUFFICES ASSUME TypeOK, [Next]_vars
               PROVE  TypeOK'
    OBVIOUS
  <2> USE Addresses DEF TypeOK, NtTypeOK, EngineTypeOK, CodeState
  <2>c. \A reason \in Crashes : CrashWith(reason) => TypeOK'
    BY SMT DEF CrashWith, ntVars, engineVars, dllVars, starterVars, detachVars, callVars
  <2>1. ASSUME NEW b \in Base, Attach(b) PROVE TypeOK'
    <3>1. injections + 1 \in 0 .. MaxInjections /\ 1 \in 1 .. (Len(Plan) + 1)
      BY <2>1, Addresses, PlanAssumption, SMT DEF Attach
    <3>2. <<>> \in Seq(Patch)
      OBVIOUS
    <3> QED  BY <2>1, <3>1, <3>2 DEF Attach, ntVars, detachVars, callVars
  <2>2. CASE Detach
    BY <2>2, SMT DEF Detach, ntVars, engineVars, starterVars, callVars
  <2>3. CASE Starter
    <3> USE DEF StarterStep, dllVars, detachVars, callVars
    <3>1. CASE LoadEngine
      BY <3>1, SMT DEF LoadEngine, HookEngine_new, ntVars
    <3>2. CASE LoadEngineFails
      BY <3>2, SMT DEF LoadEngineFails, ntVars, engineVars
    <3>3. CASE StarterEnds
      BY <3>3, SMT DEF StarterEnds, ntVars, engineVars
    <3>4. ASSUME NEW p \in Patch, HookAlloc(p) PROVE TypeOK'
      BY <3>4, SMT DEF HookAlloc, AllocPatch, ntVars
    <3>5. CASE HookQueue
      BY <3>5, SMT DEF HookQueue, QueuePatch, ntVars
    <3>6. CASE HookRegister
      <4>1. si \in DOMAIN Plan /\ Mapped
        BY <3>6 DEF HookRegister
      <4>2. [function |-> Plan[si].function, hook |-> HookAt(Plan[si].hook, base)] \in Entry
        BY <4>1 DEF Mapped, Entry
      <4>3. table' \in Seq(Entry)
        <5> DEFINE e == [function |-> Plan[si].function, hook |-> HookAt(Plan[si].hook, base)]
        <5>1. Append(table, e) \in Seq(Entry)
          BY <4>2, AppendProperties
        <5>2. table' = table \/ table' = Append(table, e)
          BY <3>6 DEF HookRegister, Register
        <5> QED  BY <5>1, <5>2
      <4> QED  BY <3>6, <4>3, SMT DEF HookRegister, engineVars
    <3>7. CASE HookFails
      BY <3>7, SMT DEF HookFails, ntVars, engineVars
    <3>8. CASE HookJump
      BY <3>8, SMT DEF HookJump, WriteJump, Mapped, engineVars
    <3>9. CASE StarterFaults
      BY <3>9, <2>c DEF StarterFaults, Crashes
    <3> QED  BY <2>3, <3>1, <3>2, <3>3, <3>4, <3>5, <3>6, <3>7, <3>8, <3>9 DEF Starter
  <2>4. CASE Detacher
    <3> USE DEF DetachStep, starterVars, callVars
    <3>1. CASE DetachFaults
      BY <3>1, <2>c DEF DetachFaults, Crashes
    <3>2. CASE DetachPop
      <4>1. PopPatch /\ dp' = Last(patches)
        BY <3>2 DEF DetachPop
      <4>2. patches \in Seq(Patch) /\ patches # <<>>
        BY <4>1 DEF PopPatch
      <4>3. ButLast(patches) \in Seq(Patch) /\ Last(patches) \in Patch
        BY <4>2, ButLastFacts
      <4>4. patches' \in Seq(Patch)
        BY <4>1, <4>3, RemvType DEF PopPatch
      <4> QED  BY <3>2, <4>1, <4>3, <4>4, SMT DEF DetachPop, PopPatch, ntVars
    <3>3. CASE DetachUnhook
      <4>1. code' \in [Function -> CodeState]
        BY <3>3 DEF DetachUnhook, UnhookPatch, UnhookFunction, WriteJump
      <4> QED  BY <3>3, <4>1 DEF DetachUnhook, engineVars
    <3>4. CASE DetachFree
      BY <3>4, SMT DEF DetachFree, FreePatch, ntVars
    <3>5. CASE Unmap
      BY <3>5, SMT DEF Unmap, ntVars, engineVars
    <3> QED  BY <2>4, <3>1, <3>2, <3>3, <3>4, <3>5 DEF Detacher
  <2>5. ASSUME NEW t \in Thread, Progress(t) PROVE TypeOK'
    <3> USE DEF CallStep, ntVars, engineVars, dllVars, starterVars, detachVars
    <3>1. CASE EnterUnmapped(t) \/ HookFaults(t) \/ LookUpFaults(t) \/ RunNull(t)
      BY <3>1, <2>c DEF EnterUnmapped, HookFaults, LookUpFaults, RunNull, Crashes
    <3>2. CASE RunUnhooked(t)
      BY <3>2, SMT DEF RunUnhooked
    <3>3. CASE EnterHook(t)
      BY <3>3, SMT DEF EnterHook
    <3>4. CASE LookUp(t)
      BY <3>4, LookUpType, SMT DEF LookUp
    <3>5. CASE Replace(t)
      BY <3>5, SMT DEF Replace
    <3>6. CASE RunOriginal(t)
      BY <3>6, SMT DEF RunOriginal
    <3>7. CASE ReturnToHook(t)
      BY <3>7, SMT DEF ReturnToHook
    <3>8. CASE Return(t)
      BY <3>8, SMT DEF Return
    <3> QED  BY <2>5, <3>1, <3>2, <3>3, <3>4, <3>5, <3>6, <3>7, <3>8 DEF Progress
  <2>6. ASSUME NEW t \in Thread, NEW f \in Function, Call(t, f) PROVE TypeOK'
    BY <2>6, SMT DEF Call, CallStep, ntVars, engineVars, dllVars, starterVars, detachVars
  <2>7. CASE UNCHANGED vars
    BY <2>7, SMT DEF vars
  <2> QED  BY <2>1, <2>2, <2>3, <2>4, <2>5, <2>6, <2>7 DEF Next
<1> QED  BY <1>1, <1>2, PTL DEF Spec
-------------------------------------------------------------------------------
(* Which original a hook is given. Every entry, every jump and every call in a   *)
(* hook goes back to one item of the plan, at some load address; no two items    *)
(* share a hook, so the first entry with that hook is an entry of the function.  *)

PlannedHook(f, h) ==
    \E k \in DOMAIN Plan, b \in Base :
        Plan[k].function = f /\ h = HookAt(Plan[k].hook, b)

EntriesPlanned == \A i \in DOMAIN table : PlannedHook(table[i].function, table[i].hook)
JumpsPlanned == \A f \in Function : code[f] \in HookAddr => PlannedHook(f, code[f])
CallsPlanned ==
    \A t \in Thread :
        /\ via[t] \in HookAddr => PlannedHook(fn[t], via[t])
        /\ gpc[t] \in {"hook", "tail", "back"} => via[t] \in HookAddr
        /\ gpc[t] \in {"enter", "hook"} => orig[t] = NoFunction
        /\ gpc[t] = "body" => orig[t] = fn[t]
        /\ gpc[t] = "back" /\ orig[t] = NoFunction => fn[t] \in Replaced

Attribution == EntriesPlanned /\ JumpsPlanned /\ CallsPlanned /\ OwnOriginal

-------------------------------------------------------------------------------
(* Which patch covers a jump, and where every patch is.                          *)

HoldsPatch == dpc \in {"unhook", "free"}

\* The steps the two threads can be at, given the other.
Phases ==
    /\ dpc # "none" => Mapped /\ (~ early => StarterEnded)
    /\ HoldsPatch => engine
    /\ spc \in {"alloc", "queue", "register", "jump", "done"} => engine
    /\ spc \in {"new", "failed", "none"} => ~ engine
    /\ ~ early /\ ~ Mapped => StarterEnded

\* Every patch is in the queue, in endInjection's hand or in startInjection's.
Ownership ==
    /\ \A i, j \in DOMAIN patches : patches[i] = patches[j] => i = j
    /\ \A i \in DOMAIN patches : Live(patches[i])
    /\ HoldsPatch => Live(dp) /\ ~ Queued(dp)
    /\ spc = "queue" =>
         /\ heap[sp] = Plan[si].function
         /\ ~ Queued(sp)
         /\ (HoldsPatch => dp # sp)
    /\ \A p \in Patch : Live(p) =>
         Queued(p) \/ (HoldsPatch /\ dp = p) \/ (spc = "queue" /\ sp = p)
    /\ ~ Mapped \/ ~ engine => patches = <<>>

\* The patch startInjection is about to write a jump for is already queued.
Pending ==
    ~ early /\ spc \in {"register", "jump"} => Queued(sp) /\ heap[sp] = Plan[si].function

JumpsRegistered ==
    /\ \A f \in Function : code[f] \in HookAddr => Registered(f)
    /\ spc = "jump" => Registered(Plan[si].function)

Coverage ==
    /\ TypeOK /\ Phases /\ Ownership /\ Pending /\ JumpsRegistered
    /\ JumpsCovered /\ JumpsIntoImage
-------------------------------------------------------------------------------
\* The plan gives a hook to one function only.
LEMMA PlannedHookUnique ==
    ASSUME NEW f, NEW g, NEW h, PlannedHook(f, h), PlannedHook(g, h)
    PROVE  f = g
  BY PlanAssumption DEF PlannedHook, HookAt

\* A step that leaves the library and the calls alone leaves Attribution alone.
LEMMA AttributionStable ==
    ASSUME Attribution, UNCHANGED <<table, code, gpc, fn, via, orig>>
    PROVE  Attribution'
  BY DEF Attribution, EntriesPlanned, JumpsPlanned, CallsPlanned, OwnOriginal, PlannedHook

\* What HookEngine_get_original_function answers a hook is the original of the
\* function the hook was entered by, or NULL.
LEMMA LookUpOwn ==
    ASSUME TypeOK, Attribution, NEW t \in Thread, via[t] \in HookAddr
    PROVE  HookEngine_get_original_function(via[t]) \in {fn[t], NoFunction}
<1>1. PlannedHook(fn[t], via[t])
  BY DEF Attribution, CallsPlanned
<1>2. \A i \in DOMAIN table : table[i].hook = via[t] => table[i].function = fn[t]
  BY <1>1, PlannedHookUnique DEF Attribution, EntriesPlanned
<1> QED  BY <1>2, LookUpFacts DEF TypeOK

\* A hook only ever calls the original of the function it replaces.
THEOREM AttributionInductive == Spec => []Attribution
<1>1. Init => Attribution
  <2> SUFFICES ASSUME Init PROVE Attribution
    OBVIOUS
  <2>1. EntriesPlanned
    BY SMT DEF Init, NtInit, EntriesPlanned
  <2>2. JumpsPlanned
    BY CodeAssumption DEF Init, NtInit, JumpsPlanned
  <2>3. CallsPlanned /\ OwnOriginal
    BY CodeAssumption DEF Init, CallsPlanned, OwnOriginal
  <2> QED  BY <2>1, <2>2, <2>3 DEF Attribution
<1>2. TypeOK /\ Attribution /\ [Next]_vars => Attribution'
  <2> SUFFICES ASSUME TypeOK, Attribution, [Next]_vars PROVE Attribution'
    OBVIOUS
  <2>c. \A reason : CrashWith(reason) => Attribution'
    BY AttributionStable DEF CrashWith, ntVars, callVars
  <2>1. ASSUME NEW b \in Base, Attach(b) PROVE Attribution'
    BY <2>1, AttributionStable DEF Attach, ntVars, callVars
  <2>2. CASE Detach
    BY <2>2, AttributionStable DEF Detach, ntVars, callVars
  <2>3. CASE Starter
    <3> USE DEF StarterStep
    <3>1. CASE LoadEngine \/ LoadEngineFails \/ StarterEnds
      BY <3>1, AttributionStable DEF LoadEngine, LoadEngineFails, StarterEnds, ntVars, callVars
    <3>2. ASSUME NEW p \in Patch, HookAlloc(p) PROVE Attribution'
      BY <3>2, AttributionStable DEF HookAlloc, ntVars, callVars
    <3>3. CASE HookQueue \/ HookFails
      BY <3>3, AttributionStable DEF HookQueue, HookFails, ntVars, callVars
    <3>4. CASE HookRegister
      <4> DEFINE f == Plan[si].function
                 h == HookAt(Plan[si].hook, base)
      <4>1. si \in DOMAIN Plan /\ base \in Base
        BY <3>4 DEF HookRegister, TypeOK, Mapped
      <4>2. PlannedHook(f, h)
        BY <4>1 DEF PlannedHook
      <4>3. table \in Seq(Entry)
        BY DEF TypeOK, NtTypeOK
      <4>4. f \in Function /\ h \in HookAddr
        BY <4>1, Addresses
      <4>5. CASE UNCHANGED table
        BY <3>4, <4>5, AttributionStable DEF HookRegister, callVars
      <4>6. CASE table' = Append(table, [function |-> f, hook |-> h])
        <5> DEFINE e == [function |-> f, hook |-> h]
        <5>1. e \in Entry /\ e.function = f /\ e.hook = h
          BY <4>4 DEF Entry
        <5> HIDE DEF e, f, h
        <5>2. /\ DOMAIN table' = 1 .. (Len(table) + 1) /\ Len(table) \in Nat
              /\ DOMAIN table = 1 .. Len(table)
              /\ table'[Len(table) + 1] = e
              /\ \A i \in 1 .. Len(table) : table'[i] = table[i]
          BY <4>3, <4>6, <5>1, AppendProperties, LenProperties DEF e
        <5>3. \A i \in DOMAIN table' : PlannedHook(table'[i].function, table'[i].hook)
          <6>1. TAKE i \in DOMAIN table'
          <6>2. CASE i = Len(table) + 1
            BY <6>2, <5>1, <5>2, <4>2
          <6>3. CASE i # Len(table) + 1
            <7>1. i \in DOMAIN table /\ table'[i] = table[i]
              BY <6>1, <6>3, <5>2, SMT
            <7> QED  BY <7>1 DEF Attribution, EntriesPlanned
          <6> QED  BY <6>2, <6>3
        <5>4. EntriesPlanned'
          BY <5>3 DEF EntriesPlanned, PlannedHook
        <5> QED  BY <3>4, <5>4 DEF HookRegister, callVars, Attribution, JumpsPlanned,
                                   CallsPlanned, OwnOriginal, PlannedHook
      <4> QED  BY <3>4, <4>5, <4>6 DEF HookRegister, Register
    <3>5. CASE HookJump
      <4>1. si \in DOMAIN Plan /\ base \in Base
        BY <3>5 DEF HookJump, TypeOK, Mapped
      <4>2. PlannedHook(Plan[si].function, HookAt(Plan[si].hook, base))
        BY <4>1 DEF PlannedHook
      <4>3. JumpsPlanned'
        BY <3>5, <4>2 DEF HookJump, WriteJump, Attribution, JumpsPlanned, PlannedHook,
                          TypeOK, NtTypeOK
      <4> QED  BY <3>5, <4>3 DEF HookJump, callVars, Attribution, EntriesPlanned,
                                 CallsPlanned, OwnOriginal, PlannedHook
    <3>6. CASE StarterFaults
      BY <3>6, <2>c DEF StarterFaults
    <3> QED  BY <2>3, <3>1, <3>2, <3>3, <3>4, <3>5, <3>6 DEF Starter
  <2>4. CASE Detacher
    <3> USE DEF DetachStep
    <3>1. CASE DetachPop \/ DetachFree \/ Unmap
      BY <3>1, AttributionStable DEF DetachPop, DetachFree, Unmap, ntVars, callVars
    <3>2. CASE DetachUnhook
      <4>1. \A f \in Function : code'[f] \in {code[f], Bridge}
        BY <3>2 DEF DetachUnhook, UnhookPatch, UnhookFunction, WriteJump, TypeOK, NtTypeOK
      <4>2. JumpsPlanned'
        BY <4>1, CodeAssumption DEF Attribution, JumpsPlanned, PlannedHook
      <4> QED  BY <3>2, <4>2 DEF DetachUnhook, callVars, Attribution, EntriesPlanned,
                                 CallsPlanned, OwnOriginal, PlannedHook
    <3>3. CASE DetachFaults
      BY <3>3, <2>c DEF DetachFaults
    <3> QED  BY <2>4, <3>1, <3>2, <3>3 DEF Detacher
  <2>5. ASSUME NEW t \in Thread, Progress(t) \/ \E f \in Function : Call(t, f)
        PROVE  Attribution'
    <3> USE DEF CallStep, ntVars
    <3>1. CASE EnterUnmapped(t) \/ HookFaults(t) \/ LookUpFaults(t) \/ RunNull(t)
      BY <3>1, <2>c DEF EnterUnmapped, HookFaults, LookUpFaults, RunNull
    <3>2. CASE ~ (EnterUnmapped(t) \/ HookFaults(t) \/ LookUpFaults(t) \/ RunNull(t))
      <4>1. UNCHANGED <<table, code>>
        BY <2>5, <3>2 DEF Progress, Call, RunUnhooked, EnterHook, Replace, LookUp,
                          RunOriginal, ReturnToHook, Return
      <4>2. EntriesPlanned' /\ JumpsPlanned'
        BY <4>1 DEF Attribution, EntriesPlanned, JumpsPlanned, PlannedHook
      <4>3. CallsPlanned'
        <5> USE Addresses
            DEF Attribution, CallsPlanned, JumpsPlanned, PlannedHook, OwnOriginal, TypeOK
        <5>1. ASSUME NEW f \in Function, Call(t, f) PROVE CallsPlanned'
          BY <5>1, CodeAssumption DEF Call
        <5>2. CASE RunUnhooked(t)
          BY <5>2 DEF RunUnhooked
        <5>3. CASE EnterHook(t)
          BY <5>3 DEF EnterHook
        <5>4. CASE Replace(t)
          BY <5>4 DEF Replace
        <5>5. CASE LookUp(t)
          BY <5>5 DEF LookUp
        <5>6. CASE RunOriginal(t)
          BY <5>6 DEF RunOriginal
        <5>7. CASE ReturnToHook(t)
          BY <5>7 DEF ReturnToHook
        <5>8. CASE Return(t)
          BY <5>8 DEF Return
        <5> QED  BY <2>5, <3>2, <5>1, <5>2, <5>3, <5>4, <5>5, <5>6, <5>7, <5>8 DEF Progress
      <4>4. OwnOriginal'
        <5> USE DEF Attribution, OwnOriginal, TypeOK
        <5>1. ASSUME NEW f \in Function, Call(t, f) PROVE OwnOriginal'
          BY <5>1 DEF Call
        <5>2. CASE RunUnhooked(t)
          BY <5>2 DEF RunUnhooked
        <5>3. CASE EnterHook(t)
          BY <5>3 DEF EnterHook
        <5>4. CASE LookUp(t)
          <6>1. via[t] \in HookAddr
            BY <5>4 DEF LookUp, CallsPlanned
          <6>2. HookEngine_get_original_function(via[t]) \in {fn[t], NoFunction}
            BY <6>1, LookUpOwn
          <6> QED  BY <5>4, <6>2 DEF LookUp
        <5>5. CASE Replace(t) \/ RunOriginal(t) \/ ReturnToHook(t) \/ Return(t)
          BY <5>5 DEF Replace, RunOriginal, ReturnToHook, Return
        <5> QED  BY <2>5, <3>2, <5>1, <5>2, <5>3, <5>4, <5>5 DEF Progress
      <4> QED  BY <4>2, <4>3, <4>4 DEF Attribution
    <3> QED  BY <3>1, <3>2
  <2>6. CASE UNCHANGED vars
    BY <2>6, AttributionStable DEF vars
  <2> QED  BY <2>1, <2>2, <2>3, <2>4, <2>5, <2>6 DEF Next
<1> QED  BY <1>1, <1>2, TypeCorrect, PTL DEF Spec
\* HookEngine_get_original_function never answers a hook with the original of
\* another function: it is the hook's own, or NULL.
THEOREM OwnOriginalCorrect == Spec => []OwnOriginal
  BY AttributionInductive, PTL DEF Attribution

-------------------------------------------------------------------------------
(* The client's view: each step of the tools is a step of CallThrough or leaves  *)
(* it unchanged.                                                                 *)

LEMMA StatusUnchanged ==
    ASSUME UNCHANGED <<gpc, fn, orig>>
    PROVE  UNCHANGED Abstract!atVars
  BY DEF Abstract!atVars, Status, Body

\* Whatever is hooked, unhooked or unloaded around it, a call that returns has run
\* the code of the function it called, once, unless its hook replaces it.
THEOREM CallThroughImplemented == Spec => ImplementsCallThrough
<1>1. Init => Abstract!Init
  BY DEF Init, Abstract!Init, Status, Body
<1>2. TypeOK /\ Attribution /\ [Next]_vars => [Abstract!Next]_(Abstract!atVars)
  <2> SUFFICES ASSUME TypeOK, Attribution, [Next]_vars
               PROVE  Abstract!Next \/ UNCHANGED Abstract!atVars
    BY DEF Abstract!atVars
  <2>1. CASE ~ \E t \in Thread : Progress(t) \/ \E f \in Function : Call(t, f)
    <3>1. UNCHANGED <<gpc, fn, orig>>
      BY <2>1 DEF Next, vars, CrashWith, callVars, Attach, Detach, Starter, StarterStep,
           LoadEngine, LoadEngineFails, StarterEnds, HookAlloc, HookQueue, HookRegister,
           HookFails, HookJump, StarterFaults, Detacher, DetachStep, DetachFaults,
           DetachPop, DetachUnhook, DetachFree, Unmap
    <3> QED  BY <3>1, StatusUnchanged
  <2>2. ASSUME NEW t \in Thread, NEW f \in Function, Call(t, f) PROVE Abstract!Call(t, f)
    BY <2>2 DEF Call, TypeOK, Abstract!Call, Status, Body
  <2>3. ASSUME NEW t \in Thread, Progress(t)
        PROVE  Abstract!Run(t) \/ Abstract!Return(t) \/ UNCHANGED Abstract!atVars
    <3> USE DEF TypeOK
    <3>1. CASE EnterUnmapped(t) \/ HookFaults(t) \/ LookUpFaults(t) \/ RunNull(t)
      <4>1. UNCHANGED <<gpc, fn, orig>>
        BY <3>1 DEF EnterUnmapped, HookFaults, LookUpFaults, RunNull, CrashWith, callVars
      <4> QED  BY <4>1, StatusUnchanged
    <3>2. CASE RunUnhooked(t)
      BY <3>2 DEF RunUnhooked, Abstract!Run, Status, Body
    <3>3. CASE EnterHook(t)
      BY <3>3 DEF EnterHook, Abstract!atVars, Status, Body
    <3>4. CASE Replace(t)
      BY <3>4 DEF Replace, Attribution, CallsPlanned, Abstract!atVars, Status, Body
    <3>5. CASE LookUp(t)
      BY <3>5 DEF LookUp, Abstract!atVars, Status, Body
    <3>6. CASE RunOriginal(t)
      <4>1. orig[t] = fn[t]
        BY <3>6 DEF RunOriginal, Attribution, OwnOriginal
      <4> QED  BY <3>6, <4>1 DEF RunOriginal, Abstract!Run, Status, Body
    <3>7. CASE ReturnToHook(t)
      BY <3>7, Addresses
         DEF ReturnToHook, Attribution, CallsPlanned, Abstract!atVars, Status, Body
    <3>8. CASE Return(t)
      BY <3>8, Addresses
         DEF Return, Attribution, CallsPlanned, Abstract!Return, Status, Body
    <3> QED  BY <2>3, <3>1, <3>2, <3>3, <3>4, <3>5, <3>6, <3>7, <3>8 DEF Progress
  <2> QED  BY <2>1, <2>2, <2>3 DEF Abstract!Next
<1> QED  BY <1>1, <1>2, TypeCorrect, AttributionInductive, PTL
         DEF Spec, ImplementsCallThrough, Abstract!Spec
-------------------------------------------------------------------------------
(* Every jump is covered by a patch. A detach that does not overtake             *)
(* startInjection finds all patches in the queue; it empties the queue before    *)
(* the image goes, and each jump goes before its patch.                          *)

\* A step of the client's calls, and one that crashes, disturbs nothing of this.
LEMMA CoverageStable ==
    ASSUME Coverage, TypeOK',
           UNCHANGED <<table, code, engineVars, dllVars, starterVars, detachVars>>
    PROVE  Coverage'
  BY DEF Coverage, Phases, Ownership, Pending, JumpsRegistered, JumpsCovered, JumpsIntoImage,
         engineVars, dllVars, starterVars, detachVars, Live, Queued, HoldsPatch, Mapped,
         StarterEnded, Held, Registered

\* Every jump into the DLL has its patch, and every patch has one owner.
THEOREM CoverageInductive == Spec => []Coverage
<1>1. Init /\ TypeOK => Coverage
  <2> SUFFICES ASSUME Init, TypeOK PROVE Coverage
    OBVIOUS
  <2>1. patches = <<>> /\ DOMAIN patches = {} /\ \A p \in Patch : ~ Live(p)
    BY SMT DEF Init, EngineInit, Live
  <2>2. \A f \in Function : code[f] \notin HookAddr
    BY CodeAssumption DEF Init, NtInit
  <2>3. Phases /\ Ownership
    BY <2>1 DEF Init, EngineInit, Phases, Ownership, HoldsPatch, StarterEnded
  <2> QED  BY <2>2, <2>3 DEF Init, Coverage, Pending, JumpsRegistered, JumpsCovered, JumpsIntoImage
<1>2. TypeOK' /\ Coverage /\ [Next]_vars => Coverage'
  <2> SUFFICES ASSUME TypeOK', Coverage, [Next]_vars PROVE Coverage'
    OBVIOUS
  <2>c. \A reason : CrashWith(reason) => Coverage'
    BY CoverageStable DEF CrashWith, ntVars
  <2>1. ASSUME NEW b \in Base, Attach(b) PROVE Coverage'
    <3> USE <2>1 DEF Attach, ntVars, detachVars
    <3>1. /\ patches = <<>> /\ dpc = "none" /\ spc # "queue"
          /\ \A p \in Patch : ~ Queued(p)
      BY SMT DEF Coverage, Phases, Ownership, StarterEnded, Mapped, Queued
    <3>2. \A p \in Patch : ~ Live(p)
      BY <3>1 DEF Coverage, Ownership, HoldsPatch
    <3>3. DOMAIN patches' = {}
      BY SMT
    <3>4. Phases'
      BY <3>1, PlanAssumption DEF Phases, HoldsPatch, Mapped, StarterEnded
    <3>5. Ownership'
      BY <3>1, <3>2, <3>3 DEF Ownership, HoldsPatch, Live
    <3>6. ~ early => \A f \in Function : code[f] \notin HookAddr
      BY DEF Coverage, JumpsCovered
    <3>7. JumpsCovered' /\ JumpsIntoImage' /\ Pending' /\ JumpsRegistered'
      BY <3>6 DEF JumpsCovered, JumpsIntoImage, Pending, JumpsRegistered, Coverage, Registered
    <3> QED  BY <3>4, <3>5, <3>7 DEF Coverage
  <2>2. CASE Detach
    BY <2>2 DEF Detach, ntVars, engineVars, starterVars, Coverage, Phases, Ownership, Pending,
                JumpsRegistered, JumpsCovered, JumpsIntoImage, Live, Queued, HoldsPatch,
                Mapped, StarterEnded, Held, Registered
  <2>3. CASE Starter
    <3> USE DEF StarterStep, dllVars, detachVars
    <3> DEFINE Rest == Phases /\ Ownership /\ Pending /\ JumpsRegistered /\ JumpsCovered /\ JumpsIntoImage
    <3>0. Coverage' <=> Rest'
      BY DEF Coverage
    <3>1. CASE LoadEngine
      <4>1. ~ engine /\ patches = <<>> /\ ~ HoldsPatch
        BY <3>1 DEF LoadEngine, Coverage, Phases, Ownership
      <4>2. Phases' /\ Ownership'
        BY <3>1, <4>1 DEF LoadEngine, HookEngine_new, Coverage, Phases, Ownership, HoldsPatch,
                          Live, Queued, StarterEnded, Mapped
      <4>3. Pending' /\ JumpsRegistered' /\ JumpsCovered' /\ JumpsIntoImage'
        BY <3>1, <4>1 DEF LoadEngine, HookEngine_new, ntVars, Coverage, Pending, JumpsRegistered,
                          JumpsCovered, JumpsIntoImage, Registered, Held, Mapped
      <4> QED  BY <3>0, <4>2, <4>3
    <3>2. CASE LoadEngineFails \/ StarterEnds
      BY <3>2 DEF LoadEngineFails, StarterEnds, ntVars, engineVars, Coverage, Phases, Ownership,
                  Pending, JumpsRegistered, JumpsCovered, JumpsIntoImage, Live, Queued, HoldsPatch,
                  Mapped, StarterEnded, Held, Registered
    <3>3. ASSUME NEW p \in Patch, HookAlloc(p) PROVE Coverage'
      <4> USE <3>3 DEF HookAlloc, AllocPatch
      <4>1. heap \in [Patch -> Function \cup {Unallocated}] /\ DOMAIN heap = Patch
        BY DEF Coverage, TypeOK, EngineTypeOK
      <4>2. si \in DOMAIN Plan /\ Plan[si].function \in Function
        BY Addresses
      <4>3. Plan[si].function # Unallocated
        BY <4>2, PatchAssumption
      <4>4. \A q \in Patch : q # p => heap'[q] = heap[q]
        BY <4>1
      <4>5. heap'[p] = Plan[si].function
        BY <4>1
      <4>6. ~ Queued(p) /\ \A i \in DOMAIN patches : patches[i] \in Patch /\ patches[i] # p
        <5>1. \A i \in DOMAIN patches : patches[i] \in Patch
          BY SMT DEF Coverage, TypeOK, EngineTypeOK
        <5> QED  BY <5>1 DEF Coverage, Ownership, Queued, Live
      <4>7. HoldsPatch => dp # p /\ dp \in Patch
        BY DEF Coverage, TypeOK, Ownership, HoldsPatch, Live
      <4>8. Ownership'
        BY <4>3, <4>4, <4>5, <4>6, <4>7 DEF Coverage, Ownership, HoldsPatch, Live, Queued, Mapped
      <4>9. Phases' /\ Pending' /\ JumpsRegistered' /\ JumpsIntoImage'
        BY DEF ntVars, Coverage, Phases, Pending, JumpsRegistered, JumpsIntoImage, HoldsPatch,
               Mapped, StarterEnded, Registered
      <4>10. \A f \in Function : Held(f) => Held(f)'
        BY <4>4, <4>6, <4>7 DEF Held, HoldsPatch
      <4>11. JumpsCovered'
        BY <4>10 DEF ntVars, Coverage, JumpsCovered, Mapped
      <4> QED  BY <3>0, <4>8, <4>9, <4>11
    <3>4. CASE HookQueue
      <4> USE <3>4 DEF HookQueue, QueuePatch
      <4>1. patches \in Seq(Patch) /\ sp \in Patch
        BY DEF Coverage, TypeOK, EngineTypeOK
      <4>2. /\ Len(patches) \in Nat
            /\ DOMAIN patches = 1 .. Len(patches)
            /\ DOMAIN patches' = 1 .. (Len(patches) + 1)
            /\ patches'[Len(patches) + 1] = sp
            /\ \A i \in 1 .. Len(patches) : patches'[i] = patches[i]
        BY <4>1, AppendProperties, LenProperties
      <4>3. \A i \in DOMAIN patches' :
              (i \in DOMAIN patches /\ patches'[i] = patches[i])
                \/ (i = Len(patches) + 1 /\ patches'[i] = sp)
        BY <4>2, SMT
      <4>4. \A i \in DOMAIN patches : i \in DOMAIN patches' /\ patches'[i] = patches[i]
        BY <4>2, SMT
      <4>5. Len(patches) + 1 \in DOMAIN patches'
        BY <4>2, SMT
      <4>6. \A p : Queued(p)' <=> Queued(p) \/ p = sp
        BY <4>2, <4>3, <4>4, <4>5 DEF Queued
      <4>7. /\ heap[sp] = Plan[si].function /\ ~ Queued(sp)
            /\ HoldsPatch => dp # sp
            /\ Live(sp)
        BY Addresses, PatchAssumption DEF Coverage, TypeOK, Ownership, Live
      <4>8. \A i, j \in DOMAIN patches' : patches'[i] = patches'[j] => i = j
        BY <4>3, <4>7 DEF Coverage, Ownership, Queued
      <4>9. Ownership'
        <5>1. \A i \in DOMAIN patches' : Live(patches'[i])
          BY <4>3, <4>7 DEF Coverage, Ownership
        <5>2. Mapped /\ engine
          BY DEF Coverage, Phases
        <5> QED  BY <4>6, <4>7, <4>8, <5>1, <5>2 DEF Coverage, Ownership, HoldsPatch, Live, Mapped
      <4>10. Phases' /\ Pending' /\ JumpsRegistered' /\ JumpsIntoImage'
        BY <4>6, <4>7 DEF ntVars, Coverage, Phases, Pending, JumpsRegistered, JumpsIntoImage,
                          HoldsPatch, Mapped, StarterEnded, Registered
      <4>11. \A f \in Function : Held(f) => Held(f)'
        BY <4>4 DEF Held
      <4>12. JumpsCovered'
        BY <4>11 DEF ntVars, Coverage, JumpsCovered, Mapped
      <4> QED  BY <3>0, <4>9, <4>10, <4>12
    <3>5. CASE HookRegister
      <4> USE <3>5 DEF HookRegister
      <4>1. \A f : Registered(f) => Registered(f)'
        <5>1. CASE UNCHANGED table
          BY <5>1 DEF Registered
        <5>2. CASE Register(Plan[si].function, HookAt(Plan[si].hook, base))
          <6> DEFINE e == [function |-> Plan[si].function, hook |-> HookAt(Plan[si].hook, base)]
          <6>1. table \in Seq(Entry) /\ table' = Append(table, e)
            BY <5>2 DEF Register, Coverage, TypeOK, NtTypeOK
          <6> HIDE DEF e
          <6>2. \A i \in DOMAIN table : i \in DOMAIN table' /\ table'[i] = table[i]
            BY <6>1, SMT
          <6> QED  BY <6>2 DEF Registered
        <5> QED  BY <5>1, <5>2
      <4>2. Registered(Plan[si].function)'
        <5>1. CASE UNCHANGED table
          BY <5>1, <4>1 DEF Register
        <5>2. CASE Register(Plan[si].function, HookAt(Plan[si].hook, base))
          <6> DEFINE e == [function |-> Plan[si].function, hook |-> HookAt(Plan[si].hook, base)]
          <6>1. table \in Seq(Entry) /\ table' = Append(table, e)
            BY <5>2 DEF Register, Coverage, TypeOK, NtTypeOK
          <6>2. e.function = Plan[si].function
            OBVIOUS
          <6> HIDE DEF e
          <6>3. Len(table) + 1 \in DOMAIN table' /\ table'[Len(table) + 1] = e
            BY <6>1, SMT
          <6> QED  BY <6>2, <6>3 DEF Registered
        <5> QED  BY <5>1, <5>2
      <4>3. JumpsRegistered'
        BY <4>1, <4>2 DEF Coverage, JumpsRegistered
      <4>4. Phases' /\ Ownership' /\ Pending' /\ JumpsCovered' /\ JumpsIntoImage'
        BY DEF engineVars, Coverage, Phases, Ownership, Pending, JumpsCovered, JumpsIntoImage,
               HoldsPatch, Live, Queued, Mapped, StarterEnded, Held
      <4> QED  BY <3>0, <4>3, <4>4
    <3>6. CASE HookFails
      BY <3>6 DEF HookFails, ntVars, engineVars, Coverage, Phases, Ownership, Pending,
                  JumpsRegistered, JumpsCovered, JumpsIntoImage, Live, Queued, HoldsPatch,
                  Mapped, StarterEnded, Held, Registered
    <3>7. CASE HookJump
      <4> USE <3>7 DEF HookJump, WriteJump
      <4>1. /\ \A g \in Function : g # Plan[si].function => code'[g] = code[g]
            /\ si \in DOMAIN Plan => code'[Plan[si].function] = HookAt(Plan[si].hook, base)
        BY Addresses DEF Coverage, TypeOK, NtTypeOK
      <4>2. si \in DOMAIN Plan
        BY DEF Coverage, TypeOK
      <4>3. ~ early => Held(Plan[si].function)
        BY DEF Coverage, Pending, Queued, Held
      <4>4. \A f \in Function : Held(f) => Held(f)'
        BY DEF engineVars, Held
      <4>5. JumpsCovered'
        BY <4>1, <4>3, <4>4 DEF Coverage, JumpsCovered, Mapped
      <4>6. JumpsIntoImage'
        BY <4>1, <4>2 DEF Coverage, JumpsIntoImage, HookAt
      <4>7. JumpsRegistered'
        BY <4>1 DEF Coverage, JumpsRegistered, Registered
      <4>8. Phases' /\ Ownership' /\ Pending'
        BY DEF engineVars, Coverage, Phases, Ownership, Pending, HoldsPatch, Live, Queued,
               Mapped, StarterEnded
      <4> QED  BY <3>0, <4>5, <4>6, <4>7, <4>8
    <3>8. CASE StarterFaults
      BY <3>8, <2>c DEF StarterFaults
    <3> QED  BY <2>3, <3>1, <3>2, <3>3, <3>4, <3>5, <3>6, <3>7, <3>8 DEF Starter
  <2>4. CASE Detacher
    <3> USE DEF DetachStep, starterVars
    <3> DEFINE Rest == Phases /\ Ownership /\ Pending /\ JumpsRegistered /\ JumpsCovered /\ JumpsIntoImage
    <3>0. Coverage' <=> Rest'
      BY DEF Coverage
    <3>1. CASE DetachFaults
      BY <3>1, <2>c DEF DetachFaults
    <3>2. CASE DetachPop
      <4> USE <3>2 DEF DetachPop
      <4>1. patches \in Seq(Patch) /\ \A i, j \in DOMAIN patches : patches[i] = patches[j] => i = j
        BY DEF Coverage, TypeOK, EngineTypeOK, Ownership
      <4>2. patches # <<>> /\ patches' = ButLast(patches)
        BY <4>1, PopFacts
      <4>3. /\ Len(patches) \in Nat \ {0}
            /\ DOMAIN patches = 1 .. Len(patches)
            /\ DOMAIN patches' = 1 .. (Len(patches) - 1)
            /\ \A i \in 1 .. (Len(patches) - 1) : patches'[i] = patches[i]
        BY <4>1, <4>2, ButLastFacts
      <4>4. \A i \in DOMAIN patches' : i \in DOMAIN patches /\ patches'[i] = patches[i] /\ i # Len(patches)
        BY <4>3, SMT
      <4>5. \A i \in DOMAIN patches : i # Len(patches) => i \in DOMAIN patches' /\ patches'[i] = patches[i]
        BY <4>3, SMT
      <4>6. Len(patches) \in DOMAIN patches /\ dp' = patches[Len(patches)]
        BY <4>3, SMT DEF Last
      <4>7. Live(dp)' /\ ~ Queued(dp)'
        BY <4>1, <4>4, <4>6 DEF PopPatch, Coverage, Ownership, Queued, Live
      <4>8. \A p : Queued(p) => Queued(p)' \/ p = dp'
        BY <4>5, <4>6 DEF Queued
      <4>9. UNCHANGED heap /\ ~ HoldsPatch /\ HoldsPatch' /\ Mapped /\ engine
        BY DEF PopPatch, HoldsPatch, Coverage, Phases
      <4>10. \A p : Live(p)' <=> Live(p)
        BY <4>9 DEF Live
      <4>11. ASSUME spc = "queue"
             PROVE  heap'[sp'] = Plan[si'].function /\ dp' # sp' /\ ~ Queued(sp)'
        <5>1. ~ Queued(sp) /\ heap[sp] = Plan[si].function
          BY <4>11 DEF Coverage, Ownership
        <5>2. sp' = sp /\ si' = si
          OBVIOUS
        <5> QED  BY <4>4, <4>6, <4>9, <5>1, <5>2 DEF Queued
      <4>12. Ownership'
        <5>1. \A i, j \in DOMAIN patches' : patches'[i] = patches'[j] => i = j
          BY <4>1, <4>4
        <5>2. \A i \in DOMAIN patches' : heap'[patches'[i]] # Unallocated
          BY <4>4, <4>9 DEF Coverage, Ownership, Live
        <5>3. \A p \in Patch : Live(p)' => Queued(p)' \/ dp' = p \/ (spc' = "queue" /\ sp' = p)
          BY <4>8, <4>9, <4>10 DEF Coverage, Ownership
        <5>4. spc' = spc /\ Mapped' /\ engine'
          BY <4>9 DEF PopPatch, Mapped
        <5> QED  BY <4>7, <4>9, <4>11, <5>1, <5>2, <5>3, <5>4 DEF Ownership, Live
      <4>13. \A f \in Function : Held(f) => Held(f)'
        BY <4>5, <4>6, <4>9 DEF Held
      <4>14. JumpsCovered'
        BY <4>13 DEF ntVars, Coverage, JumpsCovered, Mapped
      <4>15. Phases' /\ Pending' /\ JumpsRegistered' /\ JumpsIntoImage'
        BY <4>9 DEF PopPatch, ntVars, Coverage, Phases, Pending, JumpsRegistered,
                    JumpsIntoImage, HoldsPatch, Mapped, StarterEnded, Registered
      <4> QED  BY <3>0, <4>12, <4>14, <4>15
    <3>3. CASE DetachUnhook
      <4> USE <3>3 DEF DetachUnhook, UnhookPatch, UnhookFunction, WriteJump
      <4>1. dp \in Patch /\ heap[dp] \in Function
        BY DEF Coverage, TypeOK, EngineTypeOK, Ownership, HoldsPatch, Live
      <4>2. \A f \in Function :
              /\ code'[f] \in {code[f], Bridge}
              /\ code'[f] \in HookAddr => f # heap[dp]
        BY <4>1, CodeAssumption DEF Coverage, TypeOK, NtTypeOK, JumpsRegistered
      <4>3. \A f \in Function : Held(f) /\ f # heap[dp] => Held(f)'
        BY DEF engineVars, Held
      <4>4. JumpsCovered' /\ JumpsIntoImage'
        BY <4>2, <4>3, CodeAssumption DEF Coverage, JumpsCovered, JumpsIntoImage, Mapped
      <4>5. JumpsRegistered'
        BY <4>2, CodeAssumption DEF Coverage, JumpsRegistered, Registered
      <4>6. Phases' /\ Ownership' /\ Pending'
        BY DEF engineVars, Coverage, Phases, Ownership, Pending, HoldsPatch, Live, Queued,
               Mapped, StarterEnded
      <4> QED  BY <3>0, <4>4, <4>5, <4>6
    <3>4. CASE DetachFree
      <4> USE <3>4 DEF DetachFree, FreePatch
      <4>1. /\ heap \in [Patch -> Function \cup {Unallocated}]
            /\ dp \in Patch /\ ~ Queued(dp) /\ HoldsPatch
        BY DEF Coverage, TypeOK, EngineTypeOK, Ownership, HoldsPatch
      <4>2. \A p \in Patch : p # dp => heap'[p] = heap[p]
        BY <4>1
      <4>3. heap'[dp] = Unallocated
        BY <4>1
      <4>4. \A i \in DOMAIN patches : patches[i] \in Patch /\ patches[i] # dp
        <5>1. \A i \in DOMAIN patches : patches[i] \in Patch
          BY SMT DEF Coverage, TypeOK, EngineTypeOK
        <5> QED  BY <5>1, <4>1 DEF Queued
      <4>5. ~ HoldsPatch'
        BY DEF HoldsPatch
      <4>6. spc = "queue" => sp \in Patch /\ sp # dp
        BY <4>1 DEF Coverage, TypeOK, Ownership
      <4>7. Ownership'
        BY <4>1, <4>2, <4>3, <4>4, <4>5, <4>6 DEF Coverage, Ownership, Live, Queued, Mapped
      <4>8. \A f \in Function : Held(f) => Held(f)'
        BY <4>2, <4>4 DEF Held
      <4>9. JumpsCovered'
        BY <4>8 DEF ntVars, Coverage, JumpsCovered, Mapped
      <4>10. Pending'
        BY <4>1 DEF Coverage, Phases, Pending, StarterEnded
      <4>11. Phases' /\ JumpsRegistered' /\ JumpsIntoImage'
        BY DEF ntVars, Coverage, Phases, JumpsRegistered, JumpsIntoImage, HoldsPatch,
               Mapped, StarterEnded, Registered
      <4> QED  BY <3>0, <4>7, <4>9, <4>10, <4>11
    <3>5. CASE Unmap
      <4> USE <3>5 DEF Unmap, engineVars
      <4>1. DOMAIN patches = {} /\ ~ HoldsPatch /\ ~ HoldsPatch'
        BY SMT DEF HoldsPatch
      <4>2. ~ early => \A f \in Function : code[f] \notin HookAddr
        BY <4>1 DEF Coverage, JumpsCovered, Held
      <4>3. JumpsCovered' /\ JumpsIntoImage'
        BY <4>2 DEF ntVars, JumpsCovered, JumpsIntoImage
      <4>4. Phases' /\ Ownership' /\ Pending' /\ JumpsRegistered'
        BY <4>1 DEF ntVars, Coverage, Phases, Ownership, Pending, JumpsRegistered, Registered,
                    Live, Queued, StarterEnded, HoldsPatch
      <4> QED  BY <3>0, <4>3, <4>4
    <3> QED  BY <2>4, <3>1, <3>2, <3>3, <3>4, <3>5 DEF Detacher
  <2>5. ASSUME NEW t \in Thread, Progress(t) \/ \E f \in Function : Call(t, f)
        PROVE  Coverage'
    <3>1. CASE EnterUnmapped(t) \/ HookFaults(t) \/ LookUpFaults(t) \/ RunNull(t)
      BY <3>1, <2>c DEF EnterUnmapped, HookFaults, LookUpFaults, RunNull
    <3>2. CASE ~ (EnterUnmapped(t) \/ HookFaults(t) \/ LookUpFaults(t) \/ RunNull(t))
      BY <2>5, <3>2, CoverageStable
         DEF Progress, Call, RunUnhooked, EnterHook, Replace, LookUp, RunOriginal,
             ReturnToHook, Return, CallStep, ntVars
    <3> QED  BY <3>1, <3>2
  <2>6. CASE UNCHANGED vars
    BY <2>6, CoverageStable DEF vars, engineVars, dllVars, starterVars, detachVars
  <2> QED  BY <2>1, <2>2, <2>3, <2>4, <2>5, <2>6 DEF Next
<1> QED  BY <1>1, <1>2, TypeCorrect, PTL DEF Spec

\* Unless the injector ejects a tool that is still starting, every jump into its
\* DLL is one endInjection will undo, and leads to the image that is mapped.
THEOREM JumpsCoveredCorrect == Spec => [](JumpsCovered /\ JumpsIntoImage)
  BY CoverageInductive, PTL DEF Coverage

\* So no call enters an image that is gone.
THEOREM JumpsIntoImageCorrect == Spec => []JumpsIntoImage
  BY JumpsCoveredCorrect, PTL

\* No patch is queued twice, freed while it is queued, or left allocated.
THEOREM PatchesOwnedCorrect == Spec => []PatchesOwned
<1>1. Coverage => PatchesOwned
  <2> SUFFICES ASSUME Coverage PROVE PatchesOwned
    OBVIOUS
  <2>1. ~ Mapped /\ ~ early => \A p \in Patch : ~ Live(p)
    <3>1. SUFFICES ASSUME ~ Mapped, ~ early PROVE \A p \in Patch : ~ Live(p)
      OBVIOUS
    <3>2. patches = <<>> /\ ~ HoldsPatch /\ spc # "queue"
      BY <3>1 DEF Coverage, Phases, Ownership, HoldsPatch, StarterEnded
    <3>3. \A p \in Patch : ~ Queued(p)
      BY <3>2, SMT DEF Queued
    <3> QED  BY <3>2, <3>3 DEF Coverage, Ownership
  <2> QED  BY <2>1 DEF Coverage, Ownership, PatchesOwned, HoldsPatch
<1> QED  BY <1>1, CoverageInductive, PTL
-------------------------------------------------------------------------------
(* Why a lookup fails.                                                           *)

\* A call in a hook was led there by a jump, so the library knows its function; one
\* whose lookup failed is in a hook that no entry has.
LookUps ==
    \A t \in Thread :
        /\ gpc[t] \in {"hook", "tail"} => Registered(fn[t])
        /\ gpc[t] = "tail" /\ orig[t] = NoFunction =>
             \A i \in DOMAIN table : table[i].hook # via[t]

\* The library's table only grows, by an entry of a function it did not know.
LEMMA TableGrows ==
    ASSUME TypeOK, [Next]_vars
    PROVE  \/ UNCHANGED table
           \/ /\ UNCHANGED callVars
              /\ ~ Registered(Plan[si].function)
              /\ si \in DOMAIN Plan /\ base \in Base
              /\ table' = Append(table, [function |-> Plan[si].function,
                                         hook |-> HookAt(Plan[si].hook, base)])
<1>1. CASE Starter
  <2>1. CASE HookRegister
    BY <2>1 DEF HookRegister, Register, StarterStep, TypeOK, Mapped
  <2>2. CASE ~ HookRegister
    BY <1>1, <2>2 DEF Starter, LoadEngine, LoadEngineFails, StarterEnds, HookAlloc, HookQueue,
         HookFails, HookJump, StarterFaults, CrashWith, ntVars
  <2> QED  BY <2>1, <2>2
<1>2. CASE Detacher
  BY <1>2 DEF Detacher, DetachFaults, DetachPop, DetachUnhook, DetachFree, Unmap, CrashWith, ntVars
<1>3. CASE \E t \in Thread : Progress(t) \/ \E f \in Function : Call(t, f)
  BY <1>3 DEF Progress, Call, RunUnhooked, EnterHook, EnterUnmapped, HookFaults, Replace,
       LookUp, LookUpFaults, RunOriginal, RunNull, ReturnToHook, Return, CallStep, CrashWith, ntVars
<1>4. CASE UNCHANGED vars \/ Detach \/ \E b \in Base : Attach(b)
  BY <1>4 DEF vars, Detach, Attach, ntVars
<1> QED  BY <1>1, <1>2, <1>3, <1>4 DEF Next

\* What an entry for an unknown function leaves true: a call whose lookup failed is in
\* a hook of a known function, and no other function is planned for that hook.
LEMMA LookUpsGrown ==
    ASSUME TypeOK, Attribution, LookUps, UNCHANGED callVars,
           ~ Registered(Plan[si].function), si \in DOMAIN Plan, base \in Base,
           table' = Append(table, [function |-> Plan[si].function,
                                   hook |-> HookAt(Plan[si].hook, base)])
    PROVE  LookUps'
<1> DEFINE f == Plan[si].function
           h == HookAt(Plan[si].hook, base)
           e == [function |-> f, hook |-> h]
<1>1. PlannedHook(f, h)
  BY DEF PlannedHook
<1>2. e \in Entry /\ e.hook = h
  BY Addresses DEF Entry
<1> HIDE DEF f, h, e
<1>3. /\ DOMAIN table = 1 .. Len(table)
      /\ DOMAIN table' = 1 .. (Len(table) + 1)
      /\ table'[Len(table) + 1] = e
      /\ \A i \in 1 .. Len(table) : table'[i] = table[i]
      /\ Len(table) \in Nat
  <2>1. table \in Seq(Entry)
    BY DEF TypeOK, NtTypeOK
  <2> QED  BY <1>2, <2>1, AppendProperties, LenProperties DEF e, f, h
<1>4. \A i \in DOMAIN table' : i \in DOMAIN table \/ i = Len(table) + 1
  BY <1>3, SMT
<1>5. \A g : Registered(g) => Registered(g)'
  BY <1>3, SMT DEF Registered
<1>6. ASSUME NEW t \in Thread, gpc[t] = "tail", orig[t] = NoFunction
      PROVE  h # via[t]
  <2>1. PlannedHook(fn[t], via[t]) /\ Registered(fn[t])
    BY <1>6 DEF Attribution, CallsPlanned, LookUps
  <2> QED  BY <1>1, <2>1, PlannedHookUnique DEF f
<1> QED  BY <1>2, <1>3, <1>4, <1>5, <1>6 DEF LookUps, callVars

\* Every call is in a hook of a function the library knows, and a call whose lookup
\* failed is in a hook the library does not know.
THEOREM LookUpsInductive == Spec => []LookUps
<1>1. Init => LookUps
  BY DEF Init, LookUps
<1>2. TypeOK /\ Attribution /\ JumpsRegistered /\ LookUps /\ [Next]_vars => LookUps'
  <2> SUFFICES ASSUME TypeOK, Attribution, JumpsRegistered, LookUps, [Next]_vars
               PROVE  LookUps'
    OBVIOUS
  <2>1. CASE ~ UNCHANGED table
    BY <2>1, TableGrows, LookUpsGrown
  <2>2. CASE UNCHANGED <<table, callVars>>
    BY <2>2 DEF LookUps, Registered, callVars
  <2>3. ASSUME NEW t \in Thread, Progress(t) \/ \E f \in Function : Call(t, f),
               UNCHANGED table
        PROVE  LookUps'
    <3> USE DEF LookUps, Registered, TypeOK
    <3>1. ASSUME NEW f \in Function, Call(t, f) PROVE LookUps'
      BY <2>3, <3>1 DEF Call
    <3>2. CASE RunUnhooked(t)
      BY <2>3, <3>2 DEF RunUnhooked
    <3>3. CASE EnterHook(t)
      BY <2>3, <3>3 DEF EnterHook, JumpsRegistered
    <3>4. CASE LookUp(t)
      BY <2>3, <3>4, NullLookUp DEF LookUp
    <3>5. CASE Replace(t) \/ RunOriginal(t) \/ ReturnToHook(t) \/ Return(t)
      BY <2>3, <3>5 DEF Replace, RunOriginal, ReturnToHook, Return
    <3>6. CASE EnterUnmapped(t) \/ HookFaults(t) \/ LookUpFaults(t) \/ RunNull(t)
      BY <2>3, <3>6 DEF EnterUnmapped, HookFaults, LookUpFaults, RunNull, CrashWith, callVars
    <3> QED  BY <2>3, <3>1, <3>2, <3>3, <3>4, <3>5, <3>6 DEF Progress
  <2>4. CASE ~ \E t \in Thread : Progress(t) \/ \E f \in Function : Call(t, f)
    <3>1. UNCHANGED callVars
      BY <2>4 DEF Next, vars, Attach, Detach, Starter, Detacher, LoadEngine, LoadEngineFails,
           StarterEnds, HookAlloc, HookQueue, HookRegister, HookFails, HookJump, StarterFaults,
           StarterStep, DetachFaults, DetachPop, DetachUnhook, DetachFree, Unmap, DetachStep,
           CrashWith, callVars
    <3> QED  BY <2>1, <2>2, <3>1
  <2> QED  BY <2>1, <2>3, <2>4
<1>3. Coverage => JumpsRegistered
  BY DEF Coverage
<1> QED  BY <1>1, <1>2, <1>3, TypeCorrect, AttributionInductive, CoverageInductive, PTL DEF Spec

\* A lookup fails for one reason only: the library met the function when the DLL was
\* loaded at another address and keeps the hook of that time.
THEOREM LookUpFailsAfterRebaseCorrect == Spec => []LookUpFailsAfterRebase
<1>1. Attribution /\ LookUps => LookUpFailsAfterRebase
  <2> SUFFICES ASSUME Attribution, LookUps,
                      NEW t \in Thread, gpc[t] = "tail", orig[t] = NoFunction
               PROVE  \E i \in DOMAIN table : /\ table[i].function = fn[t]
                                              /\ table[i].hook.base # via[t].base
    BY DEF LookUpFailsAfterRebase
  <2>1. PICK i \in DOMAIN table : table[i].function = fn[t] /\ table[i].hook # via[t]
    BY DEF LookUps, Registered
  <2>2. PICK k \in DOMAIN Plan, b \in Base :
          Plan[k].function = fn[t] /\ table[i].hook = HookAt(Plan[k].hook, b)
    BY <2>1 DEF Attribution, EntriesPlanned, PlannedHook
  <2>3. PICK l \in DOMAIN Plan, c \in Base :
          Plan[l].function = fn[t] /\ via[t] = HookAt(Plan[l].hook, c)
    BY DEF Attribution, CallsPlanned, PlannedHook
  <2>4. k = l /\ b # c
    BY <2>1, <2>2, <2>3, PlanAssumption
  <2> QED  BY <2>1, <2>2, <2>3, <2>4 DEF HookAt
<1> QED  BY <1>1, AttributionInductive, LookUpsInductive, PTL
===============================================================================
