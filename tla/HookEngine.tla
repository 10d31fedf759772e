------------------------------ MODULE HookEngine ------------------------------
(* HookEngine.c: the layer between a tool and NtHookEngine.dll. It remembers a  *)
(* Patch for every function it was asked to hook, in the queue engine->patches, *)
(* so that all of them can be unhooked when the tool's DLL is unloaded.         *)
(*                                                                              *)
(* Each operator below is a part of a function of HookEngine.c that runs        *)
(* without calling into another module; the threads that call them are in the   *)
(* modules that extend this one. An operator leaves the variables it does not   *)
(* prime to its caller.                                                         *)
EXTENDS NtHookEngine

CONSTANTS
    Patch,          \* the addresses calloc may return for a Patch
    Unallocated     \* the content of an address that holds no Patch

ASSUME PatchAssumption == Unallocated \notin Function

VARIABLES
    engine,         \* TRUE once the global `engine` points to a HookEngine
    patches,        \* engine->patches, a BbQueue of Patch addresses
    heap            \* the function field of the Patch at an address

engineVars == <<engine, patches, heap>>

EngineTypeOK ==
    /\ engine \in BOOLEAN
    /\ patches \in Seq(Patch)
    /\ heap \in [Patch -> Function \cup {Unallocated}]

EngineInit ==
    /\ engine = FALSE
    /\ patches = <<>>
    /\ heap = [p \in Patch |-> Unallocated]

Queued(p) == \E i \in DOMAIN patches : patches[i] = p
Live(p) == heap[p] # Unallocated

-------------------------------------------------------------------------------
\* bb_queue_remv: unlink the first occurrence of p, or do nothing.
IsFirstIndexOf(i, q, p) ==
    /\ q[i] = p
    /\ \A j \in DOMAIN q : q[j] = p => i <= j

Remv(q, p) ==
    IF \E i \in DOMAIN q : IsFirstIndexOf(i, q, p)
    THEN LET k == CHOOSE i \in DOMAIN q : IsFirstIndexOf(i, q, p)
         IN  [j \in 1 .. (Len(q) - 1) |-> IF j < k THEN q[j] ELSE q[j + 1]]
    ELSE q

\* bb_queue_pop: the last element, and the queue without it.
Last(q) == q[Len(q)]
ButLast(q) == SubSeq(q, 1, Len(q) - 1)

-------------------------------------------------------------------------------
\* HookEngine_new and HookEngine_init: either every symbol of the library is
\* found and the global is set, or the structure is freed and the global stays.
HookEngine_new ==
    /\ engine' = TRUE
    /\ patches' = <<>>
    /\ UNCHANGED heap

\* HookEngine_hook, lines 85-87: a Patch that holds the function's address.
AllocPatch(p, f) ==
    /\ ~ Live(p)
    /\ heap' = [heap EXCEPT ![p] = f]
    /\ UNCHANGED <<engine, patches>>

\* HookEngine_hook, line 89: the patch is queued before the jump is written.
QueuePatch(p) ==
    /\ patches' = Append(patches, p)
    /\ UNCHANGED <<engine, heap>>

\* Mutated: the last patch is looked at and not popped.
PeekPatch ==
    /\ patches # <<>>
    /\ UNCHANGED engineVars

\* HookEngine_unhook_all, lines 114-116, up to the call of engine->unhook: the
\* popped patch, which HookEngine_unhook removes a second time to no effect.
PopPatch ==
    /\ patches # <<>>
    /\ patches' = Remv(ButLast(patches), Last(patches))
    /\ UNCHANGED <<engine, heap>>

\* Mutated: the patch is taken from the queue and its function left hooked.
LeaveHooked(p) == UNCHANGED code

\* HookEngine_unhook, line 104, of a patch whose memory is read for its function.
UnhookPatch(p) == UnhookFunction(heap[p])

\* Mutated: the patch is not freed.
KeepPatch(p) == UNCHANGED engineVars

\* HookEngine_unhook_all, line 117.
FreePatch(p) ==
    /\ heap' = [heap EXCEPT ![p] = Unallocated]
    /\ UNCHANGED <<engine, patches>>

\* HookEngine_get_original_function, lines 124-136: NULL is passed on.
HookEngine_get_original_function(h) == GetOriginalFunction(h)
===============================================================================
