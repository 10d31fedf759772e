---------------------------- MODULE PacketHandlers ----------------------------
(* PacketLogger's hook of CNetUsr::Recv. A CNetUsr object holds a pointer to the *)
(* packet handler in use; whenever Recv runs with a handler it has not met, the  *)
(* hook hooks that handler too, with the next of the declared functions          *)
(* CNetUsr__PacketHandler_0, _1, ... The queue of handlers met, the counter and *)
(* HookEngine's queue of patches have no lock. The model starts when startInjection has *)
(* hooked Recv; the client may meet its handlers in any order, in any thread.    *)
EXTENDS NtHookEngine, SharedQueue

CONSTANTS
    Thread,         \* the client's threads that receive packets
    Recv,           \* the function CNetUsr::Recv
    RecvHook,       \* CNetUsr__Recv
    Handler,        \* the client's packet handlers
    Declared,       \* <<CNetUsr__PacketHandler_0, ...>>, seven in the code
    NullHook        \* the hook address left at NULL

ASSUME HandlerAssumption ==
    /\ Function = Handler \cup {Recv}
    /\ Recv \notin Handler
    /\ Declared \in Seq(HookAddr)
    /\ {RecvHook, NullHook} \subseteq HookAddr
    \* They are functions of the DLL, each at an address of its own.
    /\ \A i, j \in DOMAIN Declared : Declared[i] = Declared[j] => i = j
    /\ \A i \in DOMAIN Declared : Declared[i] \notin {RecvHook, NullHook}
    /\ MaxChild # 0
    /\ Adder = Thread
    /\ Queue = {"met", "patches"}

VARIABLES
    holds,          \* what the children of packetHandlersHooked ("met") hold, and the
                    \* functions of the patches in the children of engine->patches
    handlersHooked, \* the static counter
    countRaced,     \* history: two threads incremented it at a time
    pc, handler,    \* a thread's step and the handler of its CNetUsr
    number,         \* the counter's value it read
    target,         \* what its handler hook was told to call
    crash           \* how the client died

threadVars == <<pc, handler, number, target>>
vars == <<table, code, queueVars, holds, handlersHooked, countRaced, pc, handler,
          number, target, crash>>

Hooking == {"add", "adding", "count", "store", "alloc", "queueing", "register", "jump"}
Steps == {"idle", "body", "hook"} \cup Hooking

TypeOK ==
    /\ NtTypeOK
    /\ QueueTypeOK
    /\ holds \in [Queue -> Seq(Function)]
    /\ handlersHooked \in 0 .. MaxChild
    /\ countRaced \in BOOLEAN
    /\ pc \in [Thread -> Steps]
    /\ handler \in [Thread -> Handler \cup {NoFunction}]
    /\ number \in [Thread -> 0 .. MaxChild]
    /\ target \in [Thread -> Function \cup {NoFunction}]
    /\ crash \in {"none", "null_handler", "null_call"}

Init ==
    /\ table = <<[function |-> Recv, hook |-> RecvHook]>>
    /\ code = [f \in Function |-> IF f = Recv THEN RecvHook ELSE Original]
    /\ holds = [k \in Queue |-> IF k = "patches" THEN <<Recv>> ELSE <<>>]
    /\ QueueInit([k \in Queue |-> Len(holds[k])])
    /\ handlersHooked = 0
    /\ countRaced = FALSE
    /\ pc = [t \in Thread |-> "idle"]
    /\ handler = [t \in Thread |-> NoFunction]
    /\ number = [t \in Thread |-> 0]
    /\ target = [t \in Thread |-> NoFunction]
    /\ crash = "none"

\* Mutated: the counter is incremented before the switch.
HookNumberAfter(n) == IF n + 1 < Len(Declared) THEN Declared[n + 2] ELSE NullHook

\* The hook switch picks for the number read: NULL when they have run out, which
\* the message box reports and HookEngine_hook is given all the same.
HookNumber(n) == IF n < Len(Declared) THEN Declared[n + 1] ELSE NullHook

At(t, here, there) ==
    /\ crash = "none"
    /\ pc[t] = here
    /\ pc' = [pc EXCEPT ![t] = there]
    /\ UNCHANGED crash

-------------------------------------------------------------------------------
(* CNetUsr__Recv.                                                                *)

\* The client calls Recv for an object whose handler is f, which a child of the
\* queue of handlers met may hold.
Known(t, f) ==
    /\ \E c \in Listed("met") : holds["met"][c] = f
    /\ At(t, "idle", "body")
    /\ handler' = [handler EXCEPT ![t] = f]
    /\ UNCHANGED <<ntVars, queueVars, holds, handlersHooked, countRaced, number, target>>

Unknown(t, f) ==
    /\ \A c \in Listed("met") : holds["met"][c] # f
    /\ At(t, "idle", "add")
    /\ handler' = [handler EXCEPT ![t] = f]
    /\ UNCHANGED <<ntVars, queueVars, holds, handlersHooked, countRaced, number, target>>

\* bb_queue_add of what a new child of queue k is to hold, up to its last step.
StartsAdding(t, k) ==
    /\ Len(holds[k]) < MaxChild
    /\ holds' = [holds EXCEPT ![k] = Append(@, handler[t])]
    /\ StartAdd(t, k, Len(holds[k]) + 1)

Adding(t) ==
    /\ crash = "none"
    /\ AddStep(t)
    /\ UNCHANGED <<ntVars, holds, handlersHooked, countRaced, pc, handler,
          number, target, crash>>

\* Mutated: the child of the handler met is allocated and not added.
ForgetMet(t) ==
    /\ At(t, "add", "count")
    /\ holds' = [holds EXCEPT !["met"] = Append(@, handler[t])]
    /\ UNCHANGED <<ntVars, queueVars, handlersHooked, countRaced, handler, number, target>>

AddMet(t) ==
    /\ At(t, "add", "adding")
    /\ StartsAdding(t, "met")
    /\ UNCHANGED <<ntVars, handlersHooked, countRaced, handler, number, target>>

MetAdded(t) ==
    /\ At(t, "adding", "count")
    /\ StoreLength(t)
    /\ UNCHANGED <<ntVars, holds, handlersHooked, countRaced, handler, number, target>>

\* handlersHooked++ is a load and a store.
LoadCount(t) ==
    /\ At(t, "count", "store")
    /\ number' = [number EXCEPT ![t] = handlersHooked]
    /\ countRaced' = (countRaced \/ \E u \in Thread : pc[u] = "store")
    /\ UNCHANGED <<ntVars, queueVars, holds, handlersHooked, handler, target>>

\* Mutated: the switch does not increment the counter.
KeepCount(t) ==
    /\ At(t, "store", "alloc")
    /\ UNCHANGED <<ntVars, queueVars, holds, handlersHooked, countRaced, handler, number, target>>

StoreCount(t) ==
    /\ At(t, "store", "alloc")
    /\ handlersHooked' = number[t] + 1
    /\ UNCHANGED <<ntVars, queueVars, holds, countRaced, handler, number, target>>

\* HookEngine_hook, as the threads of the client run it: the patch and the child
\* that is to hold it.
Alloc(t) ==
    /\ At(t, "alloc", "queueing")
    /\ StartsAdding(t, "patches")
    /\ UNCHANGED <<ntVars, handlersHooked, countRaced, handler, number, target>>

Queued(t) ==
    /\ At(t, "queueing", "register")
    /\ StoreLength(t)
    /\ UNCHANGED <<ntVars, holds, handlersHooked, countRaced, handler, number, target>>

\* Mutated: the hook is chosen by the counter as it is now.
RegisterCounted(t) ==
    /\ At(t, "register", "jump")
    /\ \/ Registered(handler[t]) /\ UNCHANGED table
       \/ Register(handler[t], HookNumber(handlersHooked))
    /\ UNCHANGED <<code, queueVars, holds, handlersHooked, countRaced, handler, number, target>>

RegisterHook(t) ==
    /\ At(t, "register", "jump")
    /\ \/ Registered(handler[t]) /\ UNCHANGED table
       \/ Register(handler[t], HookNumber(number[t]))
    /\ UNCHANGED <<code, queueVars, holds, handlersHooked, countRaced, handler, number, target>>

\* The library has no room or no bridge: the handler is never tried again.
RegisterFails(t) ==
    /\ At(t, "register", "body")
    /\ ~ Registered(handler[t])
    /\ number' = [number EXCEPT ![t] = 0]
    /\ UNCHANGED <<ntVars, queueVars, holds, handlersHooked, countRaced, handler, target>>

Jump(t) ==
    /\ At(t, "jump", "body")
    /\ WriteJump(handler[t], HookNumber(number[t]))
    /\ number' = [number EXCEPT ![t] = 0]
    /\ UNCHANGED <<table, queueVars, holds, handlersHooked, countRaced, handler, target>>

-------------------------------------------------------------------------------
(* The original Recv, which calls the handler for each of its packets.           *)

RecvReturns(t) ==
    /\ At(t, "body", "idle")
    /\ handler' = [handler EXCEPT ![t] = NoFunction]
    /\ UNCHANGED <<ntVars, queueVars, holds, handlersHooked, countRaced, number, target>>

\* CNetUsr__PacketHandler_n: look up the original, log the packet, call it.
EnterHandlerHook(t) ==
    /\ At(t, "body", "hook")
    /\ code[handler[t]] \in HookAddr \ {NullHook}
    /\ target' = [target EXCEPT ![t] = GetOriginalFunction(code[handler[t]])]
    /\ UNCHANGED <<ntVars, queueVars, holds, handlersHooked, countRaced, handler, number>>

CallOriginalHandler(t) ==
    /\ target[t] # NoFunction
    /\ At(t, "hook", "body")
    /\ target' = [target EXCEPT ![t] = NoFunction]
    /\ UNCHANGED <<ntVars, queueVars, holds, handlersHooked, countRaced, handler, number>>

Crashes(t, here, reason) ==
    /\ crash = "none"
    /\ pc[t] = here
    /\ crash' = reason
    /\ UNCHANGED <<ntVars, queueVars, holds, handlersHooked, countRaced, threadVars>>

JumpToNull(t) == Crashes(t, "body", "null_handler") /\ code[handler[t]] = NullHook
CallNull(t) == Crashes(t, "hook", "null_call") /\ target[t] = NoFunction

Next ==
    \E t \in Thread :
        \/ \E f \in Handler : Known(t, f) \/ Unknown(t, f)
        \/ AddMet(t) \/ Adding(t) \/ MetAdded(t) \/ LoadCount(t) \/ StoreCount(t)
        \/ Alloc(t) \/ Queued(t) \/ RegisterHook(t) \/ RegisterFails(t) \/ Jump(t)
        \/ RecvReturns(t) \/ EnterHandlerHook(t) \/ CallOriginalHandler(t)
        \/ JumpToNull(t) \/ CallNull(t)

Spec == Init /\ [][Next]_vars
-------------------------------------------------------------------------------
\* The children of queue k that hold f.
Holding(k, f) == {c \in 1 .. Len(holds[k]) : holds[k][c] = f}

\* f was met twice: a thread met it while its child was not in the queue of handlers
\* met, before the end of bb_queue_add or because another addition lost it.
MetTwice(f) == Cardinality(Holding("met", f)) > 1
HookedTwice(f) == Cardinality(Holding("patches", f)) > 1

\* A packet kills the client for two reasons only: it has more handlers than there
\* are declared hooks, or its threads met one handler twice.
ClientSurvives ==
    crash # "none" =>
        \/ Cardinality({f \in Handler : Holding("met", f) # {}}) > Len(Declared)
        \/ \E f \in Handler : MetTwice(f)

\* A handler's hook passes its packet on to the handler the packet was for, or to
\* NULL, although all hooks look their original up by address, unless two threads
\* incremented handlersHooked at a time and may have read one count for two handlers.
OwnHandler ==
    \A t \in Thread :
        \/ target[t] \in {handler[t], NoFunction}
        \/ countRaced

\* Every handler with a jump has a patch that HookEngine_unhook_all pops, whichever
\* threads met it and in what order, unless two additions to the queue of patches
\* overlapped.
HandlersCovered ==
    \A f \in Handler :
        code[f] # Original =>
            \/ "patches" \in overlapped
            \/ \E c \in Poppable("patches") : holds["patches"][c] = f

\* A hook misses its original for one reason only: the handler was hooked twice,
\* and the library kept the first of the two hooks while the second got the jump.
NullCallOnlyIfHookedTwice ==
    \A t \in Thread :
        pc[t] = "hook" /\ target[t] = NoFunction => HookedTwice(handler[t])

\* PacketLogger/src/main.c:104, "HookEngine_get_original_function requires a unique
\* function per hook": no two hooked functions share one.
UniqueHook ==
    \A i, j \in DOMAIN table : table[i].hook = table[j].hook => i = j
===============================================================================
