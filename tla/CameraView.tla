------------------------------ MODULE CameraView ------------------------------
(* The hook of CameraOfSavior: imcd3d9_CDevice__SetViewTM keeps the first view it *)
(* is called with and replaces every later one by it, so that the camera stands   *)
(* still. The flag and the matrix kept are shared by the client's threads, without *)
(* a lock; a memcpy copies one part of a matrix after the other.                  *)
EXTENDS Naturals

CONSTANTS
    Thread,         \* the client's threads that set views
    Parts,          \* the parts in which memcpy copies a matrix
    Value,          \* what a part may hold
    Default         \* the matrix that original is initialised with

Part == 1 .. Parts
Matrix == [Part -> Value]

ASSUME CameraAssumption == Parts \in Nat \ {0} /\ Default \in Matrix

VARIABLES
    init,           \* the static flag of the hook
    original,       \* the matrix kept
    pc,             \* a thread's step in the hook
    view,           \* the matrix its call was given, which the hook overwrites
    part,           \* the part its memcpy copies next
    kept,           \* history: the matrices of the calls that found init not set
    late            \* history: the threads whose call began when original was settled

vars == <<init, original, pc, view, part, kept, late>>

TypeOK ==
    /\ init \in BOOLEAN
    /\ original \in Matrix
    /\ pc \in [Thread -> {"idle", "test", "keep", "mark", "replace", "call"}]
    /\ view \in [Thread -> Matrix]
    /\ part \in [Thread -> 1 .. (Parts + 1)]
    /\ kept \subseteq Matrix
    /\ late \subseteq Thread

Init ==
    /\ init = FALSE
    /\ original = Default
    /\ pc = [t \in Thread |-> "idle"]
    /\ view = [t \in Thread |-> Default]
    /\ part = [t \in Thread |-> 1]
    /\ kept = {} /\ late = {}

\* No call is going to write original any more.
Settled == init /\ \A t \in Thread : pc[t] \notin {"keep", "mark"}

-------------------------------------------------------------------------------
At(t, here, there) ==
    /\ pc[t] = here
    /\ pc' = [pc EXCEPT ![t] = there]

\* The client sets view m; the two calls of its thread have nothing in common.
Call(t, m) ==
    /\ At(t, "idle", "test")
    /\ view' = [view EXCEPT ![t] = m]
    /\ part' = [part EXCEPT ![t] = 1]
    /\ UNCHANGED <<init, original, kept, late>>

\* Mutated: the flag is set where it is tested.
FoundUnsetAndSet(t) ==
    /\ ~ init
    /\ At(t, "test", "keep")
    /\ init' = TRUE
    /\ kept' = kept \cup {view[t]}
    /\ UNCHANGED <<original, view, part, late>>

FoundUnset(t) ==
    /\ ~ init
    /\ At(t, "test", "keep")
    /\ kept' = kept \cup {view[t]}
    /\ UNCHANGED <<init, original, view, part, late>>

FoundSet(t) ==
    /\ init
    /\ At(t, "test", "replace")
    /\ late' = IF Settled THEN late \cup {t} ELSE late
    /\ UNCHANGED <<init, original, view, part, kept>>

\* memcpy (&original, view, ..).
KeepPart(t) ==
    /\ pc[t] = "keep" /\ part[t] <= Parts
    /\ original' = [original EXCEPT ![part[t]] = view[t][part[t]]]
    /\ part' = [part EXCEPT ![t] = @ + 1]
    /\ UNCHANGED <<init, pc, view, kept, late>>

Kept(t) ==
    /\ part[t] = Parts + 1
    /\ At(t, "keep", "mark")
    /\ part' = [part EXCEPT ![t] = 1]
    /\ UNCHANGED <<init, original, view, kept, late>>

\* Mutated: the flag is not set.
MarkNothing(t) ==
    /\ At(t, "mark", "replace")
    /\ UNCHANGED <<init, original, view, part, kept, late>>

Mark(t) ==
    /\ At(t, "mark", "replace")
    /\ init' = TRUE
    /\ UNCHANGED <<original, view, part, kept, late>>

\* memcpy (view, &original, ..), after the original function was looked up.
ReplacePart(t) ==
    /\ pc[t] = "replace" /\ part[t] <= Parts
    /\ view' = [view EXCEPT ![t][part[t]] = original[part[t]]]
    /\ part' = [part EXCEPT ![t] = @ + 1]
    /\ UNCHANGED <<init, original, pc, kept, late>>

Replaced(t) ==
    /\ part[t] = Parts + 1
    /\ At(t, "replace", "call")
    /\ UNCHANGED <<init, original, view, part, kept, late>>

\* The original function sets the view.
CallOriginal(t) ==
    /\ At(t, "call", "idle")
    /\ late' = late \ {t}
    /\ UNCHANGED <<init, original, view, part, kept>>

InHook(t) ==
    \/ FoundUnset(t) \/ FoundSet(t) \/ KeepPart(t) \/ Kept(t) \/ Mark(t)
    \/ ReplacePart(t) \/ Replaced(t) \/ CallOriginal(t)

Next == \E t \in Thread : InHook(t) \/ \E m \in Matrix : Call(t, m)

\* The client's scheduler runs a thread that is in the hook.
Fairness == \A t \in Thread : WF_vars(InHook(t))

Spec == Init /\ [][Next]_vars /\ Fairness
-------------------------------------------------------------------------------
OfKept(matrix, p) == \E m \in kept : matrix[p] = m[p]

\* Every part of the view that is set belongs to a view the client asked for while
\* init was not set, never to the default matrix: with one such call, all views are
\* its view, with several they may be put together from theirs.
ViewsOfKept == \A t \in Thread : pc[t] = "call" => \A p \in Part : OfKept(view[t], p)

\* Once original is settled, all calls that begin set the same view, the matrix kept.
SameView == \A t \in late : pc[t] = "call" => view[t] = original

OneView == ViewsOfKept /\ SameView

\* After the first call the matrix kept comes to be settled, and stays so.
ViewSettles == (\E t \in Thread : pc[t] # "idle") ~> []Settled
===============================================================================
