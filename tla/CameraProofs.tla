----------------------------- MODULE CameraProofs -----------------------------
(* Proofs about CameraView, for any threads, any views and any number of parts.    *)
EXTENDS CameraView, TLAPS

\* A call that copies its view into original has asked for that view, and the parts
\* it has copied are of views kept, whoever copied them last.
Keeping ==
    \A t \in Thread : pc[t] = "keep" =>
        /\ view[t] \in kept
        /\ \A p \in Part : p < part[t] => OfKept(original, p)

\* No part of original is the default one when init is set or about to be.
Filled ==
    /\ init => \A p \in Part : OfKept(original, p)
    /\ \A t \in Thread : pc[t] = "mark" => \A p \in Part : OfKept(original, p)

\* A call that replaces its view finds init set.
Replacing ==
    \A t \in Thread : pc[t] \in {"replace", "call"} =>
        /\ init
        /\ pc[t] = "call" => part[t] = Parts + 1
        /\ \A p \in Part : p < part[t] => OfKept(view[t], p)

\* A call that began when original was settled still finds it settled, and the parts
\* it has replaced are those of original.
Lasting ==
    \A t \in late :
        /\ Settled
        /\ pc[t] \in {"replace", "call"}
        /\ \A p \in Part : p < part[t] => view[t][p] = original[p]

\* A memcpy begins with the first part.
Starting == \A t \in Thread : pc[t] \in {"test", "mark"} => part[t] = 1

IInv == TypeOK /\ Starting /\ Keeping /\ Filled /\ Replacing /\ Lasting

-------------------------------------------------------------------------------
\* A matrix stays a matrix when one of its parts gets a value.
LEMMA PartSet ==
    ASSUME NEW m \in Matrix, NEW p \in Part, NEW v \in Value
    PROVE  /\ [m EXCEPT ![p] = v] \in Matrix
           /\ [m EXCEPT ![p] = v][p] = v
           /\ \A q \in Part : q # p => [m EXCEPT ![p] = v][q] = m[q]
  BY DEF Matrix

\* All variables have their types.
LEMMA TypeStep == TypeOK /\ [Next]_vars => TypeOK'
<1> SUFFICES ASSUME TypeOK, [Next]_vars PROVE TypeOK'
  OBVIOUS
<1> USE CameraAssumption
<1>1. CASE UNCHANGED vars
  BY <1>1 DEF TypeOK, vars
<1>2. ASSUME NEW t \in Thread, NEW m \in Matrix, Call(t, m) PROVE TypeOK'
  BY <1>2 DEF TypeOK, Call, At
<1>3. ASSUME NEW t \in Thread, FoundUnset(t) PROVE TypeOK'
  BY <1>3 DEF TypeOK, FoundUnset, At
<1>4. ASSUME NEW t \in Thread, FoundSet(t) PROVE TypeOK'
  BY <1>4 DEF TypeOK, FoundSet, At
<1>5. ASSUME NEW t \in Thread, KeepPart(t) PROVE TypeOK'
  <2>1. part[t] \in Part /\ view[t][part[t]] \in Value
    BY <1>5 DEF TypeOK, KeepPart, Part, Matrix
  <2>2. original' \in Matrix
    BY <1>5, <2>1, PartSet DEF TypeOK, KeepPart
  <2> QED
    BY <1>5, <2>1, <2>2 DEF TypeOK, KeepPart, Part
<1>6. ASSUME NEW t \in Thread, Kept(t) PROVE TypeOK'
  BY <1>6 DEF TypeOK, Kept, At
<1>7. ASSUME NEW t \in Thread, Mark(t) PROVE TypeOK'
  BY <1>7 DEF TypeOK, Mark, At
<1>8. ASSUME NEW t \in Thread, ReplacePart(t) PROVE TypeOK'
  <2>1. part[t] \in Part /\ original[part[t]] \in Value
    BY <1>8 DEF TypeOK, ReplacePart, Part, Matrix
  <2>2. [view[t] EXCEPT ![part[t]] = original[part[t]]] \in Matrix
    BY <2>1, PartSet DEF TypeOK
  <2>3. view' \in [Thread -> Matrix]
    BY <1>8, <2>2 DEF TypeOK, ReplacePart
  <2> QED
    BY <1>8, <2>1, <2>3 DEF TypeOK, ReplacePart, Part
<1>9. ASSUME NEW t \in Thread, Replaced(t) PROVE TypeOK'
  BY <1>9 DEF TypeOK, Replaced, At
<1>10. ASSUME NEW t \in Thread, CallOriginal(t) PROVE TypeOK'
  BY <1>10 DEF TypeOK, CallOriginal, At
<1> QED
  BY <1>1, <1>2, <1>3, <1>4, <1>5, <1>6, <1>7, <1>8, <1>9, <1>10 DEF Next, InHook

\* The invariant holds after a copy into original: the part copied is of the call's
\* own view, which is kept, and no call relies on original being settled.
LEMMA KeepPartStep ==
    ASSUME IInv, TypeOK', NEW t \in Thread, KeepPart(t)
    PROVE  Starting' /\ Keeping' /\ Filled' /\ Replacing' /\ Lasting'
<1>1. /\ pc[t] = "keep" /\ part[t] \in Part /\ view[t] \in kept /\ view[t] \in Matrix
      /\ pc' = pc /\ view' = view /\ kept' = kept /\ init' = init /\ late' = late
      /\ part' = [part EXCEPT ![t] = part[t] + 1]
  BY CameraAssumption DEF IInv, TypeOK, Keeping, KeepPart, Part
<1>2. original'[part[t]] = view[t][part[t]]
      /\ \A q \in Part : q # part[t] => original'[q] = original[q]
  BY <1>1, PartSet DEF IInv, TypeOK, KeepPart, Matrix
<1>3. \A q \in Part : OfKept(original, q) => OfKept(original, q)'
  BY <1>1, <1>2 DEF OfKept
<1>4. \A q \in Part : q = part[t] => OfKept(original, q)'
  <2> SUFFICES ASSUME NEW q \in Part, q = part[t] PROVE \E m \in kept' : original'[q] = m[q]
    BY DEF OfKept
  <2> QED
    BY <1>1, <1>2
<1>5. Keeping'
  <2> SUFFICES ASSUME NEW u \in Thread, pc[u] = "keep"
               PROVE  /\ view[u] \in kept
                      /\ \A p \in Part : p < part'[u] => OfKept(original, p)'
    BY <1>1 DEF Keeping
  <2>1. view[u] \in kept /\ \A p \in Part : p < part[u] => OfKept(original, p)
    BY DEF IInv, Keeping
  <2>2. \A p \in Part : p < part'[u] => p < part[u] \/ p = part[t]
    BY <1>1 DEF IInv, TypeOK, Part
  <2> QED
    BY <2>1, <2>2, <1>3, <1>4
<1>6. Filled'
  BY <1>1, <1>3 DEF IInv, Filled
<1>7. Replacing'
  <2>1. \A u \in Thread : pc[u] \in {"replace", "call"} => part'[u] = part[u]
    BY <1>1 DEF IInv, TypeOK
  <2> QED
    BY <1>1, <2>1 DEF IInv, Replacing, OfKept
<1>8. Lasting'
  BY <1>1 DEF IInv, Lasting, Settled
<1>9. Starting'
  BY <1>1 DEF IInv, TypeOK, Starting
<1> QED
  BY <1>5, <1>6, <1>7, <1>8, <1>9

\* A copy out of original gives the view a part of a view kept.
LEMMA ReplacePartStep ==
    ASSUME IInv, TypeOK', NEW t \in Thread, ReplacePart(t)
    PROVE  Starting' /\ Keeping' /\ Filled' /\ Replacing' /\ Lasting'
<1>1. /\ pc[t] = "replace" /\ part[t] \in Part /\ init
      /\ pc' = pc /\ original' = original /\ kept' = kept /\ init' = init /\ late' = late
      /\ part' = [part EXCEPT ![t] = part[t] + 1]
  BY CameraAssumption DEF IInv, TypeOK, Replacing, ReplacePart, Part
<1>2. \A u \in Thread : u # t => view'[u] = view[u] /\ part'[u] = part[u]
  BY <1>1 DEF IInv, TypeOK, ReplacePart
<1>3. view'[t][part[t]] = original[part[t]]
      /\ \A q \in Part : q # part[t] => view'[t][q] = view[t][q]
  <2>1. view[t] \in Matrix /\ original[part[t]] \in Value
    BY <1>1 DEF IInv, TypeOK, Matrix
  <2>2. view'[t] = [view[t] EXCEPT ![part[t]] = original[part[t]]]
    BY DEF IInv, TypeOK, ReplacePart
  <2> QED
    BY <1>1, <2>1, <2>2, PartSet
<1>4. \A q \in Part : q < part'[t] => q < part[t] \/ q = part[t]
  BY <1>1 DEF IInv, TypeOK, Part
<1>5. \A u \in Thread : pc[u] \in {"keep", "mark"} => u # t
  BY <1>1
<1>6. Keeping'
  BY <1>1, <1>2, <1>5 DEF IInv, Keeping, OfKept
<1>7. Filled'
  BY <1>1, <1>2 DEF IInv, Filled, OfKept
<1>8. \A p \in Part : p < part'[t] => OfKept(view[t], p)'
  <2> SUFFICES ASSUME NEW p \in Part, p < part'[t]
               PROVE  \E m \in kept : view'[t][p] = m[p]
    BY <1>1 DEF OfKept
  <2>1. CASE p = part[t]
    BY <2>1, <1>1, <1>3 DEF IInv, Filled, OfKept
  <2>2. CASE p # part[t]
    BY <2>2, <1>1, <1>3, <1>4 DEF IInv, Replacing, OfKept
  <2> QED
    BY <2>1, <2>2
<1>9. Replacing'
  BY <1>1, <1>2, <1>8 DEF IInv, Replacing, OfKept
<1>10. \A p \in Part : t \in late /\ p < part'[t] => view'[t][p] = original[p]
  <2> SUFFICES ASSUME NEW p \in Part, t \in late, p < part'[t]
               PROVE  view'[t][p] = original[p]
    OBVIOUS
  <2>1. CASE p = part[t]
    BY <2>1, <1>3
  <2>2. CASE p # part[t]
    BY <2>2, <1>3, <1>4 DEF IInv, Lasting
  <2> QED
    BY <2>1, <2>2
<1>11. Lasting'
  <2>1. late \subseteq Thread
    BY DEF IInv, TypeOK
  <2> SUFFICES ASSUME NEW u \in late
               PROVE  /\ Settled /\ pc[u] \in {"replace", "call"}
                      /\ \A p \in Part : p < part'[u] => view'[u][p] = original[p]
    BY <1>1 DEF Lasting, Settled
  <2> QED
    BY <2>1, <1>2, <1>10 DEF IInv, Lasting
<1>12. Starting'
  BY <1>1, <1>2 DEF IInv, Starting
<1> QED
  BY <1>6, <1>7, <1>9, <1>11, <1>12

\* The invariant holds after every other step.
LEMMA OtherSteps ==
    ASSUME IInv, TypeOK', NEW t \in Thread,
           \/ \E m \in Matrix : Call(t, m)
           \/ FoundUnset(t) \/ FoundSet(t) \/ Kept(t) \/ Mark(t)
           \/ Replaced(t) \/ CallOriginal(t)
    PROVE  Starting' /\ Keeping' /\ Filled' /\ Replacing' /\ Lasting'
<1> USE CameraAssumption
<1>1. ASSUME NEW m \in Matrix, Call(t, m) PROVE Starting' /\ Keeping' /\ Filled' /\ Replacing' /\ Lasting'
  <2>1. t \notin late
    BY <1>1 DEF IInv, Lasting, Call, At
  <2> QED
    BY <1>1, <2>1 DEF IInv, TypeOK, Starting, Keeping, Filled, Replacing, Lasting,
           Settled, OfKept, Call, At
<1>2. ASSUME FoundUnset(t) PROVE Starting' /\ Keeping' /\ Filled' /\ Replacing' /\ Lasting'
  <2>1. part[t] = 1
    BY <1>2 DEF IInv, Starting, FoundUnset, At
  <2> QED
    BY <1>2, <2>1 DEF IInv, TypeOK, Starting, Keeping, Filled, Replacing, Lasting,
           Settled, OfKept, FoundUnset, At, Part
<1>3. ASSUME FoundSet(t) PROVE Starting' /\ Keeping' /\ Filled' /\ Replacing' /\ Lasting'
  BY <1>3 DEF IInv, TypeOK, Starting, Keeping, Filled, Replacing, Lasting,
           Settled, OfKept, FoundSet, At, Part
<1>4. ASSUME Kept(t) PROVE Starting' /\ Keeping' /\ Filled' /\ Replacing' /\ Lasting'
  BY <1>4 DEF IInv, TypeOK, Starting, Keeping, Filled, Replacing, Lasting,
           Settled, OfKept, Kept, At, Part
<1>5. ASSUME Mark(t) PROVE Starting' /\ Keeping' /\ Filled' /\ Replacing' /\ Lasting'
  BY <1>5 DEF IInv, TypeOK, Starting, Keeping, Filled, Replacing, Lasting,
           Settled, OfKept, Mark, At, Part
<1>6. ASSUME Replaced(t) PROVE Starting' /\ Keeping' /\ Filled' /\ Replacing' /\ Lasting'
  BY <1>6 DEF IInv, TypeOK, Starting, Keeping, Filled, Replacing, Lasting,
           Settled, OfKept, Replaced, At, Part
<1>7. ASSUME CallOriginal(t) PROVE Starting' /\ Keeping' /\ Filled' /\ Replacing' /\ Lasting'
  BY <1>7 DEF IInv, TypeOK, Starting, Keeping, Filled, Replacing, Lasting,
           Settled, OfKept, CallOriginal, At, Part
<1> QED
  BY <1>1, <1>2, <1>3, <1>4, <1>5, <1>6, <1>7

\* The invariant is inductive.
LEMMA InitIInv == Init => IInv
<1> SUFFICES ASSUME Init PROVE IInv
  OBVIOUS
<1>1. TypeOK
  <2>1. 1 \in 1 .. (Parts + 1) /\ Default \in Matrix
    BY CameraAssumption
  <2>2. original \in Matrix /\ view \in [Thread -> Matrix] /\ part \in [Thread -> 1 .. (Parts + 1)]
    BY <2>1 DEF Init
  <2> QED
    BY <2>2 DEF Init, TypeOK
<1>2. Starting /\ Keeping /\ Filled /\ Replacing /\ Lasting
  BY DEF Init, Starting, Keeping, Filled, Replacing, Lasting
<1> QED
  BY <1>1, <1>2 DEF IInv

LEMMA NextIInv == IInv /\ [Next]_vars => IInv'
<1> SUFFICES ASSUME IInv, [Next]_vars PROVE IInv'
  OBVIOUS
<1>1. TypeOK'
  BY TypeStep DEF IInv
<1>2. CASE UNCHANGED vars
  BY <1>1, <1>2 DEF vars, IInv, Starting, Keeping, Filled, Replacing, Lasting, Settled, OfKept
<1>3. ASSUME NEW t \in Thread, InHook(t) \/ \E m \in Matrix : Call(t, m) PROVE IInv'
  <2>1. CASE KeepPart(t)
    BY <2>1, <1>1, KeepPartStep DEF IInv
  <2>2. CASE ReplacePart(t)
    BY <2>2, <1>1, ReplacePartStep DEF IInv
  <2>3. CASE \/ \E m \in Matrix : Call(t, m)
             \/ FoundUnset(t) \/ FoundSet(t) \/ Kept(t) \/ Mark(t)
             \/ Replaced(t) \/ CallOriginal(t)
    BY <2>3, <1>1, OtherSteps DEF IInv
  <2> QED
    BY <1>3, <2>1, <2>2, <2>3 DEF InHook
<1> QED
  BY <1>2, <1>3 DEF Next

LEMMA IInvCorrect == Spec => []IInv
<1> QED
  BY InitIInv, NextIInv, PTL DEF Spec

-------------------------------------------------------------------------------
\* For any number of threads and parts, in any interleaving: the camera's view is put
\* together from views that were asked for while init was not set, and all calls that
\* begin after it was settled set the same view.
THEOREM OneViewCorrect == Spec => []OneView
<1>1. IInv => ViewsOfKept
  <2> SUFFICES ASSUME IInv, NEW t \in Thread, pc[t] = "call", NEW p \in Part
               PROVE  OfKept(view[t], p)
    BY DEF ViewsOfKept
  <2>1. p < part[t]
    BY CameraAssumption DEF IInv, Replacing, Part
  <2> QED
    BY <2>1 DEF IInv, Replacing
<1>2. IInv => SameView
  <2> SUFFICES ASSUME IInv, NEW t \in late, pc[t] = "call" PROVE view[t] = original
    BY DEF SameView
  <2>1. t \in Thread /\ \A p \in Part : p < part[t]
    BY CameraAssumption DEF IInv, TypeOK, Replacing, Part
  <2>2. view[t] \in Matrix /\ original \in Matrix /\ \A p \in Part : view[t][p] = original[p]
    BY <2>1 DEF IInv, TypeOK, Lasting
  <2> QED
    BY <2>2 DEF Matrix
<1>3. IInv => OneView
  BY <1>1, <1>2 DEF OneView
<1> QED
  BY <1>3, IInvCorrect, PTL

\* A matrix that is settled stays as it is.
THEOREM SettledForever == Spec => [][Settled => Settled' /\ original' = original]_vars
<1>1. IInv /\ [Next]_vars => [Settled => Settled' /\ original' = original]_vars
  <2> SUFFICES ASSUME IInv, NEW t \in Thread, InHook(t) \/ \E m \in Matrix : Call(t, m), Settled
               PROVE  Settled' /\ original' = original
    BY DEF Next
  <2> QED
    BY DEF IInv, TypeOK, InHook, Settled, At, Call, FoundUnset, FoundSet, KeepPart, Kept, Mark,
           ReplacePart, Replaced, CallOriginal
<1> QED
  BY <1>1, IInvCorrect, PTL DEF Spec
===============================================================================
