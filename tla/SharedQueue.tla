------------------------------ MODULE SharedQueue -----------------------------
(* A BbQueue that several threads add to. A BbQueue has no lock, so bb_queue_add  *)
(* is here the sequence of its reads and writes, between which the other threads *)
(* run theirs. What a child holds is chosen by the module that extends this one. *)
EXTENDS Naturals, FiniteSets

CONSTANTS
    Queue,          \* the queues the threads share
    Adder,          \* the threads that add
    MaxChild        \* bound: the children that may be allocated for a queue

ASSUME QueueAssumption == MaxChild \in Nat

\* A queue's children are numbered as they are allocated; Nil is the NULL pointer.
Child == 1 .. MaxChild
Nil == 0
NoQueue == "none"

VARIABLES
    ends,           \* a queue's first, last and len
    next, prev,     \* the links of a queue's children
    step,           \* a thread's place in bb_queue_add, "out" if it is in none
    into, child,    \* the queue and the child of its bb_queue_add
    length,         \* the length it read
    overlapped      \* history: the queues two threads were adding to at a time

queueVars == <<ends, next, prev, step, into, child, length, overlapped>>

Pointer == Child \cup {Nil}
AddSteps == {"out", "first", "next", "prev", "last", "load", "store"}

QueueTypeOK ==
    /\ ends \in [Queue -> [first : Pointer, last : Pointer, len : 0 .. MaxChild]]
    /\ next \in [Queue -> [Child -> Pointer]]
    /\ prev \in [Queue -> [Child -> Pointer]]
    /\ step \in [Adder -> AddSteps]
    /\ into \in [Adder -> Queue \cup {NoQueue}]
    /\ child \in [Adder -> Pointer]
    /\ length \in [Adder -> 0 .. MaxChild]
    /\ overlapped \subseteq Queue

\* Every thread outside, and a queue that holds c or, for Nil, nothing.
QueueInit(c) ==
    /\ ends = [k \in Queue |-> [first |-> c[k], last |-> c[k],
                                len |-> IF c[k] = Nil THEN 0 ELSE 1]]
    /\ next = [k \in Queue |-> [x \in Child |-> Nil]]
    /\ prev = [k \in Queue |-> [x \in Child |-> Nil]]
    /\ step = [t \in Adder |-> "out"]
    /\ into = [t \in Adder |-> NoQueue]
    /\ child = [t \in Adder |-> Nil]
    /\ length = [t \in Adder |-> 0]
    /\ overlapped = {}

-------------------------------------------------------------------------------
AtStep(t, here, there) ==
    /\ step[t] = here
    /\ step' = [step EXCEPT ![t] = there]

\* bb_queue_add(q, data): bb_child_new returns c, and the length is tested.
StartAdd(t, k, c) ==
    /\ AtStep(t, "out", IF ends[k].len = 0 THEN "first" ELSE "next")
    /\ into' = [into EXCEPT ![t] = k]
    /\ child' = [child EXCEPT ![t] = c]
    /\ overlapped' = overlapped \cup
         (IF \E u \in Adder \ {t} : step[u] # "out" /\ into[u] = k THEN {k} ELSE {})
    /\ UNCHANGED <<ends, next, prev, length>>

\* q->first = c in an empty queue.
SetFirst(t) ==
    /\ AtStep(t, "first", "last")
    /\ ends' = [ends EXCEPT ![into[t]].first = child[t]]
    /\ UNCHANGED <<next, prev, into, child, length, overlapped>>

\* q->last->next = c.
SetNext(t) ==
    /\ AtStep(t, "next", "prev")
    /\ next' = [next EXCEPT ![into[t]][ends[into[t]].last] = child[t]]
    /\ UNCHANGED <<ends, prev, into, child, length, overlapped>>

\* Mutated: q->last is moved before c->prev is set from it.
SetPrevLate(t) ==
    /\ AtStep(t, "prev", "load")
    /\ ends' = [ends EXCEPT ![into[t]].last = child[t]]
    /\ prev' = [prev EXCEPT ![into[t]][child[t]] = child[t]]
    /\ UNCHANGED <<next, into, child, length, overlapped>>

\* c->prev = q->last, which is read again.
SetPrev(t) ==
    /\ AtStep(t, "prev", "last")
    /\ prev' = [prev EXCEPT ![into[t]][child[t]] = ends[into[t]].last]
    /\ UNCHANGED <<ends, next, into, child, length, overlapped>>

SetLast(t) ==
    /\ AtStep(t, "last", "load")
    /\ ends' = [ends EXCEPT ![into[t]].last = child[t]]
    /\ UNCHANGED <<next, prev, into, child, length, overlapped>>

\* len++ is a load and a store.
LoadLength(t) ==
    /\ AtStep(t, "load", "store")
    /\ length' = [length EXCEPT ![t] = ends[into[t]].len]
    /\ UNCHANGED <<ends, next, prev, into, child, overlapped>>

\* A thread that leaves bb_queue_add has none of its locals any more.
Returns(t) ==
    /\ into' = [into EXCEPT ![t] = NoQueue]
    /\ child' = [child EXCEPT ![t] = Nil]
    /\ length' = [length EXCEPT ![t] = 0]

\* Mutated: the length is stored as it was read.
StoreSameLength(t) ==
    /\ AtStep(t, "store", "out")
    /\ ends' = [ends EXCEPT ![into[t]].len = length[t]]
    /\ Returns(t)
    /\ UNCHANGED <<next, prev, overlapped>>

StoreLength(t) ==
    /\ AtStep(t, "store", "out")
    /\ ends' = [ends EXCEPT ![into[t]].len = length[t] + 1]
    /\ Returns(t)
    /\ UNCHANGED <<next, prev, overlapped>>

AddStep(t) ==
    SetFirst(t) \/ SetNext(t) \/ SetPrev(t) \/ SetLast(t) \/ LoadLength(t)

-------------------------------------------------------------------------------
\* The child a walk has reached after i steps, from the first child and from the
\* last one.
FromFirst(k) ==
    LET at[i \in 0 .. MaxChild] ==
          IF i = 0 THEN ends[k].first
          ELSE IF at[i - 1] = Nil THEN Nil ELSE next[k][at[i - 1]]
    IN  at

FromLast(k) ==
    LET at[i \in 0 .. MaxChild] ==
          IF i = 0 THEN ends[k].last
          ELSE IF at[i - 1] = Nil THEN Nil ELSE prev[k][at[i - 1]]
    IN  at

\* What bb_queue_exists meets.
Listed(k) == {FromFirst(k)[i] : i \in 0 .. MaxChild} \ {Nil}

\* HookEngine_unhook_all pops as often as the length says. bb_queue_pop follows the
\* NULL pointer if there is no last child, or if the last of several has none before it.
PopFaults(k, i) == \E j \in {i, i + 1} : j < ends[k].len /\ FromLast(k)[j] = Nil

\* The children that its pops take off, before one of them faults.
Poppable(k) ==
    {FromLast(k)[i] : i \in {j \in 0 .. (ends[k].len - 1) : ~ PopFaults(k, j)}}

\* However the additions of the threads interleave, the children form no circle in
\* either direction: bb_queue_exists comes to an end, and bb_queue_pop never takes one
\* child off twice. The loop of HookEngine_unhook_all may still follow a NULL pointer.
NoCircle ==
    \A k \in Queue :
        /\ FromFirst(k)[MaxChild] = Nil
        /\ FromLast(k)[MaxChild] = Nil

\* Where no two additions overlapped, and every addition has ended, the loop of
\* HookEngine_unhook_all follows no NULL pointer and takes off the children that
\* bb_queue_exists meets, as many as the length says.
SameBothWays ==
    \A k \in Queue \ overlapped :
        (\A t \in Adder : step[t] = "out" \/ into[t] # k) =>
            /\ \A i \in 0 .. (ends[k].len - 1) : ~ PopFaults(k, i)
            /\ Poppable(k) = Listed(k)
            /\ Cardinality(Listed(k)) = ends[k].len
===============================================================================
