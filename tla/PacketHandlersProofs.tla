-------------------------- MODULE PacketHandlersProofs -------------------------
(* Theorems about PacketHandlers and the queues its threads share, for any        *)
(* threads, packet handlers, declared hooks and number of children.               *)
EXTENDS PacketHandlers, SequenceTheorems, WalkLemmas

-------------------------------------------------------------------------------
(* Where a thread is, and what the counters may come to.                         *)

AddingTo(k) == {t \in Thread : into[t] = k}
Counting == {t \in Thread : pc[t] \in {"adding", "count", "store"}}

\* A thread is in bb_queue_add for the step of CNetUsr__Recv it is at, and in no
\* other queue than the one of that step.
InPlace ==
    \A t \in Thread :
        /\ pc[t] # "idle" => handler[t] \in Handler
        /\ into[t] = IF pc[t] = "adding" THEN "met"
                     ELSE IF pc[t] = "queueing" THEN "patches" ELSE NoQueue
        /\ step[t] = "out" <=> into[t] = NoQueue
        /\ target[t] # NoFunction => pc[t] = "hook"

\* A length counts no child that is being added, and was read when it did not.
LengthBounded ==
    \A k \in Queue :
        /\ IsFiniteSet(AddingTo(k))
        /\ Len(holds[k]) <= MaxChild
        /\ ends[k].len + Cardinality(AddingTo(k)) <= Len(holds[k])
        /\ \A t \in AddingTo(k) :
             step[t] = "store" => length[t] + Cardinality(AddingTo(k)) <= Len(holds[k])

\* The counter counts no handler that is yet to be counted.
CountBounded ==
    /\ IsFiniteSet(Counting)
    /\ handlersHooked + Cardinality(Counting) <= Len(holds["met"])
    /\ \A t \in Thread :
         pc[t] = "store" => number[t] + Cardinality(Counting) <= Len(holds["met"])

TInv == TypeOK /\ InPlace /\ LengthBounded /\ CountBounded

-------------------------------------------------------------------------------
(* Who has which number.                                                         *)

Numbered == {"alloc", "queueing", "register", "jump"}

\* f has been given the number n: by a thread on its way, in the table, or in its code.
Uses(f, n) ==
    \/ \E t \in Thread : pc[t] \in Numbered /\ handler[t] = f /\ number[t] = n
    \/ n < Len(Declared) /\ \E i \in DOMAIN table :
                              table[i] = [function |-> f, hook |-> Declared[n + 1]]
    \/ n < Len(Declared) /\ code[f] = Declared[n + 1]

\* While no two threads count at a time, no number is given to two handlers.
NumbersOwned ==
    ~ countRaced =>
        /\ \A t, u \in Thread : pc[t] = "store" /\ pc[u] = "store" => t = u
        /\ \A t \in Thread : pc[t] = "store" => number[t] = handlersHooked
        /\ \A f, g \in Function, n \in Nat :
             Uses(f, n) => n < handlersHooked /\ (Uses(g, n) => f = g)

\* A handler is given declared hooks, or NULL once there are fewer than handlers met.
CodeGiven ==
    /\ \A f \in Handler :
         \/ code[f] = Original
         \/ code[f] = NullHook /\ Len(holds["met"]) > Len(Declared)
         \/ \E n \in 0 .. (Len(Declared) - 1) : code[f] = Declared[n + 1]
    /\ \A t \in Thread : pc[t] \in Numbered => number[t] < Len(holds["met"])

-------------------------------------------------------------------------------
(* What happens twice.                                                           *)

Twice(k, f) == \E c, d \in Holding(k, f) : c # d
Patching == {"queueing", "register", "jump"}
Meeting == {"adding", "count", "store", "alloc"}

Hooked(f) ==
    \/ \E t \in Thread : pc[t] \in Patching /\ handler[t] = f
    \/ Registered(f)
    \/ code[f] # Original

BeingMet(f) == \E t \in Thread : pc[t] \in Meeting /\ handler[t] = f

\* A handler that got one patch is hooked by one thread, which enters it in the
\* library's table before it writes the jump.
HookedOnce ==
    \A f \in Handler :
        /\ Hooked(f) => Holding("patches", f) # {}
        /\ ~ Twice("patches", f) =>
             /\ \A t, u \in Thread :
                  pc[t] \in Patching /\ handler[t] = f /\ pc[u] \in Patching /\ handler[u] = f => t = u
             /\ \A t \in Thread :
                  /\ pc[t] \in Patching /\ handler[t] = f => code[f] = Original
                  /\ pc[t] \in {"queueing", "register"} /\ handler[t] = f => ~ Registered(f)
                  /\ pc[t] = "jump" /\ handler[t] = f =>
                       \E i \in DOMAIN table :
                         table[i] = [function |-> f, hook |-> HookNumber(number[t])]
             /\ code[f] # Original =>
                  \E i \in DOMAIN table : table[i] = [function |-> f, hook |-> code[f]]

\* A handler that was met once is hooked once.
MetOnce ==
    \A f \in Handler :
        /\ BeingMet(f) \/ Holding("patches", f) # {} => Holding("met", f) # {}
        /\ ~ Twice("met", f) =>
             /\ \A t, u \in Thread :
                  pc[t] \in Meeting /\ handler[t] = f /\ pc[u] \in Meeting /\ handler[u] = f => t = u
             /\ BeingMet(f) => Holding("patches", f) = {}
             /\ ~ Twice("patches", f)

HeldHandlers ==
    /\ holds["met"] \in Seq(Handler)
    /\ holds["patches"] # <<>> /\ holds["patches"][1] = Recv

-------------------------------------------------------------------------------
(* The shape of a shared queue.                                                  *)

\* The threads in bb_queue_add have children of their own, none of them later than
\* the last one allocated.
OwnChildren ==
    \A t \in Thread :
        into[t] # NoQueue =>
            /\ child[t] \in 1 .. Len(holds[into[t]])
            /\ holds[into[t]][child[t]] = handler[t]
            /\ \A u \in Thread : into[u] = into[t] /\ child[u] = child[t] => u = t

\* The children of a queue are ranked by when they became the last one; 0 is the rank
\* of a child that has not. Links lead away from children that have been the last.
Before(r, c, d) == r[c] > 0 /\ (r[d] = 0 \/ r[c] < r[d])

Ranked(k, r) ==
    /\ \A c \in Child : r[c] > 0 => ends[k].last # Nil /\ r[c] <= r[ends[k].last]
    /\ ends[k].last # Nil => r[ends[k].last] > 0
    /\ \A c, d \in Child : next[k][c] = d => Before(r, c, d)
    /\ \A c, d \in Child : prev[k][d] = c => Before(r, c, d)
    /\ \A c \in Child : c > Len(holds[k]) => r[c] = 0
    /\ \A t \in Thread :
         into[t] = k /\ step[t] \in {"first", "next", "prev", "last"} => r[child[t]] = 0

RanksExist == \A k \in Queue : \E r \in [Child -> Nat] : Ranked(k, r)

\* The links of a queue whose children are 1 .. m, in the order of their allocation.
NextUpTo(m) == [c \in Child |-> IF c < m THEN c + 1 ELSE Nil]
PrevUpTo(m) == [c \in Child |-> IF c <= m THEN c - 1 ELSE Nil]

Tidy(k) ==
    LET n == Len(holds[k])
    IN  /\ ends[k] = [first |-> IF n = 0 THEN Nil ELSE 1, last |-> n, len |-> n]
        /\ next[k] = NextUpTo(n)
        /\ prev[k] = PrevUpTo(n)

\* The queue in the middle of the one addition of thread t.
TidyBut(k, t) ==
    LET n == Len(holds[k])
    IN  /\ child[t] = n
        /\ ends[k] = [first |-> IF step[t] = "first" THEN Nil ELSE 1,
                      last |-> IF step[t] \in {"load", "store"} THEN n ELSE n - 1,
                      len |-> n - 1]
        /\ next[k] = NextUpTo(IF step[t] \in {"first", "next"} THEN n - 1 ELSE n)
        /\ prev[k] = PrevUpTo(IF step[t] \in {"first", "next", "prev"} THEN n - 1 ELSE n)
        /\ step[t] = "first" => n = 1
        /\ step[t] \in {"next", "prev"} => n > 1
        /\ step[t] = "store" => length[t] = n - 1

TidyAlone ==
    \A k \in Queue \ overlapped :
        /\ \A t, u \in Thread : into[t] = k /\ into[u] = k => t = u
        /\ \A t \in Thread : into[t] = k => TidyBut(k, t)
        /\ (\A t \in Thread : into[t] # k) => Tidy(k)

\* The patch of a handler with a jump, and of one about to get it, is queued.
PatchQueued ==
    \A f \in Handler :
        code[f] # Original \/ (\E t \in Thread : pc[t] \in {"register", "jump"} /\ handler[t] = f)
          => \E c \in Holding("patches", f) :
               \A t \in Thread : into[t] = "patches" => child[t] # c
-------------------------------------------------------------------------------
(* The hooks and the table.                                                      *)

\* The switch of CNetUsr__Recv answers the address of a hook for every count.
LEMMA HookNumberType == \A n \in Nat : HookNumber(n) \in HookAddr
<1> TAKE n \in Nat
<1>1. CASE n < Len(Declared)
  <2>1. n + 1 \in 1 .. Len(Declared) /\ Declared \in Seq(HookAddr)
    BY <1>1, HandlerAssumption, SMT
  <2> QED  BY <1>1, <2>1, SMT DEF HookNumber
<1>2. CASE ~ (n < Len(Declared))
  BY <1>2, HandlerAssumption DEF HookNumber
<1> QED  BY <1>1, <1>2

\* The library's lookup answers the function of an entry given that hook, or NULL when
\* there is no such entry.
LEMMA LookUpFacts ==
    ASSUME NtTypeOK, NEW h
    PROVE  \/ /\ GetOriginalFunction(h) = NoFunction
              /\ \A i \in DOMAIN table : table[i].hook # h
           \/ \E i \in DOMAIN table :
                /\ table[i] \in Entry
                /\ table[i].hook = h
                /\ GetOriginalFunction(h) = table[i].function
<1>e. DOMAIN table \subseteq Nat /\ \A i \in DOMAIN table : table[i] \in Entry
  BY SMT DEF NtTypeOK
<1>1. CASE ~ \E i \in DOMAIN table : IsFirstEntryOf(i, h)
  <2>1. ASSUME NEW j \in DOMAIN table, table[j].hook = h PROVE FALSE
    <3> DEFINE T == {i \in DOMAIN table : table[i].hook = h}
    <3>1. T \subseteq Nat /\ T # {}
      BY <1>e, <2>1
    <3>2. PICK i \in T : \A k \in T : i <= k
      <4> HIDE DEF T
      <4> QED  BY <3>1, LeastNatural
    <3> QED  BY <3>2, <1>1 DEF IsFirstEntryOf
  <2> QED  BY <1>1, <2>1 DEF GetOriginalFunction
<1>2. CASE \E i \in DOMAIN table : IsFirstEntryOf(i, h)
  <2> DEFINE k == CHOOSE i \in DOMAIN table : IsFirstEntryOf(i, h)
  <2>1. k \in DOMAIN table /\ IsFirstEntryOf(k, h)
    BY <1>2
  <2>2. GetOriginalFunction(h) = table[k].function
    BY <1>2 DEF GetOriginalFunction
  <2> HIDE DEF k
  <2> QED  BY <2>1, <2>2, <1>e DEF IsFirstEntryOf
<1> QED  BY <1>1, <1>2

-------------------------------------------------------------------------------
(* Type correctness.                                                             *)

\* A step of a thread, other than the fatal ones.
Step(t) ==
    \/ \E f \in Handler : Known(t, f) \/ Unknown(t, f)
    \/ AddMet(t) \/ Adding(t) \/ MetAdded(t) \/ LoadCount(t) \/ StoreCount(t)
    \/ Alloc(t) \/ Queued(t) \/ RegisterHook(t) \/ RegisterFails(t) \/ Jump(t)
    \/ RecvReturns(t) \/ EnterHandlerHook(t) \/ CallOriginalHandler(t)

\* What crashes leave as it is.
allButCrash == <<table, code, queueVars, holds, handlersHooked, countRaced, pc, handler,
                 number, target>>

\* A step is one of those, or leaves everything but crash alone.
LEMMA Steps1 ==
    ASSUME [Next]_vars
    PROVE  \/ \E t \in Thread : Step(t) /\ crash = "none" /\ crash' = crash
           \/ UNCHANGED allButCrash /\ crash' \in {crash, "null_handler", "null_call"}
  BY DEF Next, Step, JumpToNull, CallNull, Crashes, allButCrash, vars, ntVars, threadVars, At,
     Known, Unknown, AddMet, Adding, MetAdded, LoadCount, StoreCount, Alloc, Queued, RegisterHook,
     RegisterFails, Jump, RecvReturns, EnterHandlerHook, CallOriginalHandler

\* A step changes a thread's place and data and no other thread's.
LEMMA OthersStay ==
    ASSUME NEW t \in Thread, Step(t), TypeOK
    PROVE  \A u \in Thread \ {t} :
              /\ pc'[u] = pc[u] /\ handler'[u] = handler[u] /\ number'[u] = number[u]
              /\ target'[u] = target[u] /\ step'[u] = step[u] /\ into'[u] = into[u]
              /\ child'[u] = child[u] /\ length'[u] = length[u]
<1> USE HandlerAssumption DEF TypeOK, QueueTypeOK, At, queueVars
<1> TAKE u \in Thread \ {t}
<1>1. CASE Adding(t)
  BY <1>1 DEF Adding, AddStep, SetFirst, SetNext, SetPrev, SetLast, LoadLength, AtStep
<1>2. CASE AddMet(t) \/ Alloc(t)
  BY <1>2 DEF AddMet, Alloc, StartsAdding, StartAdd, AtStep
<1>3. CASE MetAdded(t) \/ Queued(t)
  BY <1>3 DEF MetAdded, Queued, StoreLength, AtStep, Returns
<1>4. CASE \/ \E f \in Handler : Known(t, f) \/ Unknown(t, f)
           \/ LoadCount(t) \/ StoreCount(t) \/ RegisterHook(t) \/ RegisterFails(t) \/ Jump(t)
           \/ RecvReturns(t) \/ EnterHandlerHook(t) \/ CallOriginalHandler(t)
  BY <1>4 DEF Known, Unknown, LoadCount, StoreCount, RegisterHook, RegisterFails, Jump,
     RecvReturns, EnterHandlerHook, CallOriginalHandler
<1> QED  BY <1>1, <1>2, <1>3, <1>4 DEF Step

\* What a step does to the queues: nothing, or a part of one bb_queue_add.
LEMMA QueueSteps ==
    ASSUME NEW t \in Thread, Step(t)
    PROVE  \/ UNCHANGED <<queueVars, holds>>
           \/ \E k \in Queue :
                /\ StartsAdding(t, k)
                /\ pc[t] = IF k = "met" THEN "add" ELSE "alloc"
           \/ AddStep(t) /\ UNCHANGED <<holds, pc>>
           \/ StoreLength(t) /\ UNCHANGED holds
  BY HandlerAssumption DEF Step, At, queueVars,
     Known, Unknown, AddMet, Adding, MetAdded, LoadCount, StoreCount, Alloc, Queued, RegisterHook,
     RegisterFails, Jump, RecvReturns, EnterHandlerHook, CallOriginalHandler

\* A thread outside of bb_queue_add leaves the queues alone or starts an addition, one
\* inside goes on with it.
LEMMA InPlaceStep ==
    ASSUME NEW t \in Thread, Step(t), TInv
    PROVE  InPlace'
<1>o. \A u \in Thread \ {t} :
         /\ pc'[u] = pc[u] /\ handler'[u] = handler[u] /\ target'[u] = target[u]
         /\ step'[u] = step[u] /\ into'[u] = into[u]
  BY OthersStay DEF TInv
<1> SUFFICES /\ pc'[t] # "idle" => handler'[t] \in Handler
             /\ into'[t] = IF pc'[t] = "adding" THEN "met"
                           ELSE IF pc'[t] = "queueing" THEN "patches" ELSE NoQueue
             /\ step'[t] = "out" <=> into'[t] = NoQueue
             /\ target'[t] # NoFunction => pc'[t] = "hook"
  BY <1>o DEF InPlace, TInv
<1> USE HandlerAssumption DEF TInv, TypeOK, QueueTypeOK, At, queueVars, Steps, Hooking, NoQueue
<1>1. CASE Adding(t)
  BY <1>1 DEF Adding, AddStep, SetFirst, SetNext, SetPrev, SetLast, LoadLength, AtStep, InPlace
<1>2. CASE AddMet(t) \/ Alloc(t)
  BY <1>2 DEF AddMet, Alloc, StartsAdding, StartAdd, AtStep, InPlace
<1>3. CASE MetAdded(t) \/ Queued(t)
  BY <1>3 DEF MetAdded, Queued, StoreLength, AtStep, Returns, InPlace
<1>4. CASE \E f \in Handler : Known(t, f) \/ Unknown(t, f)
  <2>1. PICK f \in Handler : Known(t, f) \/ Unknown(t, f)
    BY <1>4
  <2>2. /\ pc[t] = "idle" /\ pc'[t] \in {"body", "add"} /\ handler'[t] = f
        /\ UNCHANGED <<into, step, target>>
    BY <2>1 DEF Known, Unknown
  <2> QED  BY <2>2 DEF InPlace
<1>5. CASE LoadCount(t) \/ StoreCount(t) \/ RegisterHook(t)
  BY <1>5 DEF LoadCount, StoreCount, RegisterHook, InPlace
<1>6. CASE RegisterFails(t) \/ Jump(t)
  BY <1>6 DEF RegisterFails, Jump, InPlace
<1>7. CASE RecvReturns(t) \/ EnterHandlerHook(t) \/ CallOriginalHandler(t)
  BY <1>7 DEF RecvReturns, EnterHandlerHook, CallOriginalHandler, InPlace
<1> QED  BY <1>1, <1>2, <1>3, <1>4, <1>5, <1>6, <1>7 DEF Step

\* No length, and no length a thread has read, comes to more than the children that
\* were allocated before the additions going on.
LEMMA LengthStep ==
    ASSUME NEW t \in Thread, Step(t), TInv
    PROVE  LengthBounded'
<1>a. Queue = {"met", "patches"} /\ Adder = Thread
  BY HandlerAssumption
<1>t. /\ ends \in [Queue -> [first : Pointer, last : Pointer, len : 0 .. MaxChild]]
      /\ step \in [Thread -> AddSteps] /\ into \in [Thread -> Queue \cup {NoQueue}]
      /\ length \in [Thread -> 0 .. MaxChild] /\ holds \in [Queue -> Seq(Function)]
  BY <1>a DEF TInv, TypeOK, QueueTypeOK
<1>i. InPlace /\ LengthBounded
  BY DEF TInv
<1> SUFFICES ASSUME NEW k \in Queue
             PROVE  /\ IsFiniteSet(AddingTo(k)')
                    /\ Len(holds'[k]) <= MaxChild
                    /\ ends'[k].len + Cardinality(AddingTo(k)') <= Len(holds'[k])
                    /\ \A u \in AddingTo(k)' : step'[u] = "store" =>
                         length'[u] + Cardinality(AddingTo(k)') <= Len(holds'[k])
  BY DEF LengthBounded
<1>0. /\ Cardinality(AddingTo(k)) \in Nat /\ IsFiniteSet(AddingTo(k))
      /\ ends[k].len \in Nat /\ Len(holds[k]) \in Nat /\ MaxChild \in Nat
      /\ \A u \in Thread : length[u] \in Nat
  BY <1>t, <1>i, FS_CardinalityType, QueueAssumption, SMT DEF LengthBounded
<1>1. CASE UNCHANGED <<queueVars, holds>>
  BY <1>1, <1>i DEF queueVars, AddingTo, LengthBounded
<1>2. ASSUME NEW j \in Queue, StartsAdding(t, j)
      PROVE  /\ AddingTo(k)' = AddingTo(k) \cup (IF j = k THEN {t} ELSE {})
             /\ t \notin AddingTo(k) /\ ends'[k] = ends[k] /\ length' = length
             /\ Len(holds'[k]) = Len(holds[k]) + (IF j = k THEN 1 ELSE 0)
             /\ Len(holds'[k]) <= MaxChild
             /\ step'[t] # "store" /\ \A u \in AddingTo(k) : step'[u] = step[u]
  <2>1. step[t] = "out" /\ into[t] = NoQueue
    BY <1>2, <1>i DEF StartsAdding, StartAdd, AtStep, InPlace
  <2>2. holds'[k] = IF j = k THEN Append(holds[k], handler[t]) ELSE holds[k]
    BY <1>2, <1>t DEF StartsAdding
  <2>3. Len(holds'[k]) = Len(holds[k]) + (IF j = k THEN 1 ELSE 0)
    <3>1. holds[k] \in Seq(Function)
      BY <1>t
    <3>2. Len(holds[k]) \in Nat /\ \A x : Len(Append(holds[k], x)) = Len(holds[k]) + 1
      BY <3>1, AppendProperties, LenProperties
    <3>3. CASE j = k
      BY <2>2, <3>2, <3>3
    <3>4. CASE j # k
      BY <2>2, <3>2, <3>4
    <3> QED  BY <3>3, <3>4
  <2>4. Len(holds'[k]) <= MaxChild
    <3>1. j = k => Len(holds[k]) < MaxChild
      BY <1>2 DEF StartsAdding
    <3>2. Len(holds[k]) <= MaxChild
      BY <1>i DEF LengthBounded
    <3>3. CASE j = k
      BY <1>0, <2>3, <3>1, <3>3
    <3>4. CASE j # k
      BY <1>0, <2>3, <3>2, <3>4
    <3> QED  BY <3>3, <3>4
  <2>5. AddingTo(k)' = AddingTo(k) \cup (IF j = k THEN {t} ELSE {}) /\ t \notin AddingTo(k)
    BY <1>2, <1>a, <1>t, <2>1 DEF AddingTo, StartsAdding, StartAdd, NoQueue
  <2>6. /\ ends'[k] = ends[k] /\ length' = length
        /\ step'[t] # "store" /\ \A u \in AddingTo(k) : step'[u] = step[u]
    BY <1>2, <1>t, <2>1, <2>5 DEF StartsAdding, StartAdd, AtStep, AddingTo
  <2> QED  BY <2>3, <2>4, <2>5, <2>6
<1>3. ASSUME NEW j \in Queue, StartsAdding(t, j)
      PROVE  Cardinality(AddingTo(k)') = Cardinality(AddingTo(k)) + (IF j = k THEN 1 ELSE 0)
             /\ IsFiniteSet(AddingTo(k)')
  <2>1. AddingTo(k)' = AddingTo(k) \cup (IF j = k THEN {t} ELSE {}) /\ t \notin AddingTo(k)
    BY <1>2, <1>3
  <2>2. CASE j = k
    <3>1. AddingTo(k)' = AddingTo(k) \cup {t} /\ t \notin AddingTo(k)
      BY <2>1, <2>2
    <3>2. IsFiniteSet(AddingTo(k))
      BY <1>0
    <3> QED  BY <2>2, <3>1, <3>2, FS_AddElement
  <2>3. CASE j # k
    <3>1. AddingTo(k)' = AddingTo(k)
      BY <2>1, <2>3
    <3> QED  BY <1>0, <2>3, <3>1, SMT
  <2> QED  BY <2>2, <2>3
<1>4. CASE \E j \in Queue : StartsAdding(t, j)
  <2> PICK j \in Queue : StartsAdding(t, j)
    BY <1>4
  <2> DEFINE more == IF j = k THEN 1 ELSE 0
  <2>1. /\ Cardinality(AddingTo(k)') = Cardinality(AddingTo(k)) + more
        /\ Len(holds'[k]) = Len(holds[k]) + more
        /\ ends'[k].len = ends[k].len /\ more \in Nat
    BY <1>2, <1>3
  <2>2. ends'[k].len + Cardinality(AddingTo(k)') <= Len(holds'[k])
    <3>1. ends[k].len + Cardinality(AddingTo(k)) <= Len(holds[k])
      BY <1>i DEF LengthBounded
    <3> HIDE DEF more
    <3> QED  BY <1>0, <2>1, <3>1, SMT
  <2>3. ASSUME NEW u \in AddingTo(k)', step'[u] = "store"
        PROVE  length'[u] + Cardinality(AddingTo(k)') <= Len(holds'[k])
    <3>1. u \in AddingTo(k) \/ u = t
      BY <1>2, <2>3
    <3>2. u \in AddingTo(k) /\ step[u] = "store" /\ length'[u] = length[u]
      BY <1>2, <2>3, <3>1
    <3>3. length[u] + Cardinality(AddingTo(k)) <= Len(holds[k]) /\ length[u] \in Nat
      BY <1>0, <1>i, <3>2 DEF LengthBounded, AddingTo
    <3> HIDE DEF more
    <3> QED  BY <1>0, <2>1, <3>2, <3>3, SMT
  <2> QED  BY <1>2, <1>3, <2>2, <2>3
<1>5. CASE AddStep(t) /\ UNCHANGED holds
  <2> USE DEF AddStep, SetFirst, SetNext, SetPrev, SetLast, LoadLength, AtStep
  <2>1. AddingTo(k)' = AddingTo(k)
    BY <1>5 DEF AddingTo
  <2>2. ends'[k].len = ends[k].len
    <3>1. into[t] \in Queue
      BY <1>5, <1>a, <1>i, <1>t DEF InPlace
    <3>2. CASE ends' = [ends EXCEPT ![into[t]].first = child[t]]
      BY <1>t, <3>1, <3>2
    <3>3. CASE ends' = [ends EXCEPT ![into[t]].last = child[t]]
      BY <1>t, <3>1, <3>3
    <3>4. CASE UNCHANGED ends
      BY <3>4
    <3> QED  BY <1>5, <3>2, <3>3, <3>4
  <2>3. ASSUME NEW u \in AddingTo(k), step'[u] = "store"
        PROVE  length'[u] + Cardinality(AddingTo(k)) <= Len(holds[k])
    <3>1. (step[u] = "store" /\ length'[u] = length[u]) \/ length'[u] = ends[k].len
      BY <1>5, <1>t, <2>3 DEF AddingTo
    <3> QED  BY <1>i, <2>3, <3>1 DEF LengthBounded
  <2> QED  BY <1>0, <1>i, <1>5, <2>1, <2>2, <2>3 DEF LengthBounded
<1>6. CASE StoreLength(t) /\ UNCHANGED holds
  <2> USE DEF StoreLength, AtStep, Returns
  <2>1. into[t] \in Queue /\ step[t] = "store"
    BY <1>6, <1>i, <1>a, <1>t DEF InPlace
  <2>2. AddingTo(k)' = AddingTo(k) \ {t}
    BY <1>6, <1>a, <1>t DEF AddingTo, NoQueue
  <2>3. /\ IsFiniteSet(AddingTo(k)')
        /\ Cardinality(AddingTo(k)') =
             IF into[t] = k THEN Cardinality(AddingTo(k)) - 1 ELSE Cardinality(AddingTo(k))
    <3>1. IsFiniteSet(AddingTo(k)) /\ (t \in AddingTo(k) <=> into[t] = k)
      BY <1>0 DEF AddingTo
    <3>2. /\ IsFiniteSet(AddingTo(k) \ {t})
          /\ Cardinality(AddingTo(k) \ {t}) =
               IF t \in AddingTo(k) THEN Cardinality(AddingTo(k)) - 1 ELSE Cardinality(AddingTo(k))
      BY <3>1, FS_RemoveElement
    <3> QED  BY <2>2, <3>1, <3>2
  <2>4. ends'[k].len = IF into[t] = k THEN length[t] + 1 ELSE ends[k].len
    BY <1>6, <1>t, <2>1
  <2>5. \A u \in AddingTo(k)' : u \in AddingTo(k) /\ u # t /\ length'[u] = length[u]
                                /\ step'[u] = step[u]
    BY <1>6, <1>t, <2>2 DEF AddingTo
  <2>6. ends'[k].len + Cardinality(AddingTo(k)') <= Len(holds[k])
    <3>1. ends[k].len + Cardinality(AddingTo(k)) <= Len(holds[k])
      BY <1>i DEF LengthBounded
    <3>2. into[t] = k => length[t] + Cardinality(AddingTo(k)) <= Len(holds[k])
      BY <1>i, <2>1 DEF LengthBounded, AddingTo
    <3>3. length[t] \in Nat
      BY <1>0
    <3> QED  BY <1>0, <2>3, <2>4, <3>1, <3>2, <3>3, SMT
  <2>7. ASSUME NEW u \in AddingTo(k)', step'[u] = "store"
        PROVE  length'[u] + Cardinality(AddingTo(k)') <= Len(holds[k])
    <3>1. length[u] + Cardinality(AddingTo(k)) <= Len(holds[k]) /\ length[u] \in Nat
      BY <1>0, <1>i, <2>5, <2>7 DEF LengthBounded, AddingTo
    <3>2. length'[u] = length[u]
      BY <2>5
    <3> QED  BY <1>0, <2>3, <3>1, <3>2, SMT
  <2> QED  BY <1>0, <1>i, <1>6, <2>3, <2>6, <2>7 DEF LengthBounded
<1> QED  BY <1>1, <1>4, <1>5, <1>6, QueueSteps

\* The counter, and every count a thread has read, stays below the handlers met.
LEMMA CountStep ==
    ASSUME NEW t \in Thread, Step(t), TInv
    PROVE  CountBounded'
<1> USE DEF TInv, TypeOK, QueueTypeOK
<1> DEFINE n == Len(holds["met"])
           a == Cardinality(Counting)
<1>0. /\ a \in Nat /\ IsFiniteSet(Counting) /\ handlersHooked \in Nat /\ n \in Nat
      /\ \A u \in Thread : number[u] \in Nat
      /\ handlersHooked + a <= n
      /\ \A u \in Thread : pc[u] = "store" => number[u] + a <= n
  BY FS_CardinalityType, HandlerAssumption, QueueAssumption, SMT DEF CountBounded
<1>n. n' \in Nat /\ n' >= n
  <2>1. CASE UNCHANGED holds
    BY <1>0, <2>1, SMT
  <2>2. ASSUME NEW k \in Queue, StartsAdding(t, k) PROVE n' \in Nat /\ n' >= n
    <3>1. holds'["met"] = holds["met"] \/ holds'["met"] = Append(holds["met"], handler[t])
      BY <2>2, HandlerAssumption DEF StartsAdding
    <3>2. holds["met"] \in Seq(Function)
      BY HandlerAssumption
    <3> QED  BY <3>1, <3>2, SMT
  <2> QED  BY <2>1, <2>2, QueueSteps
<1>1. CASE AddMet(t)
  <2>1. n' = n + 1
    <3>1. holds'["met"] = Append(holds["met"], handler[t])
      BY <1>1, HandlerAssumption DEF AddMet, StartsAdding
    <3>2. holds["met"] \in Seq(Function)
      BY HandlerAssumption
    <3> QED  BY <3>1, <3>2, SMT
  <2>2. Counting' = Counting \cup {t} /\ t \notin Counting
    BY <1>1 DEF AddMet, At, Counting
  <2>3. IsFiniteSet(Counting') /\ Cardinality(Counting') = a + 1
    BY <1>0, <2>2, FS_AddElement
  <2>4. UNCHANGED <<handlersHooked, number>> /\ \A u \in Thread : pc'[u] = "store" => pc[u] = "store"
    BY <1>1 DEF AddMet, At
  <2> HIDE DEF n, a
  <2> QED  BY <1>0, <2>1, <2>3, <2>4, SMT DEF CountBounded, n, a
<1>2. CASE LoadCount(t)
  <2>1. Counting' = Counting
    BY <1>2 DEF LoadCount, At, Counting
  <2>2. \A u \in Thread : pc'[u] = "store" => number'[u] = handlersHooked
                                              \/ (pc[u] = "store" /\ number'[u] = number[u])
    BY <1>2 DEF LoadCount, At
  <2>3. UNCHANGED <<handlersHooked, holds>>
    BY <1>2 DEF LoadCount
  <2> QED  BY <1>0, <2>1, <2>2, <2>3 DEF CountBounded
<1>3. CASE StoreCount(t)
  <2>1. Counting' = Counting \ {t} /\ t \in Counting
    BY <1>3 DEF StoreCount, At, Counting
  <2>2. IsFiniteSet(Counting') /\ Cardinality(Counting') = a - 1 /\ a # 0
    BY <1>0, <2>1, FS_RemoveElement, FS_EmptySet
  <2>3. /\ handlersHooked' = number[t] + 1 /\ pc[t] = "store" /\ UNCHANGED <<number, holds>>
        /\ \A u \in Thread : pc'[u] = "store" => pc[u] = "store"
    BY <1>3 DEF StoreCount, At
  <2> HIDE DEF n, a
  <2>4. handlersHooked' + (a - 1) <= n
    BY <1>0, <2>3, SMT
  <2>5. \A u \in Thread : pc'[u] = "store" => number'[u] + (a - 1) <= n
    BY <1>0, <2>3, SMT
  <2> QED  BY <2>2, <2>3, <2>4, <2>5 DEF CountBounded, n, a
<1>4. CASE ~ (AddMet(t) \/ LoadCount(t) \/ StoreCount(t))
  <2>1. Counting' = Counting /\ handlersHooked' = handlersHooked
        /\ \A u \in Thread : pc'[u] = "store" => pc[u] = "store" /\ number'[u] = number[u]
    BY <1>4 DEF Step, At, Counting,
         Known, Unknown, Adding, MetAdded, Alloc, Queued, RegisterHook,
         RegisterFails, Jump, RecvReturns, EnterHandlerHook, CallOriginalHandler
  <2> HIDE DEF n, a
  <2> QED  BY <1>0, <1>n, <2>1, SMT DEF CountBounded, n, a
<1> QED  BY <1>1, <1>2, <1>3, <1>4

\* Every variable keeps its type.
LEMMA TypeStep ==
    ASSUME NEW t \in Thread, Step(t), TInv, LengthBounded', CountBounded'
    PROVE  TypeOK'
<1>a. Queue = {"met", "patches"} /\ Adder = Thread /\ MaxChild \in Nat /\ Handler \subseteq Function
  BY HandlerAssumption, QueueAssumption
<1>i. InPlace /\ LengthBounded /\ CountBounded /\ TypeOK /\ QueueTypeOK /\ NtTypeOK
  BY DEF TInv, TypeOK
<1>h. \A k \in Queue : Len(holds[k]) \in 0 .. MaxChild
  BY <1>i, SMT DEF LengthBounded, TypeOK
<1>k. \A k \in Queue : /\ IsFiniteSet({u \in Thread : into'[u] = k})
                       /\ Len(holds'[k]) <= MaxChild
                       /\ ends'[k].len + Cardinality({u \in Thread : into'[u] = k}) <= Len(holds'[k])
  BY DEF LengthBounded, AddingTo
<1>1. holds' \in [Queue -> Seq(Function)]
  <2>1. CASE UNCHANGED holds
    BY <1>i, <2>1 DEF TypeOK
  <2>2. ASSUME NEW k \in Queue, StartsAdding(t, k), pc[t] = IF k = "met" THEN "add" ELSE "alloc"
        PROVE  holds' \in [Queue -> Seq(Function)]
    <3>1. handler[t] \in Function
      BY <2>2, <1>i, <1>a DEF InPlace
    <3>2. Append(holds[k], handler[t]) \in Seq(Function)
      BY <3>1, <1>i, AppendProperties DEF TypeOK
    <3> QED  BY <2>2, <3>2, <1>i DEF StartsAdding, TypeOK
  <2> QED  BY <2>1, <2>2, QueueSteps
<1>2. QueueTypeOK'
  <2>t. QueueTypeOK
    BY <1>i
  <2>1. CASE UNCHANGED queueVars
    BY <2>1, <2>t DEF queueVars, QueueTypeOK
  <2>2. ASSUME NEW k \in Queue, StartsAdding(t, k) PROVE QueueTypeOK'
    <3>1. Len(holds[k]) + 1 \in Child
      BY <2>2, <1>a, <1>h, SMT DEF StartsAdding, Child
    <3>2. step' \in [Thread -> AddSteps]
      BY <2>2, <2>t, <1>a DEF QueueTypeOK, StartsAdding, StartAdd, AtStep, AddSteps
    <3> QED  BY <2>2, <2>t, <3>1, <3>2, <1>a DEF QueueTypeOK, StartsAdding, StartAdd, Pointer
  <2>3. CASE AddStep(t)
    <3>1. into[t] \in Queue
      BY <2>3, <1>i, <1>a DEF InPlace, AddStep, SetFirst, SetNext, SetPrev, SetLast, LoadLength, AtStep
    <3>2. step' \in [Thread -> AddSteps] /\ child[t] \in Pointer /\ ends[into[t]].last \in Pointer
          /\ ends[into[t]].len \in 0 .. MaxChild
      BY <2>3, <2>t, <3>1, <1>a DEF QueueTypeOK, AddStep, SetFirst, SetNext, SetPrev, SetLast,
         LoadLength, AtStep, AddSteps
    <3>3. CASE SetFirst(t)
      BY <2>t, <3>1, <3>2, <3>3, <1>a DEF QueueTypeOK, SetFirst
    <3>4. CASE SetNext(t)
      BY <2>t, <3>1, <3>2, <3>4, <1>a DEF QueueTypeOK, SetNext
    <3>5. CASE SetPrev(t)
      BY <2>t, <3>1, <3>2, <3>5, <1>a DEF QueueTypeOK, SetPrev
    <3>6. CASE SetLast(t)
      BY <2>t, <3>1, <3>2, <3>6, <1>a DEF QueueTypeOK, SetLast
    <3>7. CASE LoadLength(t)
      BY <2>t, <3>1, <3>2, <3>7, <1>a DEF QueueTypeOK, LoadLength
    <3> QED  BY <2>3, <3>3, <3>4, <3>5, <3>6, <3>7 DEF AddStep
  <2>4. CASE StoreLength(t)
    <3>1. into[t] \in Queue
      BY <2>4, <1>i, <1>a DEF InPlace, StoreLength, AtStep
    <3>2. ends'[into[t]].len = length[t] + 1
      BY <2>4, <2>t, <3>1 DEF StoreLength, QueueTypeOK
    <3>3. length[t] + 1 \in 0 .. MaxChild
      <4> DEFINE Others == {u \in Thread : into'[u] = into[t]}
      <4>1. /\ Cardinality(Others) \in Nat /\ Len(holds'[into[t]]) \in Nat
            /\ Len(holds'[into[t]]) <= MaxChild /\ length[t] \in Nat
            /\ length[t] + 1 + Cardinality(Others) <= Len(holds'[into[t]])
        <5>1. /\ IsFiniteSet(Others) /\ Len(holds'[into[t]]) <= MaxChild
              /\ ends'[into[t]].len + Cardinality(Others) <= Len(holds'[into[t]])
          BY <1>k, <3>1
        <5>2. Cardinality(Others) \in Nat
          BY <5>1, FS_CardinalityType
        <5>3. holds'[into[t]] \in Seq(Function)
          BY <1>1, <3>1
        <5>4. Len(holds'[into[t]]) \in Nat
          BY <5>3, LenProperties
        <5>5. length[t] \in Nat
          BY <2>t, <1>a, SMT DEF QueueTypeOK
        <5> QED  BY <5>1, <5>2, <5>4, <5>5, <3>2
      <4> QED  BY <4>1, <1>a, SMT
    <3>4. step' \in [Thread -> AddSteps]
      BY <2>4, <2>t, <1>a DEF QueueTypeOK, StoreLength, AtStep, AddSteps
    <3>5. ends' \in [Queue -> [first : Pointer, last : Pointer, len : 0 .. MaxChild]]
      BY <2>4, <2>t, <3>1, <3>3 DEF QueueTypeOK, StoreLength
    <3>6. 0 \in 0 .. MaxChild /\ Nil \in Pointer
      BY <1>a, SMT DEF Pointer
    <3> QED  BY <2>4, <2>t, <3>4, <3>5, <3>6, <1>a DEF QueueTypeOK, StoreLength, Returns
  <2> QED  BY <2>1, <2>2, <2>3, <2>4, QueueSteps
<1>3. NtTypeOK'
  <2>n. \A u \in Thread : number[u] \in Nat
    BY <1>i, <1>a, SMT DEF TypeOK
  <2>1. CASE RegisterHook(t)
    <3>1. handler[t] \in Function /\ HookNumber(number[t]) \in HookAddr
      BY <2>1, <2>n, <1>i, <1>a, HookNumberType DEF InPlace, RegisterHook, At
    <3>2. [function |-> handler[t], hook |-> HookNumber(number[t])] \in Entry
      BY <3>1 DEF Entry
    <3>3. table' \in Seq(Entry)
      BY <2>1, <3>2, <1>i, AppendProperties DEF RegisterHook, Register, NtTypeOK
    <3> QED  BY <2>1, <3>3, <1>i DEF NtTypeOK, RegisterHook
  <2>2. CASE Jump(t)
    <3>1. HookNumber(number[t]) \in CodeState
      BY <2>n, HookNumberType DEF CodeState
    <3> QED  BY <2>2, <3>1, <1>i DEF NtTypeOK, Jump, WriteJump
  <2>3. CASE ~ (RegisterHook(t) \/ Jump(t))
    <3>1. UNCHANGED ntVars
      BY <2>3 DEF Step, Known, Unknown, AddMet, Adding, MetAdded, LoadCount, StoreCount, Alloc,
         Queued, RegisterFails, RecvReturns, EnterHandlerHook, CallOriginalHandler
    <3> QED  BY <3>1, <1>i DEF NtTypeOK, ntVars
  <2> QED  BY <2>1, <2>2, <2>3
<1>4. /\ handlersHooked' \in 0 .. MaxChild /\ countRaced' \in BOOLEAN
      /\ number' \in [Thread -> 0 .. MaxChild]
  <2>t. /\ handlersHooked \in 0 .. MaxChild /\ number \in [Thread -> 0 .. MaxChild]
        /\ 0 \in 0 .. MaxChild /\ countRaced \in BOOLEAN
    BY <1>i, <1>a DEF TypeOK
  <2>1. CASE StoreCount(t)
    <3>1. /\ Cardinality(Counting') \in Nat /\ Len(holds'["met"]) \in Nat
          /\ Len(holds'["met"]) <= MaxChild
          /\ handlersHooked' + Cardinality(Counting') <= Len(holds'["met"])
      BY <1>1, <1>a, <1>k, FS_CardinalityType, SMT DEF CountBounded
    <3>2. handlersHooked' \in Nat
      BY <2>1, <2>t DEF StoreCount
    <3>3. handlersHooked' \in 0 .. MaxChild
      BY <1>a, <3>1, <3>2, SMT
    <3> QED  BY <2>1, <2>t, <3>3 DEF StoreCount
  <2>2. CASE LoadCount(t) \/ RegisterFails(t) \/ Jump(t)
    BY <2>2, <2>t DEF LoadCount, RegisterFails, Jump
  <2>3. CASE ~ (StoreCount(t) \/ LoadCount(t) \/ RegisterFails(t) \/ Jump(t))
    <3>1. UNCHANGED <<handlersHooked, countRaced, number>>
      BY <2>3 DEF Step, Known, Unknown, AddMet, Adding, MetAdded, Alloc, Queued, RegisterHook,
         RecvReturns, EnterHandlerHook, CallOriginalHandler
    <3> QED  BY <3>1, <2>t
  <2> QED  BY <2>1, <2>2, <2>3
<1>5. /\ pc' \in [Thread -> Steps]
      /\ handler' \in [Thread -> Handler \cup {NoFunction}]
      /\ target' \in [Thread -> Function \cup {NoFunction}]
      /\ UNCHANGED crash
  <2>t. /\ pc \in [Thread -> Steps] /\ handler \in [Thread -> Handler \cup {NoFunction}]
        /\ target \in [Thread -> Function \cup {NoFunction}]
    BY <1>i DEF TypeOK
  <2>1. CASE \E f \in Handler : Known(t, f) \/ Unknown(t, f)
    BY <2>1, <2>t DEF Known, Unknown, At, Steps, Hooking
  <2>2. CASE RecvReturns(t) \/ CallOriginalHandler(t)
    BY <2>2, <2>t DEF RecvReturns, CallOriginalHandler, At, Steps, Hooking
  <2>3. CASE EnterHandlerHook(t)
    <3>1. GetOriginalFunction(code[handler[t]]) \in Function \cup {NoFunction}
      BY <1>i, LookUpFacts DEF Entry
    <3> QED  BY <2>3, <2>t, <3>1 DEF EnterHandlerHook, At, Steps, Hooking
  <2>4. CASE AddMet(t) \/ Adding(t) \/ MetAdded(t) \/ LoadCount(t) \/ StoreCount(t) \/ Alloc(t)
    BY <2>4, <2>t DEF AddMet, Adding, MetAdded, LoadCount, StoreCount, Alloc, At, Steps, Hooking
  <2>5. CASE Queued(t) \/ RegisterHook(t) \/ RegisterFails(t) \/ Jump(t)
    BY <2>5, <2>t DEF Queued, RegisterHook, RegisterFails, Jump, At, Steps, Hooking
  <2> QED  BY <2>1, <2>2, <2>3, <2>4, <2>5 DEF Step
<1> QED  BY <1>i, <1>1, <1>2, <1>3, <1>4, <1>5 DEF TypeOK

\* Every variable of PacketHandlers keeps its type, and no counter comes to more than
\* the children that were allocated, however the threads interleave.
THEOREM TypeCorrect == Spec => [](TypeOK /\ TInv)
<1>1. Init => TInv
  <2> SUFFICES ASSUME Init PROVE TInv
    OBVIOUS
  <2>a. Queue = {"met", "patches"} /\ Adder = Thread /\ MaxChild \in Nat /\ MaxChild >= 1
        /\ Recv \in Function /\ RecvHook \in HookAddr
    BY HandlerAssumption, QueueAssumption, SMT
  <2>0. <<>> \in Seq(Function) /\ Len(<<>>) = 0 /\ <<Recv>> \in Seq(Function) /\ Len(<<Recv>>) = 1
    BY <2>a, SMT
  <2>1. NtTypeOK
    <3>1. [function |-> Recv, hook |-> RecvHook] \in Entry
      BY <2>a DEF Entry
    <3>2. table \in Seq(Entry)
      BY <3>1, SMT DEF Init
    <3> QED  BY <2>a, <3>2 DEF Init, NtTypeOK, CodeState
  <2>2. holds \in [Queue -> Seq(Function)] /\ Len(holds["met"]) = 0 /\ Len(holds["patches"]) = 1
    BY <2>a, <2>0 DEF Init
  <2>3. QueueTypeOK
    <3>1. 0 \in Pointer /\ 1 \in Pointer /\ 0 \in 0 .. MaxChild /\ 1 \in 0 .. MaxChild
      BY <2>a, SMT DEF Pointer, Child, Nil
    <3>2. \A k \in Queue : Len(holds[k]) \in Pointer
      BY <2>a, <2>2, <3>1
    <3>3. ends \in [Queue -> [first : Pointer, last : Pointer, len : 0 .. MaxChild]]
      BY <3>1, <3>2 DEF Init, QueueInit
    <3> QED  BY <2>a, <3>1, <3>3 DEF Init, QueueInit, QueueTypeOK, AddSteps, Pointer
  <2>4. TypeOK
    <3>1. 0 \in 0 .. MaxChild
      BY <2>a, SMT
    <3> QED  BY <2>1, <2>2, <2>3, <3>1 DEF Init, TypeOK, Steps
  <2>5. InPlace
    BY <2>a DEF Init, QueueInit, InPlace, NoQueue
  <2>6. AddingTo("met") = {} /\ AddingTo("patches") = {} /\ Counting = {}
    BY <2>a DEF Init, QueueInit, AddingTo, Counting, NoQueue
  <2>7. IsFiniteSet({}) /\ Cardinality({}) = 0
    BY FS_EmptySet
  <2>8. ends["met"].len = 0 /\ ends["patches"].len = 1
    BY <2>a, <2>2 DEF Init, QueueInit, Nil
  <2>9. LengthBounded
    <3> SUFFICES ASSUME NEW k \in Queue
                 PROVE  /\ IsFiniteSet(AddingTo(k)) /\ Len(holds[k]) <= MaxChild
                        /\ ends[k].len + Cardinality(AddingTo(k)) <= Len(holds[k])
                        /\ AddingTo(k) = {}
      BY DEF LengthBounded
    <3>1. AddingTo(k) = {} /\ IsFiniteSet(AddingTo(k)) /\ Cardinality(AddingTo(k)) = 0
      BY <2>a, <2>6, <2>7
    <3> DEFINE l == Len(holds[k])
               e == ends[k].len
               c == Cardinality(AddingTo(k))
    <3>2. (l = 0 /\ e = 0) \/ (l = 1 /\ e = 1)
      BY <2>a, <2>2, <2>8
    <3>3. c = 0
      BY <3>1
    <3>4. l <= MaxChild /\ e + c <= l
      <4> HIDE DEF l, e, c
      <4> QED  BY <2>a, <3>2, <3>3
    <3> QED  BY <3>1, <3>4
  <2>10. CountBounded
    BY <2>2, <2>6, <2>7 DEF CountBounded, Init
  <2> QED  BY <2>4, <2>5, <2>9, <2>10 DEF TInv
<1>2. TInv /\ [Next]_vars => TInv'
  <2> SUFFICES ASSUME TInv, [Next]_vars PROVE TInv'
    OBVIOUS
  <2>1. ASSUME NEW t \in Thread, Step(t) PROVE TInv'
    <3>1. InPlace' /\ LengthBounded' /\ CountBounded'
      BY <2>1, InPlaceStep, LengthStep, CountStep
    <3> QED  BY <2>1, <3>1, TypeStep DEF TInv
  <2>2. CASE UNCHANGED allButCrash /\ crash' \in {crash, "null_handler", "null_call"}
    <3>1. TypeOK'
      BY <2>2 DEF TInv, TypeOK, NtTypeOK, QueueTypeOK, allButCrash, queueVars
    <3>2. InPlace' /\ LengthBounded' /\ CountBounded'
      BY <2>2 DEF TInv, allButCrash, queueVars, InPlace, LengthBounded, CountBounded, AddingTo, Counting
    <3> QED  BY <3>1, <3>2 DEF TInv
  <2> QED  BY <2>1, <2>2, Steps1
<1> QED  BY <1>1, <1>2, PTL DEF Spec, TInv

-------------------------------------------------------------------------------
(* The hooks of the handlers.                                                    *)

\* The facts about types that the proofs below need.
LEMMA Facts ==
    ASSUME TInv
    PROVE  /\ Queue = {"met", "patches"} /\ Adder = Thread /\ MaxChild \in Nat
           /\ Handler \subseteq Function /\ Recv \notin Handler /\ Recv \in Function
           /\ NoFunction \notin Function /\ Original \notin HookAddr
           /\ Declared \in Seq(HookAddr) /\ Len(Declared) \in Nat
           /\ handlersHooked \in Nat /\ number \in [Thread -> Nat]
           /\ pc \in [Thread -> Steps]
           /\ handler \in [Thread -> Handler \cup {NoFunction}]
           /\ target \in [Thread -> Function \cup {NoFunction}]
           /\ table \in Seq(Entry) /\ code \in [Function -> CodeState]
           /\ Len(table) \in Nat /\ DOMAIN table = 1 .. Len(table)
           /\ \A k \in Queue : holds[k] \in Seq(Function) /\ Len(holds[k]) \in Nat
<1>1. NtTypeOK /\ TypeOK
  BY DEF TInv, TypeOK
<1>2. number \in [Thread -> Nat] /\ handlersHooked \in Nat
  BY <1>1, QueueAssumption, SMT DEF TypeOK
<1>3. Declared \in Seq(HookAddr) /\ table \in Seq(Entry)
  BY <1>1, HandlerAssumption DEF NtTypeOK
<1>4. \A k \in Queue : holds[k] \in Seq(Function)
  BY <1>1 DEF TypeOK
<1> QED  BY <1>1, <1>2, <1>3, <1>4, HandlerAssumption, QueueAssumption, CodeAssumption, LenProperties
         DEF TypeOK, NtTypeOK

\* No two numbers are given one declared hook, and none of them is NULL or Recv's.
LEMMA HookNumberFacts ==
    /\ \A n, m \in Nat : m < Len(Declared) /\ HookNumber(n) = Declared[m + 1] => n = m
    /\ \A m \in Nat : m < Len(Declared) => /\ HookNumber(m) = Declared[m + 1]
                                           /\ Declared[m + 1] \in HookAddr \ {RecvHook, NullHook}
<1>1. Len(Declared) \in Nat /\ DOMAIN Declared = 1 .. Len(Declared) /\ Declared \in Seq(HookAddr)
  BY HandlerAssumption, LenProperties
<1>2. \A m \in Nat : m < Len(Declared) => /\ HookNumber(m) = Declared[m + 1]
                                          /\ m + 1 \in DOMAIN Declared
                                          /\ Declared[m + 1] \in HookAddr \ {RecvHook, NullHook}
  <2> TAKE m \in Nat
  <2> HAVE m < Len(Declared)
  <2>1. m + 1 \in DOMAIN Declared
    BY <1>1, SMT
  <2>2. Declared[m + 1] \notin {RecvHook, NullHook}
    BY <2>1, HandlerAssumption
  <2>3. Declared[m + 1] \in HookAddr
    BY <1>1, <2>1, ElementOfSeq
  <2> QED  BY <2>1, <2>2, <2>3 DEF HookNumber
<1>3. ASSUME NEW n \in Nat, NEW m \in Nat, m < Len(Declared), HookNumber(n) = Declared[m + 1]
      PROVE  n = m
  <2>1. n < Len(Declared)
    BY <1>2, <1>3 DEF HookNumber
  <2>2. n + 1 = m + 1
    BY <1>2, <1>3, <2>1, HandlerAssumption
  <2> QED  BY <2>2, SMT
<1> QED  BY <1>2, <1>3

\* A step leaves the table as it is or appends the entry of its thread's handler, which
\* was not in it.
LEMMA TableSteps ==
    ASSUME NEW t \in Thread, Step(t), TInv
    PROVE  \/ table' = table
           \/ /\ RegisterHook(t) /\ ~ Registered(handler[t])
              /\ Len(table') = Len(table) + 1 /\ DOMAIN table' = 1 .. (Len(table) + 1)
              /\ \A i \in DOMAIN table : i \in DOMAIN table' /\ table'[i] = table[i]
              /\ table'[Len(table) + 1] =
                   [function |-> handler[t], hook |-> HookNumber(number[t])]
<1>1. CASE RegisterHook(t)
  <2>1. CASE UNCHANGED table
    BY <2>1
  <2>2. CASE Register(handler[t], HookNumber(number[t]))
    <3>1. handler[t] \in Function /\ HookNumber(number[t]) \in HookAddr
      BY <1>1, Facts, HookNumberType DEF InPlace, TInv, RegisterHook, At
    <3>2. [function |-> handler[t], hook |-> HookNumber(number[t])] \in Entry
      BY <3>1 DEF Entry
    <3> DEFINE e == [function |-> handler[t], hook |-> HookNumber(number[t])]
    <3>3. table \in Seq(Entry) /\ e \in Entry /\ table' = Append(table, e)
      BY <2>2, <3>2, Facts DEF Register
    <3> HIDE DEF e
    <3>4. /\ Len(table') = Len(table) + 1 /\ DOMAIN table' = 1 .. (Len(table) + 1)
          /\ \A i \in 1 .. Len(table) : i \in DOMAIN table' /\ table'[i] = table[i]
          /\ table'[Len(table) + 1] = e
      BY <3>3, SMT
    <3> QED  BY <1>1, <2>2, <3>4, Facts DEF Register, e
  <2> QED  BY <1>1, <2>1, <2>2 DEF RegisterHook
<1>2. CASE ~ RegisterHook(t)
  BY <1>2 DEF Step, Known, Unknown, AddMet, Adding, MetAdded, LoadCount, StoreCount, Alloc,
     Queued, RegisterFails, RecvReturns, EnterHandlerHook, CallOriginalHandler, ntVars, Jump
<1> QED  BY <1>1, <1>2

\* No step but the count's store gives a number to a handler.
LEMMA UsesStep ==
    ASSUME NEW t \in Thread, Step(t), TInv, ~ StoreCount(t),
           NEW f \in Function, NEW n \in Nat, Uses(f, n)'
    PROVE  Uses(f, n)
<1>o. \A u \in Thread \ {t} :
         pc'[u] = pc[u] /\ handler'[u] = handler[u] /\ number'[u] = number[u]
  BY OthersStay DEF TInv
<1>1. CASE \E u \in Thread : pc'[u] \in Numbered /\ handler'[u] = f /\ number'[u] = n
  <2>1. PICK u \in Thread : pc'[u] \in Numbered /\ handler'[u] = f /\ number'[u] = n
    BY <1>1
  <2>2. CASE u # t
    BY <1>o, <2>1, <2>2 DEF Uses
  <2>3. ASSUME pc'[t] \in Numbered
        PROVE  pc[t] \in Numbered /\ handler'[t] = handler[t] /\ number'[t] = number[t]
    <3> USE Facts
    <3>1. CASE \E g \in Handler : Known(t, g) \/ Unknown(t, g)
      BY <3>1, <2>3 DEF Known, Unknown, At, Numbered
    <3>2. CASE LoadCount(t) \/ RecvReturns(t) \/ EnterHandlerHook(t) \/ CallOriginalHandler(t)
               \/ RegisterFails(t) \/ Jump(t) \/ AddMet(t) \/ MetAdded(t)
      BY <3>2, <2>3 DEF LoadCount, RecvReturns, EnterHandlerHook, CallOriginalHandler,
         RegisterFails, Jump, AddMet, MetAdded, At, Numbered
    <3>3. CASE Adding(t) \/ Alloc(t) \/ Queued(t) \/ RegisterHook(t)
      BY <3>3, <2>3 DEF Adding, Alloc, Queued, RegisterHook, At, Numbered
    <3> QED  BY <3>1, <3>2, <3>3 DEF Step
  <2> QED  BY <2>1, <2>2, <2>3 DEF Uses
<1>2. CASE n < Len(Declared) /\ \E i \in DOMAIN table' :
                                  table'[i] = [function |-> f, hook |-> Declared[n + 1]]
  <2>1. CASE table' = table
    BY <1>2, <2>1 DEF Uses
  <2>2. CASE table' # table
    <3>1. PICK i \in DOMAIN table' : table'[i] = [function |-> f, hook |-> Declared[n + 1]]
      BY <1>2
    <3>t. /\ RegisterHook(t) /\ DOMAIN table' = 1 .. (Len(table) + 1)
          /\ \A j \in DOMAIN table : table'[j] = table[j]
          /\ table'[Len(table) + 1] = [function |-> handler[t], hook |-> HookNumber(number[t])]
      BY <2>2, TableSteps
    <3>2. CASE i \in DOMAIN table
      BY <1>2, <3>1, <3>2, <3>t DEF Uses
    <3>3. CASE i \notin DOMAIN table
      <4>1. i = Len(table) + 1
        <5>1. i \in 1 .. (Len(table) + 1) /\ i \notin 1 .. Len(table) /\ Len(table) \in Nat
          BY <3>1, <3>3, <3>t, Facts
        <5> QED  BY <5>1, SMT
      <4>2. handler[t] = f /\ HookNumber(number[t]) = Declared[n + 1] /\ pc[t] = "register"
        BY <3>1, <3>t, <4>1 DEF RegisterHook, At
      <4>3. number[t] = n
        BY <1>2, <4>2, HookNumberFacts, Facts
      <4> QED  BY <4>2, <4>3 DEF Uses, Numbered
    <3> QED  BY <3>2, <3>3
  <2> QED  BY <2>1, <2>2
<1>3. CASE n < Len(Declared) /\ code'[f] = Declared[n + 1]
  <2>1. CASE Jump(t) /\ handler[t] = f
    <3>1. HookNumber(number[t]) = Declared[n + 1] /\ pc[t] = "jump"
      BY <1>3, <2>1, Facts DEF Jump, WriteJump, At
    <3>2. number[t] = n
      BY <1>3, <3>1, HookNumberFacts, Facts
    <3> QED  BY <2>1, <3>1, <3>2 DEF Uses, Numbered
  <2>2. CASE ~ (Jump(t) /\ handler[t] = f)
    <3>1. code'[f] = code[f]
      BY <2>2, Facts DEF Step, Known, Unknown, AddMet, Adding, MetAdded, LoadCount, StoreCount,
         Alloc, Queued, RegisterHook, RegisterFails, Jump, WriteJump, RecvReturns,
         EnterHandlerHook, CallOriginalHandler, ntVars
    <3> QED  BY <1>3, <3>1 DEF Uses
  <2> QED  BY <2>1, <2>2
<1> QED  BY <1>1, <1>2, <1>3 DEF Uses

\* What a queue's children hold stays as it is, and a child more is allocated for the
\* handler of the thread that adds it.
LEMMA HoldsSteps ==
    ASSUME NEW t \in Thread, Step(t), TInv, NEW k \in Queue
    PROVE  \/ holds'[k] = holds[k]
           \/ /\ StartsAdding(t, k) /\ pc[t] = (IF k = "met" THEN "add" ELSE "alloc")
              /\ handler[t] \in Handler /\ holds[k] \in Seq(Function)
              /\ holds'[k] = Append(holds[k], handler[t])
              /\ Len(holds'[k]) = Len(holds[k]) + 1
              /\ \A c \in 1 .. Len(holds[k]) : holds'[k][c] = holds[k][c]
              /\ holds'[k][Len(holds[k]) + 1] = handler[t]
<1>1. CASE UNCHANGED holds
  BY <1>1
<1>2. CASE \E j \in Queue : /\ StartsAdding(t, j)
                            /\ pc[t] = IF j = "met" THEN "add" ELSE "alloc"
  <2> PICK j \in Queue : StartsAdding(t, j) /\ pc[t] = (IF j = "met" THEN "add" ELSE "alloc")
    BY <1>2
  <2>1. CASE j # k
    BY <2>1, Facts DEF StartsAdding, TInv, TypeOK
  <2>2. CASE j = k
    <3>1. handler[t] \in Handler /\ handler[t] \in Function /\ holds[k] \in Seq(Function)
      BY Facts DEF TInv, InPlace
    <3>2. holds'[k] = Append(holds[k], handler[t])
      BY <2>2 DEF StartsAdding, TInv, TypeOK
    <3>3. /\ Len(holds'[k]) = Len(holds[k]) + 1
          /\ \A c \in 1 .. Len(holds[k]) : holds'[k][c] = holds[k][c]
          /\ holds'[k][Len(holds[k]) + 1] = handler[t]
      BY <3>1, <3>2, AppendProperties
    <3> QED  BY <2>2, <3>1, <3>2, <3>3
  <2> QED  BY <2>1, <2>2
<1> QED  BY <1>1, <1>2, QueueSteps

\* So the handlers met only grow in number.
LEMMA MetGrows ==
    ASSUME NEW t \in Thread, Step(t), TInv
    PROVE  Len(holds'["met"]) \in Nat /\ Len(holds'["met"]) >= Len(holds["met"])
<1>1. Len(holds["met"]) \in Nat
  BY Facts
<1>2. Len(holds'["met"]) = Len(holds["met"]) \/ Len(holds'["met"]) = Len(holds["met"]) + 1
  BY HoldsSteps, Facts
<1> QED  BY <1>1, <1>2, SMT

\* CodeGiven is inductive: a thread takes the hook of a number below the handlers met.
LEMMA CodeGivenStep ==
    ASSUME NEW t \in Thread, Step(t), TInv, CodeGiven
    PROVE  CodeGiven'
<1>m. /\ Len(holds'["met"]) \in Nat /\ Len(holds["met"]) \in Nat /\ Len(Declared) \in Nat
      /\ Len(holds'["met"]) >= Len(holds["met"])
  BY MetGrows, Facts
<1>1. ASSUME NEW f \in Handler
      PROVE  \/ code'[f] = Original
             \/ code'[f] = NullHook /\ Len(holds'["met"]) > Len(Declared)
             \/ \E n \in 0 .. (Len(Declared) - 1) : code'[f] = Declared[n + 1]
  <2>1. CASE Jump(t) /\ handler[t] = f
    <3>1. code'[f] = HookNumber(number[t]) /\ pc[t] = "jump"
      BY <2>1, Facts DEF Jump, WriteJump, At
    <3>2. number[t] \in Nat /\ number[t] < Len(holds["met"])
      BY <3>1, Facts DEF CodeGiven, Numbered
    <3>3. CASE number[t] < Len(Declared)
      <4>1. number[t] \in 0 .. (Len(Declared) - 1)
        BY <1>m, <3>2, <3>3, SMT
      <4> QED  BY <3>1, <3>3, <4>1 DEF HookNumber
    <3>4. CASE ~ (number[t] < Len(Declared))
      <4>1. Len(holds'["met"]) > Len(Declared)
        BY <1>m, <3>2, <3>4, SMT
      <4> QED  BY <3>1, <3>4, <4>1 DEF HookNumber
    <3> QED  BY <3>3, <3>4
  <2>2. CASE ~ (Jump(t) /\ handler[t] = f)
    <3>1. code'[f] = code[f]
      BY <2>2, Facts DEF Step, Known, Unknown, AddMet, Adding, MetAdded, LoadCount, StoreCount,
         Alloc, Queued, RegisterHook, RegisterFails, Jump, WriteJump, RecvReturns,
         EnterHandlerHook, CallOriginalHandler, ntVars
    <3>2. Len(holds["met"]) > Len(Declared) => Len(holds'["met"]) > Len(Declared)
      BY <1>m, SMT
    <3> QED  BY <3>1, <3>2 DEF CodeGiven
  <2> QED  BY <2>1, <2>2
<1>2. ASSUME NEW u \in Thread, pc'[u] \in Numbered PROVE number'[u] < Len(holds'["met"])
  <2>1. CASE StoreCount(t) /\ u = t
    <3>1. /\ number'[t] = number[t] /\ number[t] \in Nat /\ IsFiniteSet(Counting) /\ t \in Counting
          /\ number[t] + Cardinality(Counting) <= Len(holds["met"])
      BY <2>1, Facts DEF StoreCount, At, Counting, CountBounded, TInv
    <3>2. Cardinality(Counting) \in Nat /\ Cardinality(Counting) # 0
      BY <3>1, FS_CardinalityType, FS_EmptySet
    <3> QED  BY <1>m, <2>1, <3>1, <3>2, SMT
  <2>2. CASE ~ (StoreCount(t) /\ u = t)
    <3>1. pc[u] \in Numbered /\ number'[u] = number[u]
      BY <1>2, <2>2, Facts DEF Step, At, Numbered, Known, Unknown, AddMet, Adding, MetAdded, LoadCount,
         StoreCount, Alloc, Queued, RegisterHook, RegisterFails, Jump, RecvReturns,
         EnterHandlerHook, CallOriginalHandler
    <3>2. number[u] \in Nat /\ number[u] < Len(holds["met"])
      BY <3>1, Facts DEF CodeGiven
    <3> QED  BY <1>m, <3>1, <3>2, SMT
  <2> QED  BY <2>1, <2>2
<1> QED  BY <1>1, <1>2 DEF CodeGiven

\* NumbersOwned is inductive: a number is the counter's value when it is given, and the
\* counter has passed it by when the next one is.
LEMMA NumbersStep ==
    ASSUME NEW t \in Thread, Step(t), TInv, NumbersOwned
    PROVE  NumbersOwned'
<1> SUFFICES ASSUME ~ countRaced'
             PROVE  /\ \A u, v \in Thread : pc'[u] = "store" /\ pc'[v] = "store" => u = v
                    /\ \A u \in Thread : pc'[u] = "store" => number'[u] = handlersHooked'
                    /\ \A f, g \in Function, n \in Nat :
                         Uses(f, n)' => n < handlersHooked' /\ (Uses(g, n)' => f = g)
  BY DEF NumbersOwned
<1>r. ~ countRaced
  BY DEF Step, Known, Unknown, AddMet, Adding, MetAdded, LoadCount, StoreCount, Alloc,
     Queued, RegisterHook, RegisterFails, Jump, RecvReturns, EnterHandlerHook, CallOriginalHandler
<1>n. /\ \A u, v \in Thread : pc[u] = "store" /\ pc[v] = "store" => u = v
      /\ \A u \in Thread : pc[u] = "store" => number[u] = handlersHooked
      /\ \A f, g \in Function, n \in Nat :
           Uses(f, n) => n < handlersHooked /\ (Uses(g, n) => f = g)
  BY <1>r DEF NumbersOwned
<1>1. CASE LoadCount(t)
  <2>1. \A u \in Thread : pc[u] # "store"
    BY <1>1 DEF LoadCount
  <2>2. \A u \in Thread : pc'[u] = "store" => u = t
    BY <1>1, <2>1, Facts DEF LoadCount, At
  <2>3. number'[t] = handlersHooked /\ UNCHANGED handlersHooked
    BY <1>1, Facts DEF LoadCount
  <2>4. ~ StoreCount(t)
    BY <1>1 DEF LoadCount, StoreCount, At
  <2> QED  BY <1>n, <2>2, <2>3, <2>4, UsesStep
<1>2. CASE StoreCount(t)
  <2>1. /\ pc[t] = "store" /\ handlersHooked' = handlersHooked + 1 /\ number[t] = handlersHooked
        /\ pc' = [pc EXCEPT ![t] = "alloc"]
        /\ UNCHANGED <<table, code, number, handler>>
    BY <1>2, <1>n DEF StoreCount, At, ntVars
  <2>2. \A u \in Thread : pc'[u] # "store"
    BY <2>1, <1>n, Facts
  <2>3. ASSUME NEW f \in Function, NEW n \in Nat, Uses(f, n)'
        PROVE  Uses(f, n) \/ (f = handler[t] /\ n = handlersHooked)
    <3>1. CASE \E u \in Thread : pc'[u] \in Numbered /\ handler[u] = f /\ number[u] = n
      BY <2>1, <3>1, Facts DEF Uses, Numbered
    <3>2. CASE ~ \E u \in Thread : pc'[u] \in Numbered /\ handler[u] = f /\ number[u] = n
      BY <2>1, <2>3, <3>2 DEF Uses
    <3> QED  BY <3>1, <3>2
  <2>4. ASSUME NEW f \in Function, NEW g \in Function, NEW n \in Nat, Uses(f, n)'
        PROVE  n < handlersHooked' /\ (Uses(g, n)' => f = g)
    <3>1. ~ (handlersHooked < handlersHooked) /\ handlersHooked \in Nat
      BY Facts, SMT
    <3>2. \A h \in Function : Uses(h, n) => n < handlersHooked
      BY <1>n
    <3>3. n < handlersHooked'
      BY <2>1, <2>3, <2>4, <3>1, <3>2, SMT
    <3>4. ASSUME Uses(g, n)' PROVE f = g
      BY <1>n, <2>3, <2>4, <3>1, <3>2, <3>4
    <3> QED  BY <3>3, <3>4
  <2> QED  BY <2>2, <2>4
<1>3. CASE ~ (LoadCount(t) \/ StoreCount(t))
  <2>1. UNCHANGED handlersHooked
        /\ \A u \in Thread : pc'[u] = "store" => pc[u] = "store" /\ number'[u] = number[u]
    BY <1>3, Facts DEF Step, At, Known, Unknown, AddMet, Adding, MetAdded, Alloc,
       Queued, RegisterHook, RegisterFails, Jump, RecvReturns, EnterHandlerHook, CallOriginalHandler
  <2> QED  BY <1>3, <1>n, <2>1, UsesStep
<1> QED  BY <1>1, <1>2, <1>3

\* A handler's hook, looked up by its address, leads to the handler that has its number.
LEMMA OwnHandlerStep ==
    ASSUME NEW t \in Thread, Step(t), TInv, NumbersOwned, CodeGiven, OwnHandler
    PROVE  OwnHandler'
<1> SUFFICES ASSUME NEW u \in Thread, ~ countRaced'
             PROVE  target'[u] \in {handler'[u], NoFunction}
  BY DEF OwnHandler
<1>r. ~ countRaced
  BY DEF Step, Known, Unknown, AddMet, Adding, MetAdded, LoadCount, StoreCount, Alloc,
     Queued, RegisterHook, RegisterFails, Jump, RecvReturns, EnterHandlerHook, CallOriginalHandler
<1>o. target[u] \in {handler[u], NoFunction}
  BY <1>r DEF OwnHandler
<1>1. CASE EnterHandlerHook(t) /\ u = t
  <2> DEFINE f == handler[t]
             h == code[f]
  <2>1. /\ f \in Handler /\ h \in HookAddr \ {NullHook} /\ handler' = handler
        /\ target'[t] = GetOriginalFunction(h)
    BY <1>1, Facts DEF EnterHandlerHook, At, InPlace, TInv
  <2>2. PICK n \in 0 .. (Len(Declared) - 1) : h = Declared[n + 1]
    BY <2>1, Facts DEF CodeGiven
  <2>3. n \in Nat /\ n < Len(Declared)
    BY <2>2, Facts, SMT
  <2>4. Uses(f, n)
    BY <2>2, <2>3 DEF Uses
  <2>5. ASSUME NEW i \in DOMAIN table, table[i] \in Entry, table[i].hook = h
        PROVE  table[i].function = f
    <3>1. table[i] = [function |-> table[i].function, hook |-> Declared[n + 1]]
          /\ table[i].function \in Function
      BY <2>2, <2>5 DEF Entry
    <3>2. Uses(table[i].function, n)
      BY <2>3, <3>1 DEF Uses
    <3> QED  BY <1>r, <2>1, <2>3, <2>4, <3>1, <3>2, Facts DEF NumbersOwned
  <2>6. NtTypeOK
    BY DEF TInv, TypeOK
  <2>7. GetOriginalFunction(h) \in {f, NoFunction}
    <3> HIDE DEF f, h
    <3> QED  BY <2>5, <2>6, LookUpFacts
  <2> QED  BY <1>1, <2>1, <2>7
<1>2. CASE (\E f \in Handler : Known(t, f) \/ Unknown(t, f)) \/ RecvReturns(t)
  <2>1. pc[t] \in {"idle", "body"} /\ UNCHANGED target
    BY <1>2 DEF Known, Unknown, RecvReturns, At
  <2>2. target'[t] = NoFunction
    BY <2>1 DEF TInv, InPlace
  <2> QED  BY <1>o, <2>1, <2>2, OthersStay DEF TInv
<1>3. CASE CallOriginalHandler(t)
  BY <1>3, <1>o, Facts DEF CallOriginalHandler
<1>4. CASE ~ (EnterHandlerHook(t) /\ u = t) /\ ~ RecvReturns(t) /\ ~ CallOriginalHandler(t)
           /\ ~ \E f \in Handler : Known(t, f) \/ Unknown(t, f)
  <2>1. target'[u] = target[u] /\ handler'[u] = handler[u]
    BY <1>4, Facts DEF Step, AddMet, Adding, MetAdded, LoadCount, StoreCount, Alloc,
       Queued, RegisterHook, RegisterFails, Jump, EnterHandlerHook
  <2> QED  BY <1>o, <2>1
<1> QED  BY <1>1, <1>2, <1>3, <1>4

\* A handler's hook passes its packet on to that handler or misses its original, unless
\* two threads incremented the counter at a time.
THEOREM OwnHandlerCorrect == Spec => [](OwnHandler /\ CodeGiven /\ NumbersOwned)
<1> DEFINE Inv == OwnHandler /\ CodeGiven /\ NumbersOwned
<1>1. Init => Inv
  <2> SUFFICES ASSUME Init PROVE Inv
    OBVIOUS
  <2>1. OwnHandler
    BY DEF Init, OwnHandler
  <2>2. CodeGiven
    BY HandlerAssumption DEF Init, CodeGiven, Numbered
  <2>3. ASSUME NEW f \in Function, NEW n \in Nat, Uses(f, n) PROVE FALSE
    <3>1. n < Len(Declared) => Declared[n + 1] \in HookAddr \ {RecvHook, NullHook}
      BY HookNumberFacts
    <3>2. Original \notin HookAddr
      BY CodeAssumption
    <3>3. DOMAIN table = {1} /\ table[1].hook = RecvHook
      BY SMT DEF Init
    <3> QED  BY <2>3, <3>1, <3>2, <3>3 DEF Init, Uses, Numbered
  <2>4. NumbersOwned
    BY <2>3 DEF NumbersOwned, Init
  <2> QED  BY <2>1, <2>2, <2>4
<1>2. TInv /\ Inv /\ [Next]_vars => Inv'
  <2> SUFFICES ASSUME TInv, Inv, [Next]_vars PROVE Inv'
    OBVIOUS
  <2>1. ASSUME NEW t \in Thread, Step(t) PROVE Inv'
    BY <2>1, OwnHandlerStep, CodeGivenStep, NumbersStep
  <2>2. CASE UNCHANGED allButCrash
    BY <2>2 DEF allButCrash, OwnHandler, CodeGiven, NumbersOwned, Uses
  <2> QED  BY <2>1, <2>2, Steps1
<1> QED  BY <1>1, <1>2, TypeCorrect, PTL DEF Spec

-------------------------------------------------------------------------------
(* What is met and hooked twice.                                                 *)

\* Two children hold f when more than one does.
LEMMA TwiceCardinality ==
    ASSUME TInv, NEW k \in Queue, NEW f
    PROVE  Cardinality(Holding(k, f)) > 1 <=> Twice(k, f)
<1> DEFINE H == Holding(k, f)
<1>1. IsFiniteSet(H)
  <2>1. Len(holds[k]) \in Nat
    BY Facts
  <2>2. IsFiniteSet(1 .. Len(holds[k]))
    BY <2>1, FS_Interval, SMT
  <2> QED  BY <2>2, FS_Subset DEF Holding
<1>2. /\ Cardinality(H) \in Nat /\ (Cardinality(H) = 0 <=> H = {})
      /\ Cardinality(H) = 1 <=> \E x : H = {x}
  BY <1>1, FS_CardinalityType, FS_EmptySet, FS_Singleton
<1>3. Twice(k, f) <=> H # {} /\ ~ \E x : H = {x}
  BY DEF Twice
<1> HIDE DEF H
<1> QED  BY <1>2, <1>3, SMT DEF H

\* A thread at "add" adds the child of its handler to the queue of handlers met, one at
\* "alloc" to the queue of patches, and no other step changes what either holds.
LEMMA HoldingSteps ==
    ASSUME NEW t \in Thread, Step(t), TInv, NEW k \in Queue, NEW f \in Handler
    PROVE  LET adds == pc[t] = (IF k = "met" THEN "add" ELSE "alloc") /\ handler[t] = f
               new == Len(holds[k]) + 1
           IN  /\ adds => Holding(k, f)' = Holding(k, f) \cup {new}
               /\ ~ adds => Holding(k, f)' = Holding(k, f)
               /\ new \notin Holding(k, f)
<1> DEFINE adds == pc[t] = (IF k = "met" THEN "add" ELSE "alloc") /\ handler[t] = f
           n == Len(holds[k])
<1>1. n \in Nat /\ n + 1 \notin 1 .. n
  BY Facts, SMT
<1>2. CASE holds'[k] = holds[k]
  <2>1. ~ adds
    <3>1. SUFFICES ASSUME adds PROVE FALSE
      OBVIOUS
    <3>2. StartsAdding(t, k)
      BY <3>1, Facts DEF Step, At, Known, Unknown, AddMet, Adding, MetAdded, LoadCount, StoreCount,
         Alloc, Queued, RegisterHook, RegisterFails, Jump, RecvReturns, EnterHandlerHook,
         CallOriginalHandler, AddStep, SetFirst, SetNext, SetPrev, SetLast, LoadLength, AtStep,
         TInv, InPlace, NoQueue
    <3>3. Len(holds'[k]) = n + 1
      <4>1. holds'[k] = Append(holds[k], handler[t]) /\ handler[t] \in Function
        BY <3>1, <3>2, Facts DEF StartsAdding, TInv, TypeOK
      <4> QED  BY <4>1, Facts, AppendProperties
    <3> QED  BY <1>1, <1>2, <3>3, SMT
  <2>2. Holding(k, f)' = Holding(k, f)
    BY <1>2 DEF Holding
  <2> QED  BY <1>1, <2>1, <2>2 DEF Holding
<1>3. CASE holds'[k] # holds[k]
  <2>1. /\ pc[t] = (IF k = "met" THEN "add" ELSE "alloc") /\ Len(holds'[k]) = n + 1
        /\ \A c \in 1 .. n : holds'[k][c] = holds[k][c]
        /\ holds'[k][n + 1] = handler[t]
    BY <1>3, HoldsSteps
  <2>2. 1 .. (n + 1) = (1 .. n) \cup {n + 1}
    BY <1>1, SMT
  <2>3. Holding(k, f)' = {c \in (1 .. n) \cup {n + 1} : holds'[k][c] = f}
    BY <2>1, <2>2 DEF Holding
  <2>4. adds <=> handler[t] = f
    BY <2>1
  <2> HIDE DEF n, adds
  <2>5. Holding(k, f) = {c \in 1 .. n : holds[k][c] = f}
    BY DEF Holding, n
  <2>6. Holding(k, f)' = Holding(k, f) \cup (IF adds THEN {n + 1} ELSE {})
    BY <2>1, <2>3, <2>4, <2>5
  <2> QED  BY <1>1, <2>5, <2>6 DEF n, adds
<1> QED  BY <1>2, <1>3

\* What has been held twice stays so.
LEMMA TwiceStays ==
    ASSUME NEW t \in Thread, Step(t), TInv, NEW k \in Queue, NEW f \in Handler
    PROVE  /\ Twice(k, f) => Twice(k, f)'
           /\ Holding(k, f) # {} => Holding(k, f)' # {}
           /\ pc[t] = (IF k = "met" THEN "add" ELSE "alloc") /\ handler[t] = f =>
                /\ Holding(k, f)' # {}
                /\ Holding(k, f) # {} => Twice(k, f)'
                /\ Holding(k, f) = {} => ~ Twice(k, f)'
           /\ pc[t] # (IF k = "met" THEN "add" ELSE "alloc") \/ handler[t] # f =>
                Holding(k, f)' = Holding(k, f) /\ (Twice(k, f)' => Twice(k, f))
  BY HoldingSteps DEF Twice

\* Where a thread comes from when it is on its way to the jump, and with what.
LEMMA Moves ==
    ASSUME NEW t \in Thread, Step(t), TInv
    PROVE  /\ pc'[t] \in Patching => /\ pc[t] \in Patching \cup {"alloc"}
                                     /\ handler'[t] = handler[t] /\ number'[t] = number[t]
           /\ pc'[t] \in {"queueing", "register"} => pc[t] \in {"alloc", "queueing", "register"}
           /\ pc'[t] = "jump" => RegisterHook(t)
           /\ pc[t] = "alloc" => /\ Alloc(t) /\ pc'[t] = "queueing" /\ handler' = handler
                                 /\ UNCHANGED ntVars
           /\ pc'[t] \in Meeting => /\ pc[t] \in Meeting \cup {"add"}
                                    /\ handler'[t] = handler[t]
           /\ pc[t] = "add" => AddMet(t) /\ handler' = handler
           /\ Jump(t) => /\ pc[t] = "jump" /\ pc'[t] = "body" /\ table' = table
                         /\ code'[handler[t]] = HookNumber(number[t])
           /\ \A f \in Handler : code'[f] # code[f] => Jump(t) /\ handler[t] = f
<1>i. /\ into[t] = IF pc[t] = "adding" THEN "met"
                   ELSE IF pc[t] = "queueing" THEN "patches" ELSE NoQueue
      /\ step[t] = "out" <=> into[t] = NoQueue
      /\ NoQueue \notin {"met", "patches"}
      /\ pc[t] # "idle" => handler[t] \in Handler
  BY DEF TInv, InPlace, NoQueue
<1> USE Facts DEF At, Patching, Meeting
<1>1. CASE \E f \in Handler : Known(t, f) \/ Unknown(t, f)
  BY <1>1 DEF Known, Unknown, Jump, ntVars
<1>2. CASE Adding(t)
  <2>1. step[t] # "out" /\ UNCHANGED <<ntVars, pc, handler, number>>
    BY <1>2 DEF Adding, AddStep, SetFirst, SetNext, SetPrev, SetLast, LoadLength, AtStep
  <2>2. pc[t] \in {"adding", "queueing"}
    BY <1>i, <2>1
  <2> QED  BY <2>1, <2>2 DEF ntVars, Jump
<1>3. CASE AddMet(t) \/ MetAdded(t) \/ LoadCount(t) \/ StoreCount(t)
  BY <1>3 DEF AddMet, MetAdded, LoadCount, StoreCount, ntVars, Jump
<1>4. CASE Alloc(t) \/ Queued(t) \/ RegisterFails(t)
  BY <1>4 DEF Alloc, Queued, RegisterFails, ntVars, Jump
<1>5. CASE RegisterHook(t)
  BY <1>5 DEF RegisterHook, Jump
<1>6. CASE Jump(t)
  BY <1>6, <1>i DEF Jump, WriteJump
<1>7. CASE RecvReturns(t) \/ EnterHandlerHook(t) \/ CallOriginalHandler(t)
  BY <1>7 DEF RecvReturns, EnterHandlerHook, CallOriginalHandler, ntVars, Jump
<1> QED  BY <1>1, <1>2, <1>3, <1>4, <1>5, <1>6, <1>7 DEF Step

\* HookedOnce is inductive: while a handler has one patch, one thread is on its way to
\* its jump, and that thread enters it in the table.
LEMMA HookedOnceStep ==
    ASSUME NEW t \in Thread, Step(t), TInv, HookedOnce
    PROVE  HookedOnce'
<1> SUFFICES ASSUME NEW f \in Handler
    PROVE  /\ Hooked(f)' => Holding("patches", f)' # {}
           /\ ~ Twice("patches", f)' =>
             /\ \A u, v \in Thread :
                  pc'[u] \in Patching /\ handler'[u] = f /\ pc'[v] \in Patching /\ handler'[v] = f => u = v
             /\ \A u \in Thread :
                  /\ pc'[u] \in Patching /\ handler'[u] = f => code'[f] = Original
                  /\ pc'[u] \in {"queueing", "register"} /\ handler'[u] = f => ~ Registered(f)'
                  /\ pc'[u] = "jump" /\ handler'[u] = f =>
                       \E i \in DOMAIN table' :
                         table'[i] = [function |-> f, hook |-> HookNumber(number'[u])]
             /\ code'[f] # Original =>
                  \E i \in DOMAIN table' : table'[i] = [function |-> f, hook |-> code'[f]]
  BY DEF HookedOnce
<1>o. \A u \in Thread \ {t} : pc'[u] = pc[u] /\ handler'[u] = handler[u] /\ number'[u] = number[u]
  BY OthersStay DEF TInv
<1>q. "patches" \in Queue
  BY Facts
<1>1. CASE pc[t] = "alloc" /\ handler[t] = f
  <2>1. UNCHANGED <<table, code>> /\ pc'[t] = "queueing" /\ handler' = handler
    BY <1>1, Moves DEF ntVars
  <2>2. Holding("patches", f)' # {} /\ (~ Twice("patches", f)' => Holding("patches", f) = {})
    BY <1>1, <1>q, TwiceStays
  <2>3. ASSUME Holding("patches", f) = {}
        PROVE  /\ ~ Registered(f) /\ code[f] = Original
               /\ \A u \in Thread : ~ (pc[u] \in Patching /\ handler[u] = f)
    BY <2>3 DEF HookedOnce, Hooked
  <2>4. \A u \in Thread : pc'[u] \in Patching /\ handler'[u] = f => (pc[u] \in Patching /\ handler[u] = f) \/ u = t
    BY <1>o
  <2>5. \A u \in Thread : pc'[u] = "jump" /\ handler'[u] = f => pc[u] \in Patching /\ handler[u] = f
    BY <1>o, <2>1 DEF Patching
  <2>6. Registered(f)' <=> Registered(f)
    BY <2>1 DEF Registered
  <2> QED  BY <2>1, <2>2, <2>3, <2>4, <2>5, <2>6
<1>2. CASE ~ (pc[t] = "alloc" /\ handler[t] = f)
  <2>1. Holding("patches", f)' = Holding("patches", f) /\ (Twice("patches", f)' <=> Twice("patches", f))
    BY <1>2, <1>q, TwiceStays DEF Twice
  <2>2. \A u \in Thread : pc'[u] \in Patching /\ handler'[u] = f =>
           pc[u] \in Patching /\ handler[u] = f /\ number'[u] = number[u]
    BY <1>2, <1>o, Moves
  <2>3. \A u \in Thread : pc'[u] \in {"queueing", "register"} /\ handler'[u] = f =>
           pc[u] \in {"queueing", "register"} /\ handler[u] = f
    <3>1. {"queueing", "register"} \subseteq Patching
      BY DEF Patching
    <3> QED  BY <1>2, <1>o, <3>1, Moves
  <2>4. /\ \A i \in DOMAIN table : i \in DOMAIN table' /\ table'[i] = table[i]
        /\ Registered(f)' => Registered(f) \/ (RegisterHook(t) /\ handler[t] = f)
    <3>1. CASE table' = table
      <4>1. DOMAIN table' = DOMAIN table /\ \A i \in DOMAIN table : table'[i] = table[i]
        BY <3>1
      <4> QED  BY <4>1 DEF Registered
    <3>2. CASE table' # table
      <4>1. /\ RegisterHook(t) /\ DOMAIN table' = 1 .. (Len(table) + 1)
            /\ \A i \in DOMAIN table : i \in DOMAIN table' /\ table'[i] = table[i]
            /\ table'[Len(table) + 1] = [function |-> handler[t], hook |-> HookNumber(number[t])]
        BY <3>2, TableSteps
      <4>2. \A i \in DOMAIN table' : i \in DOMAIN table \/ i = Len(table) + 1
        <5>1. \A i \in 1 .. (Len(table) + 1) : i \in 1 .. Len(table) \/ i = Len(table) + 1
          BY Facts, SMT
        <5> QED  BY <4>1, <5>1, Facts
      <4>3. ASSUME Registered(f)', ~ Registered(f) PROVE RegisterHook(t) /\ handler[t] = f
        <5>1. PICK i \in DOMAIN table' : table'[i].function = f
          BY <4>3 DEF Registered
        <5>2. i \notin DOMAIN table
          BY <4>1, <4>3, <5>1 DEF Registered
        <5> QED  BY <4>1, <4>2, <5>1, <5>2
      <4> QED  BY <4>1, <4>3
    <3> QED  BY <3>1, <3>2
  <2>5. code'[f] # code[f] => /\ Jump(t) /\ handler[t] = f /\ pc[t] = "jump" /\ pc'[t] = "body"
                              /\ code'[f] = HookNumber(number[t])
    BY Moves
  <2>6. ASSUME Hooked(f)' PROVE Hooked(f)
    <3>1. RegisterHook(t) \/ Jump(t) => pc[t] \in Patching
      BY DEF RegisterHook, Jump, At, Patching
    <3> QED  BY <2>2, <2>4, <2>5, <2>6, <3>1 DEF Hooked
  <2>7. ASSUME ~ Twice("patches", f)
        PROVE
             /\ \A u, v \in Thread :
                  pc'[u] \in Patching /\ handler'[u] = f /\ pc'[v] \in Patching /\ handler'[v] = f => u = v
             /\ \A u \in Thread :
                  /\ pc'[u] \in Patching /\ handler'[u] = f => code'[f] = Original
                  /\ pc'[u] \in {"queueing", "register"} /\ handler'[u] = f => ~ Registered(f)'
                  /\ pc'[u] = "jump" /\ handler'[u] = f =>
                       \E i \in DOMAIN table' :
                         table'[i] = [function |-> f, hook |-> HookNumber(number'[u])]
             /\ code'[f] # Original =>
                  \E i \in DOMAIN table' : table'[i] = [function |-> f, hook |-> code'[f]]
    <3>1. /\ \A u, v \in Thread :
               pc[u] \in Patching /\ handler[u] = f /\ pc[v] \in Patching /\ handler[v] = f => u = v
          /\ \A u \in Thread :
               /\ pc[u] \in Patching /\ handler[u] = f => code[f] = Original
               /\ pc[u] \in {"queueing", "register"} /\ handler[u] = f => ~ Registered(f)
               /\ pc[u] = "jump" /\ handler[u] = f =>
                    \E i \in DOMAIN table :
                      table[i] = [function |-> f, hook |-> HookNumber(number[u])]
          /\ code[f] # Original =>
               \E i \in DOMAIN table : table[i] = [function |-> f, hook |-> code[f]]
      BY <2>7 DEF HookedOnce
    <3>2. ASSUME NEW u \in Thread, pc'[u] \in Patching, handler'[u] = f PROVE code'[f] = Original
      <4>1. pc[u] \in Patching /\ handler[u] = f /\ code[f] = Original
        BY <2>2, <3>1, <3>2
      <4>2. pc[t] = "jump" => pc[t] \in Patching
        BY DEF Patching
      <4>3. "body" \notin Patching
        BY DEF Patching
      <4> QED  BY <2>5, <3>1, <3>2, <4>1, <4>2, <4>3
    <3>3. ASSUME NEW u \in Thread, pc'[u] \in {"queueing", "register"}, handler'[u] = f
          PROVE  ~ Registered(f)'
      <4>1. pc[u] \in Patching /\ handler[u] = f /\ ~ Registered(f)
        BY <2>3, <3>1, <3>3 DEF Patching
      <4>2. RegisterHook(t) => pc[t] \in Patching /\ pc'[t] = "jump"
        BY Facts DEF RegisterHook, At, Patching
      <4> QED  BY <2>4, <3>1, <3>3, <4>1, <4>2
    <3>4. ASSUME NEW u \in Thread, pc'[u] = "jump", handler'[u] = f
          PROVE  \E i \in DOMAIN table' :
                   table'[i] = [function |-> f, hook |-> HookNumber(number'[u])]
      <4>1. pc[u] \in Patching /\ handler[u] = f /\ number'[u] = number[u]
        BY <2>2, <3>4 DEF Patching
      <4>2. CASE u # t
        <5>1. pc[u] = "jump"
          BY <1>o, <3>4, <4>2
        <5> QED  BY <2>4, <3>1, <4>1, <5>1
      <4>3. CASE u = t
        <5>1. RegisterHook(t) /\ pc[t] = "register"
          BY <3>4, <4>3, Moves DEF RegisterHook, At
        <5>2. ~ Registered(f)
          BY <3>1, <4>1, <4>3, <5>1
        <5>3. Register(handler[t], HookNumber(number[t]))
          BY <4>1, <4>3, <5>1, <5>2 DEF RegisterHook
        <5>4. Len(table) + 1 \in DOMAIN table'
              /\ table'[Len(table) + 1] = [function |-> handler[t], hook |-> HookNumber(number[t])]
          <6>1. handler[t] \in Function /\ HookNumber(number[t]) \in HookAddr
            BY <4>1, <4>3, Facts, HookNumberType
          <6>2. [function |-> handler[t], hook |-> HookNumber(number[t])] \in Entry
            BY <6>1 DEF Entry
          <6> DEFINE e == [function |-> handler[t], hook |-> HookNumber(number[t])]
          <6>3. table \in Seq(Entry) /\ e \in Entry /\ table' = Append(table, e)
            BY <5>3, <6>2, Facts DEF Register
          <6> HIDE DEF e
          <6>4. Len(table) + 1 \in DOMAIN table' /\ table'[Len(table) + 1] = e
            BY <6>3, SMT
          <6> QED  BY <6>4 DEF e
        <5> QED  BY <4>1, <4>3, <5>4
      <4> QED  BY <4>2, <4>3
    <3>5. ASSUME code'[f] # Original
          PROVE  \E i \in DOMAIN table' : table'[i] = [function |-> f, hook |-> code'[f]]
      <4>1. CASE code'[f] = code[f]
        BY <2>4, <3>1, <3>5, <4>1
      <4>2. CASE code'[f] # code[f]
        BY <2>4, <2>5, <3>1, <4>2
      <4> QED  BY <4>1, <4>2
    <3> QED  BY <2>2, <3>1, <3>2, <3>3, <3>4, <3>5
  <2> QED  BY <2>1, <2>6, <2>7 DEF HookedOnce
<1> QED  BY <1>1, <1>2

\* MetOnce is inductive: a handler that was not in the queue has no patch and is on
\* nobody's way to one, and a thread that allocates its patch ends meeting it.
LEMMA MetOnceStep ==
    ASSUME NEW t \in Thread, Step(t), TInv, MetOnce
    PROVE  MetOnce'
<1> SUFFICES ASSUME NEW f \in Handler
    PROVE  /\ BeingMet(f)' \/ Holding("patches", f)' # {} => Holding("met", f)' # {}
           /\ ~ Twice("met", f)' =>
             /\ \A u, v \in Thread :
                  pc'[u] \in Meeting /\ handler'[u] = f /\ pc'[v] \in Meeting /\ handler'[v] = f => u = v
             /\ BeingMet(f)' => Holding("patches", f)' = {}
             /\ ~ Twice("patches", f)'
  BY DEF MetOnce
<1>o. \A u \in Thread \ {t} : pc'[u] = pc[u] /\ handler'[u] = handler[u]
  BY OthersStay DEF TInv
<1>q. {"met", "patches"} \subseteq Queue /\ "met" # "patches"
  BY Facts
<1>i. /\ BeingMet(f) \/ Holding("patches", f) # {} => Holding("met", f) # {}
      /\ ~ Twice("met", f) =>
           /\ \A u, v \in Thread :
                pc[u] \in Meeting /\ handler[u] = f /\ pc[v] \in Meeting /\ handler[v] = f => u = v
           /\ BeingMet(f) => Holding("patches", f) = {}
           /\ ~ Twice("patches", f)
  BY DEF MetOnce
<1>1. CASE pc[t] = "add" /\ handler[t] = f
  <2>1. Holding("met", f)' # {} /\ (~ Twice("met", f)' => Holding("met", f) = {})
    BY <1>1, <1>q, TwiceStays
  <2>2. Holding("patches", f)' = Holding("patches", f)
    BY <1>1, <1>q, TwiceStays
  <2>3. Holding("patches", f) = {} => ~ Twice("patches", f)'
    BY <2>2 DEF Twice
  <2>4. \A u \in Thread : pc'[u] \in Meeting /\ handler'[u] = f =>
           (pc[u] \in Meeting /\ handler[u] = f) \/ u = t
    BY <1>o
  <2>5. ASSUME Holding("met", f) = {}
        PROVE  /\ \A u \in Thread : ~ (pc[u] \in Meeting /\ handler[u] = f)
               /\ Holding("patches", f) = {}
    BY <1>i, <2>5 DEF BeingMet
  <2> QED  BY <2>1, <2>2, <2>3, <2>4, <2>5
<1>2. CASE pc[t] = "alloc" /\ handler[t] = f
  <2>1. pc'[t] = "queueing" /\ "queueing" \notin Meeting /\ pc[t] \in Meeting /\ BeingMet(f)
    BY <1>2, Moves DEF Meeting, BeingMet
  <2>2. Holding("met", f)' = Holding("met", f) /\ (Twice("met", f)' <=> Twice("met", f))
    BY <1>2, <1>q, TwiceStays DEF Twice
  <2>3. Holding("patches", f) = {} => ~ Twice("patches", f)'
    BY <1>2, <1>q, TwiceStays
  <2>4. \A u \in Thread : pc'[u] \in Meeting /\ handler'[u] = f =>
           pc[u] \in Meeting /\ handler[u] = f /\ u # t
    BY <1>o, <2>1
  <2>5. ~ Twice("met", f) => ~ BeingMet(f)'
    BY <1>2, <1>i, <2>1, <2>4 DEF BeingMet
  <2> QED  BY <1>i, <2>1, <2>2, <2>3, <2>4, <2>5
<1>3. CASE ~ (pc[t] \in {"add", "alloc"} /\ handler[t] = f)
  <2>1. /\ Holding("met", f)' = Holding("met", f) /\ (Twice("met", f)' <=> Twice("met", f))
        /\ Holding("patches", f)' = Holding("patches", f)
        /\ Twice("patches", f)' <=> Twice("patches", f)
    BY <1>3, <1>q, TwiceStays DEF Twice
  <2>2. \A u \in Thread : pc'[u] \in Meeting /\ handler'[u] = f =>
           pc[u] \in Meeting /\ handler[u] = f
    BY <1>3, <1>o, Moves
  <2>3. BeingMet(f)' => BeingMet(f)
    BY <2>2 DEF BeingMet
  <2> QED  BY <1>i, <2>1, <2>2, <2>3
<1> QED  BY <1>1, <1>2, <1>3

\* What the queues hold: handlers met, and after Recv the functions that were hooked.
LEMMA HeldHandlersStep ==
    ASSUME NEW t \in Thread, Step(t), TInv, HeldHandlers
    PROVE  HeldHandlers'
<1>q. {"met", "patches"} \subseteq Queue
  BY Facts
<1>1. holds'["met"] \in Seq(Handler)
  <2>1. CASE holds'["met"] = holds["met"]
    BY <2>1 DEF HeldHandlers
  <2>2. CASE holds'["met"] # holds["met"]
    <3>1. pc[t] = "add" /\ handler[t] \in Handler
      BY <2>2, <1>q, HoldsSteps DEF TInv, InPlace
    <3>2. AddMet(t)
      BY <3>1, Moves
    <3>3. holds'["met"] = Append(holds["met"], handler[t])
      BY <3>2, <1>q DEF AddMet, StartsAdding, TInv, TypeOK
    <3> QED  BY <3>1, <3>3, AppendProperties DEF HeldHandlers
  <2> QED  BY <2>1, <2>2
<1>2. holds'["patches"] # <<>> /\ holds'["patches"][1] = Recv
  <2>1. CASE holds'["patches"] = holds["patches"]
    BY <2>1 DEF HeldHandlers
  <2>2. CASE holds'["patches"] # holds["patches"]
    <3>1. /\ Len(holds'["patches"]) = Len(holds["patches"]) + 1
          /\ \A c \in 1 .. Len(holds["patches"]) : holds'["patches"][c] = holds["patches"][c]
      BY <2>2, <1>q, HoldsSteps
    <3>2. holds["patches"] \in Seq(Function) /\ holds["patches"] # <<>>
      BY <1>q, Facts DEF HeldHandlers
    <3>3. Len(holds["patches"]) \in Nat /\ Len(holds["patches"]) # 0
      BY <3>2, LenProperties, EmptySeq
    <3>4. 1 \in 1 .. Len(holds["patches"]) /\ Len(holds["patches"]) + 1 # 0
      BY <3>3, SMT
    <3>5. Len(<< >>) = 0
      BY EmptySeq
    <3> QED  BY <3>1, <3>4, <3>5 DEF HeldHandlers
  <2> QED  BY <2>1, <2>2
<1> QED  BY <1>1, <1>2 DEF HeldHandlers

-------------------------------------------------------------------------------
(* How the client dies.                                                          *)

\* A hook that found no original is one of a handler hooked twice.
MissedTwice ==
    \A t \in Thread :
        pc[t] = "hook" /\ target[t] = NoFunction => Twice("patches", handler[t])

\* The client died of a jump to NULL, or of a hook that found no original.
CrashExcused ==
    /\ crash = "null_handler" => \E f \in Handler : code[f] = NullHook
    /\ crash = "null_call" => \E f \in Handler : Twice("patches", f)

HInv == CodeGiven /\ HookedOnce /\ MetOnce /\ HeldHandlers /\ MissedTwice /\ CrashExcused

\* MissedTwice is inductive: the library knows the hook a handler's jump leads to unless
\* two threads hooked that handler.
LEMMA MissedTwiceStep ==
    ASSUME NEW t \in Thread, Step(t), TInv, HInv
    PROVE  MissedTwice'
<1> SUFFICES ASSUME NEW u \in Thread, pc'[u] = "hook", target'[u] = NoFunction
             PROVE  Twice("patches", handler[u])'
  BY DEF MissedTwice
<1>q. "patches" \in Queue
  BY Facts
<1>1. \/ pc[u] = "hook" /\ handler'[u] = handler[u] /\ target'[u] = target[u]
      \/ u = t /\ EnterHandlerHook(t)
  <2>1. CASE u # t
    BY <2>1, OthersStay DEF TInv
  <2>2. CASE u = t
    <3> USE <2>2, Facts DEF At
    <3>1. CASE \E f \in Handler : Known(t, f) \/ Unknown(t, f)
      BY <3>1 DEF Known, Unknown
    <3>2. CASE RecvReturns(t) \/ CallOriginalHandler(t) \/ RegisterFails(t) \/ Jump(t)
      BY <3>2 DEF RecvReturns, CallOriginalHandler, RegisterFails, Jump
    <3>3. CASE Adding(t)
      BY <3>3 DEF Adding
    <3>4. CASE AddMet(t) \/ MetAdded(t) \/ LoadCount(t) \/ StoreCount(t) \/ Alloc(t)
               \/ Queued(t) \/ RegisterHook(t)
      BY <3>4 DEF AddMet, MetAdded, LoadCount, StoreCount, Alloc, Queued, RegisterHook
    <3> QED  BY <3>1, <3>2, <3>3, <3>4 DEF Step
  <2> QED  BY <2>1, <2>2
<1>2. handler[u] \in Handler /\ handler'[u] = handler[u]
  BY <1>1, Facts DEF TInv, InPlace, EnterHandlerHook, At
<1>3. Twice("patches", handler[u])
  <2>1. CASE pc[u] = "hook" /\ target'[u] = target[u]
    BY <2>1 DEF HInv, MissedTwice
  <2>2. CASE u = t /\ EnterHandlerHook(t)
    <3> DEFINE h == code[handler[u]]
    <3>1. GetOriginalFunction(h) = NoFunction /\ h \in HookAddr
      BY <2>2, Facts DEF EnterHandlerHook, At
    <3>2. \A i \in DOMAIN table : table[i].hook # h
      <4>1. NtTypeOK
        BY DEF TInv, TypeOK
      <4>2. NoFunction \notin Function /\ \A e \in Entry : e.function \in Function
        BY Facts DEF Entry
      <4> HIDE DEF h
      <4>3. GetOriginalFunction(h) = NoFunction
        BY <3>1
      <4> QED  BY <4>1, <4>2, <4>3, LookUpFacts
    <3>3. h # Original
      BY <3>1, Facts
    <3> QED  BY <1>2, <3>2, <3>3 DEF HInv, HookedOnce
  <2> QED  BY <1>1, <2>1, <2>2
<1> QED  BY <1>2, <1>3, <1>q, TwiceStays

\* The reasons for a handler's code and for what was hooked stay.
LEMMA CrashExcusedStep ==
    ASSUME NEW t \in Thread, TInv, HInv,
           \/ JumpToNull(t)
           \/ CallNull(t)
    PROVE  CrashExcused'
<1>1. CASE JumpToNull(t)
  <2>1. /\ crash' = "null_handler" /\ pc[t] = "body" /\ code[handler[t]] = NullHook
        /\ UNCHANGED code
    BY <1>1 DEF JumpToNull, Crashes, ntVars
  <2> QED  BY <2>1 DEF CrashExcused, TInv, InPlace
<1>2. CASE CallNull(t)
  <2>1. /\ crash' = "null_call" /\ pc[t] = "hook" /\ target[t] = NoFunction
        /\ UNCHANGED <<holds, handler>>
    BY <1>2 DEF CallNull, Crashes, threadVars
  <2>2. handler[t] \in Handler /\ Twice("patches", handler[t])
    BY <2>1 DEF TInv, InPlace, HInv, MissedTwice
  <2>3. Twice("patches", handler[t])'
    BY <2>1, <2>2 DEF Twice, Holding
  <2> QED  BY <2>1, <2>2, <2>3 DEF CrashExcused
<1> QED  BY <1>1, <1>2

\* The handlers' hooks, patches and misses, by induction on the steps.
THEOREM HInvInductive == Spec => []HInv
<1>1. Init => HInv
  <2> SUFFICES ASSUME Init PROVE HInv
    OBVIOUS
  <2> USE HandlerAssumption
  <2>h. /\ holds["met"] = <<>> /\ holds["patches"] = <<Recv>>
        /\ Len(<<>>) = 0 /\ Len(<<Recv>>) = 1 /\ <<Recv>>[1] = Recv /\ <<Recv>> # <<>>
    BY SMT DEF Init
  <2>1. CodeGiven
    BY DEF Init, CodeGiven, Numbered
  <2>2. ASSUME NEW f \in Handler
        PROVE  ~ Hooked(f) /\ ~ BeingMet(f) /\ Holding("patches", f) = {}
    <3>1. DOMAIN table = {1} /\ table[1].function = Recv
      BY SMT DEF Init
    <3>2. code[f] = Original
      BY DEF Init
    <3>3. Holding("patches", f) = {}
      <4>1. 1 .. 1 = {1}
        BY SMT
      <4> QED  BY <2>h, <4>1 DEF Holding
    <3> QED  BY <3>1, <3>2, <3>3 DEF Hooked, BeingMet, Registered, Init, Patching, Meeting
  <2>3. HookedOnce
    BY <2>2 DEF HookedOnce, Hooked, Patching
  <2>4. MetOnce
    BY <2>2 DEF MetOnce, BeingMet, Twice
  <2>5. HeldHandlers
    BY <2>h, EmptySeq DEF HeldHandlers
  <2>6. MissedTwice /\ CrashExcused
    BY DEF Init, MissedTwice, CrashExcused
  <2> QED  BY <2>1, <2>3, <2>4, <2>5, <2>6 DEF HInv
<1>2. TInv /\ HInv /\ [Next]_vars => HInv'
  <2> SUFFICES ASSUME TInv, HInv, [Next]_vars PROVE HInv'
    OBVIOUS
  <2>1. ASSUME NEW t \in Thread, Step(t), crash = "none", crash' = crash PROVE HInv'
    <3>1. CodeGiven' /\ HookedOnce' /\ MetOnce' /\ HeldHandlers' /\ MissedTwice'
      BY <2>1, CodeGivenStep, HookedOnceStep, MetOnceStep, HeldHandlersStep, MissedTwiceStep DEF HInv
    <3>2. CrashExcused'
      BY <2>1 DEF CrashExcused
    <3> QED  BY <3>1, <3>2 DEF HInv
  <2>2. CASE UNCHANGED allButCrash
    <3> USE <2>2 DEF allButCrash, HInv
    <3>1. CodeGiven' /\ HeldHandlers'
      BY DEF CodeGiven, HeldHandlers
    <3>3. HookedOnce'
      BY DEF HookedOnce, Hooked, Registered, Twice, Holding
    <3>4. MetOnce' /\ MissedTwice'
      BY DEF MetOnce, MissedTwice, BeingMet, Twice, Holding
    <3>2. CrashExcused'
      <4>1. CASE crash' = crash
        BY <2>2, <4>1 DEF allButCrash, HInv, CrashExcused, Twice, Holding
      <4>2. CASE crash' # crash
        <5>1. \/ \E t \in Thread : JumpToNull(t) \/ CallNull(t)
              \/ \E t \in Thread : Step(t) /\ crash' = crash
          BY <4>2 DEF Next, Step, vars, At, Known, Unknown, AddMet, Adding, MetAdded, LoadCount,
             StoreCount, Alloc, Queued, RegisterHook, RegisterFails, Jump, RecvReturns,
             EnterHandlerHook, CallOriginalHandler
        <5> QED  BY <4>2, <5>1, CrashExcusedStep
      <4> QED  BY <4>1, <4>2
    <3> QED  BY <3>1, <3>2, <3>3, <3>4 DEF HInv
  <2> QED  BY <2>1, <2>2, Steps1
<1> QED  BY <1>1, <1>2, TypeCorrect, PTL DEF Spec

\* A handler's hook misses its original only if that handler was hooked twice.
THEOREM NullCallOnlyIfHookedTwiceCorrect == Spec => []NullCallOnlyIfHookedTwice
<1>1. TInv /\ HInv => NullCallOnlyIfHookedTwice
  <2> SUFFICES ASSUME TInv, HInv, NEW t \in Thread, pc[t] = "hook", target[t] = NoFunction
               PROVE  HookedTwice(handler[t])
    BY DEF NullCallOnlyIfHookedTwice
  <2>1. Twice("patches", handler[t]) /\ "patches" \in Queue
    BY Facts DEF HInv, MissedTwice
  <2> QED  BY <2>1, TwiceCardinality DEF HookedTwice
<1> QED  BY <1>1, TypeCorrect, HInvInductive, PTL

\* If no handler was met twice, as many handlers were met as there are children for them.
LEMMA HandlersMet ==
    ASSUME TInv, HInv, \A f \in Handler : ~ Twice("met", f)
    PROVE  Cardinality({f \in Handler : Holding("met", f) # {}}) = Len(holds["met"])
<1> DEFINE M == {f \in Handler : Holding("met", f) # {}}
           C == 1 .. Len(holds["met"])
           h == [c \in C |-> holds["met"][c]]
<1>1. Len(holds["met"]) \in Nat /\ \A c \in C : holds["met"][c] \in Handler
  BY Facts, ElementOfSeq DEF HInv, HeldHandlers
<1>2. IsFiniteSet(C) /\ Cardinality(C) = Len(holds["met"])
  BY <1>1, FS_Interval, SMT
<1>3. \A c \in C : c \in Holding("met", h[c]) /\ h[c] \in M
  BY <1>1 DEF Holding
<1>4. h \in [C -> M] /\ \A f \in M : \E c \in C : h[c] = f
  BY <1>3 DEF Holding
<1>5. \A c, d \in C : h[c] = h[d] => c = d
  BY <1>1, <1>3 DEF Twice
<1> HIDE DEF M, C, h
<1>6. h \in Surjection(C, M) /\ h \in Injection(C, M)
  BY <1>4, <1>5 DEF Surjection, Injection, IsInjective
<1>7. Cardinality(M) = Cardinality(C)
  BY <1>2, <1>6, FS_Surjection
<1> QED  BY <1>2, <1>7 DEF M

\* A packet kills the client only if more handlers were met than there are declared
\* hooks, or if two threads met one handler.
THEOREM ClientSurvivesCorrect == Spec => []ClientSurvives
<1>1. TInv /\ HInv => ClientSurvives
  <2> SUFFICES ASSUME TInv, HInv, crash # "none", \A f \in Handler : ~ MetTwice(f)
               PROVE  Cardinality({f \in Handler : Holding("met", f) # {}}) > Len(Declared)
    BY DEF ClientSurvives
  <2>1. \A f \in Handler : ~ Twice("met", f)
    BY Facts, TwiceCardinality DEF MetTwice
  <2>2. \A f \in Handler : ~ Twice("patches", f)
    BY <2>1 DEF HInv, MetOnce
  <2>3. crash = "null_handler"
    BY <2>2 DEF TInv, TypeOK, HInv, CrashExcused
  <2>4. PICK f \in Handler : code[f] = NullHook
    BY <2>3 DEF HInv, CrashExcused
  <2>5. \A n \in 0 .. (Len(Declared) - 1) : Declared[n + 1] # NullHook
    <3> TAKE n \in 0 .. (Len(Declared) - 1)
    <3>1. n \in Nat /\ n < Len(Declared)
      BY Facts, SMT
    <3> QED  BY <3>1, HookNumberFacts
  <2>6. Len(holds["met"]) > Len(Declared)
    BY <2>4, <2>5, Facts, HandlerAssumption DEF HInv, CodeGiven
  <2> QED  BY <2>1, <2>6, HandlersMet
<1> QED  BY <1>1, TypeCorrect, HInvInductive, PTL

-------------------------------------------------------------------------------
(* The children of a thread's own.                                               *)

\* A step leaves the queues alone, starts the thread's addition with a new child, goes
\* on with it or ends it.
LEMMA QueueMoves ==
    ASSUME NEW t \in Thread, Step(t), TInv
    PROVE  /\ into[t] # NoQueue => handler'[t] = handler[t]
           /\ \/ UNCHANGED <<queueVars, holds>>
              \/ \E k \in Queue :
                   /\ into[t] = NoQueue /\ into'[t] = k /\ handler'[t] = handler[t]
                   /\ child'[t] = Len(holds[k]) + 1
                   /\ step'[t] = IF ends[k].len = 0 THEN "first" ELSE "next"
                   /\ \A u \in Thread : u # t /\ into[u] = k => k \in overlapped'
                   /\ overlapped \subseteq overlapped'
                   /\ UNCHANGED <<ends, next, prev, length>>
                   /\ holds'[k] # holds[k]
                   /\ \A j \in Queue : j # k => holds'[j] = holds[j]
              \/ into[t] \in Queue /\ AddStep(t) /\ UNCHANGED <<holds, into, child, overlapped>>
              \/ into[t] \in Queue /\ StoreLength(t) /\ UNCHANGED <<holds, overlapped>>
<1>i. /\ into[t] = IF pc[t] = "adding" THEN "met"
                   ELSE IF pc[t] = "queueing" THEN "patches" ELSE NoQueue
      /\ step[t] = "out" <=> into[t] = NoQueue
      /\ \A u \in Thread : step[u] = "out" <=> into[u] = NoQueue
      /\ NoQueue \notin Queue
      /\ pc[t] # "idle" => handler[t] \in Handler
  BY Facts DEF TInv, InPlace, NoQueue
<1>1. into[t] # NoQueue => handler'[t] = handler[t]
  <2>1. into[t] # NoQueue => pc[t] \in {"adding", "queueing"}
    BY <1>i
  <2> QED  BY <2>1, Facts DEF Step, At, Known, Unknown, AddMet, Adding, MetAdded, LoadCount,
           StoreCount, Alloc, Queued, RegisterHook, RegisterFails, Jump, RecvReturns,
           EnterHandlerHook, CallOriginalHandler
<1>2. ASSUME NEW k \in Queue, StartsAdding(t, k),
             pc[t] = IF k = "met" THEN "add" ELSE "alloc"
      PROVE  /\ into[t] = NoQueue /\ into'[t] = k /\ handler'[t] = handler[t]
             /\ child'[t] = Len(holds[k]) + 1
             /\ step'[t] = IF ends[k].len = 0 THEN "first" ELSE "next"
             /\ \A u \in Thread : u # t /\ into[u] = k => k \in overlapped'
             /\ overlapped \subseteq overlapped'
             /\ UNCHANGED <<ends, next, prev, length>>
             /\ holds'[k] # holds[k]
             /\ \A j \in Queue : j # k => holds'[j] = holds[j]
  <2>1. /\ StartAdd(t, k, Len(holds[k]) + 1) /\ handler'[t] = handler[t]
        /\ holds' = [holds EXCEPT ![k] = Append(@, handler[t])]
    BY <1>2, Moves DEF StartsAdding
  <2>t. /\ into \in [Thread -> Queue \cup {NoQueue}] /\ step \in [Thread -> AddSteps]
        /\ child \in [Thread -> Pointer] /\ holds \in [Queue -> Seq(Function)]
    BY Facts DEF TInv, TypeOK, QueueTypeOK
  <2>2. /\ into'[t] = k /\ child'[t] = Len(holds[k]) + 1 /\ step[t] = "out"
        /\ step'[t] = IF ends[k].len = 0 THEN "first" ELSE "next"
        /\ UNCHANGED <<ends, next, prev, length>>
    BY <2>1, <2>t DEF StartAdd, AtStep
  <2>3. \A j \in Queue : j # k => holds'[j] = holds[j]
    BY <2>1, <2>t
  <2>4. holds'[k] # holds[k]
    <3>1. handler[t] \in Function /\ holds[k] \in Seq(Function) /\ Len(holds[k]) \in Nat
      BY <1>2, <1>i, Facts
    <3>2. holds'[k] = Append(holds[k], handler[t])
      BY <2>1, <2>t
    <3>3. Len(holds'[k]) = Len(holds[k]) + 1
      BY <3>1, <3>2, AppendProperties
    <3> QED  BY <3>1, <3>3, SMT
  <2>5. overlapped' = overlapped \cup
           (IF \E u \in Thread \ {t} : step[u] # "out" /\ into[u] = k THEN {k} ELSE {})
    BY <2>1, Facts DEF StartAdd
  <2>6. \A u \in Thread : u # t /\ into[u] = k => k \in overlapped'
    BY <1>i, <2>5
  <2> QED  BY <1>i, <2>1, <2>2, <2>3, <2>4, <2>5, <2>6
<1>3. ASSUME AddStep(t) PROVE into[t] \in Queue /\ UNCHANGED <<into, child, overlapped>>
  BY <1>3, <1>i, Facts DEF AddStep, SetFirst, SetNext, SetPrev, SetLast, LoadLength, AtStep
<1>4. ASSUME StoreLength(t) PROVE into[t] \in Queue /\ UNCHANGED overlapped
  BY <1>4, <1>i, Facts DEF StoreLength, AtStep
<1> QED  BY <1>1, <1>2, <1>3, <1>4, QueueSteps

\* OwnChildren is inductive: a thread adds the child it allocated last.
LEMMA OwnChildrenStep ==
    ASSUME NEW t \in Thread, Step(t), TInv, OwnChildren
    PROVE  OwnChildren'
<1>o. \A u \in Thread \ {t} : into'[u] = into[u] /\ child'[u] = child[u] /\ handler'[u] = handler[u]
  BY OthersStay DEF TInv
<1>t. \A u \in Thread : into[u] = NoQueue \/ into[u] \in Queue
  BY Facts DEF TInv, TypeOK, QueueTypeOK
<1>h. /\ into[t] # NoQueue => handler'[t] = handler[t]
      /\ NoQueue \notin Queue
  BY QueueMoves, Facts DEF NoQueue
<1>g. \A k \in Queue : \A c \in 1 .. Len(holds[k]) : 
         c \in 1 .. Len(holds'[k]) /\ holds'[k][c] = holds[k][c]
  <2> TAKE k \in Queue
  <2> TAKE c \in 1 .. Len(holds[k])
  <2>1. CASE holds'[k] = holds[k]
    BY <2>1
  <2>2. CASE holds'[k] # holds[k]
    <3>1. /\ Len(holds'[k]) = Len(holds[k]) + 1 /\ Len(holds[k]) \in Nat
          /\ holds'[k][c] = holds[k][c]
      BY <2>2, HoldsSteps, Facts
    <3>2. c \in 1 .. (Len(holds[k]) + 1)
      BY <3>1, SMT
    <3> QED  BY <3>1, <3>2
  <2> QED  BY <2>1, <2>2
<1>1. CASE UNCHANGED <<into, child, holds>>
  BY <1>1, <1>o, <1>h DEF OwnChildren
<1>2. CASE StoreLength(t) /\ UNCHANGED holds
  <2>1. into'[t] = NoQueue
    BY <1>2, Facts DEF StoreLength, Returns, TInv, TypeOK, QueueTypeOK
  <2> QED  BY <1>2, <2>1, <1>o DEF OwnChildren
<1>3. ASSUME NEW k \in Queue, into[t] = NoQueue, into'[t] = k, handler'[t] = handler[t],
             child'[t] = Len(holds[k]) + 1, holds'[k] # holds[k]
      PROVE  OwnChildren'
  <2>1. /\ Len(holds'[k]) = Len(holds[k]) + 1 /\ Len(holds[k]) \in Nat
        /\ holds'[k][Len(holds[k]) + 1] = handler[t]
    BY <1>3, HoldsSteps, Facts
  <2>2. /\ Len(holds[k]) + 1 \in 1 .. (Len(holds[k]) + 1)
        /\ Len(holds[k]) + 1 \notin 1 .. Len(holds[k])
    BY <2>1, SMT
  <2>3. child'[t] \in 1 .. Len(holds'[k]) /\ holds'[k][child'[t]] = handler'[t]
    BY <1>3, <2>1, <2>2
  <2>4. \A u \in Thread \ {t} : into[u] = k => child[u] \in 1 .. Len(holds[k])
    BY <1>h DEF OwnChildren
  <2>5. \A u \in Thread \ {t} : into[u] = k => child[u] # child'[t]
    BY <1>3, <2>2, <2>4
  <2>6. ASSUME NEW u \in Thread \ {t}, into[u] # NoQueue
        PROVE  /\ child'[u] \in 1 .. Len(holds'[into[u]])
               /\ holds'[into[u]][child'[u]] = handler'[u]
               /\ \A v \in Thread : into'[v] = into'[u] /\ child'[v] = child'[u] => v = u
    <3>1. into[u] \in Queue /\ child[u] \in 1 .. Len(holds[into[u]])
          /\ holds[into[u]][child[u]] = handler[u]
      BY <1>t, <2>6 DEF OwnChildren
    <3>2. \A v \in Thread : v # t /\ into[v] = into[u] /\ child[v] = child[u] => v = u
      BY <2>6 DEF OwnChildren
    <3> QED  BY <1>3, <1>g, <1>o, <2>5, <3>1, <3>2
  <2> QED  BY <1>3, <1>o, <2>3, <2>5, <2>6 DEF OwnChildren
<1> QED  BY <1>1, <1>2, <1>3, QueueMoves DEF queueVars

\* PatchQueued is inductive: a thread goes on to the library when its patch is queued.
LEMMA PatchQueuedStep ==
    ASSUME NEW t \in Thread, Step(t), TInv, OwnChildren, PatchQueued
    PROVE  PatchQueued'
<1> SUFFICES ASSUME NEW f \in Handler,
                    \/ code'[f] # Original
                    \/ \E u \in Thread : pc'[u] \in {"register", "jump"} /\ handler'[u] = f
             PROVE  \E c \in Holding("patches", f)' :
                      \A u \in Thread : into'[u] = "patches" => child'[u] # c
  BY DEF PatchQueued
<1>o. \A u \in Thread \ {t} : /\ pc'[u] = pc[u] /\ handler'[u] = handler[u]
                              /\ into'[u] = into[u] /\ child'[u] = child[u]
  BY OthersStay DEF TInv
<1>q. "patches" \in Queue /\ NoQueue # "patches"
  BY Facts DEF NoQueue
<1>1. CASE Queued(t) /\ handler[t] = f
  <2>1. /\ into'[t] = NoQueue /\ holds' = holds /\ into[t] = "patches"
    BY <1>1, Facts DEF Queued, StoreLength, Returns, At, TInv, TypeOK, QueueTypeOK, InPlace
  <2>2. /\ child[t] \in Holding("patches", f)
        /\ \A u \in Thread : into[u] = "patches" /\ child[u] = child[t] => u = t
    BY <1>1, <1>q, <2>1 DEF OwnChildren, Holding
  <2>3. Holding("patches", f)' = Holding("patches", f)
    BY <2>1 DEF Holding
  <2> QED  BY <1>o, <1>q, <2>1, <2>2, <2>3
<1>2. CASE ~ (Queued(t) /\ handler[t] = f)
  <2>1. \/ code[f] # Original
        \/ \E u \in Thread : pc[u] \in {"register", "jump"} /\ handler[u] = f
    <3>1. CASE code'[f] # code[f]
      BY <3>1, Moves
    <3>2. ASSUME pc'[t] \in {"register", "jump"}, handler'[t] = f
          PROVE  pc[t] = "register" /\ handler[t] = f
      <4>1. pc'[t] \in Patching => handler'[t] = handler[t]
        BY Moves
      <4>2. handler[t] = f
        BY <3>2, <4>1 DEF Patching
      <4>3. pc'[t] = "jump" => pc[t] = "register"
        BY Moves DEF RegisterHook, At
      <4>4. pc'[t] = "register" => pc[t] \in {"queueing", "register"}
        BY Moves
      <4>5. ~ (pc'[t] = "register" /\ pc[t] = "queueing")
        BY <1>2, <4>2, Facts DEF Step, At, Known, Unknown, AddMet, Adding, MetAdded, LoadCount,
           StoreCount, Alloc, Queued, RegisterHook, RegisterFails, Jump, RecvReturns,
           EnterHandlerHook, CallOriginalHandler
      <4> QED  BY <3>2, <4>2, <4>3, <4>4, <4>5
    <3> QED  BY <1>o, <3>1, <3>2
  <2>2. PICK c \in Holding("patches", f) : \A u \in Thread : into[u] = "patches" => child[u] # c
    BY <2>1 DEF PatchQueued
  <2>3. c \in Holding("patches", f)'
    BY <1>q, HoldingSteps
  <2>4. into'[t] = "patches" => child'[t] # c
    <3>1. CASE UNCHANGED <<into, child>>
      BY <2>2, <3>1
    <3>2. CASE StoreLength(t)
      BY <1>q, <3>2, Facts DEF StoreLength, Returns, TInv, TypeOK, QueueTypeOK
    <3>3. ASSUME NEW k \in Queue, into'[t] = k, child'[t] = Len(holds[k]) + 1
          PROVE  into'[t] = "patches" => child'[t] # c
      <4>1. Len(holds["patches"]) \in Nat /\ c \in 1 .. Len(holds["patches"])
        BY <1>q, <2>2, Facts DEF Holding
      <4>2. c # Len(holds["patches"]) + 1
        BY <4>1, SMT
      <4> QED  BY <3>3, <4>2
    <3> QED  BY <3>1, <3>2, <3>3, QueueMoves DEF queueVars
  <2> QED  BY <1>o, <2>2, <2>3, <2>4
<1> QED  BY <1>1, <1>2

-------------------------------------------------------------------------------
(* Queues without overlapping additions.                                         *)

\* A step of t leaves the queue k as it is.
Untouched(t, k) ==
    /\ holds'[k] = holds[k] /\ ends'[k] = ends[k] /\ next'[k] = next[k] /\ prev'[k] = prev[k]
    /\ into'[t] = k <=> into[t] = k
    /\ into[t] = k => child'[t] = child[t] /\ step'[t] = step[t] /\ length'[t] = length[t]

\* A queue that is not touched stays as tidy as it is.
LEMMA UntouchedTidy ==
    ASSUME NEW t \in Thread, Step(t), TInv, NEW k \in Queue, Untouched(t, k),
           \A u, v \in Thread : into[u] = k /\ into[v] = k => u = v,
           \A u \in Thread : into[u] = k => TidyBut(k, u),
           (\A u \in Thread : into[u] # k) => Tidy(k)
    PROVE  /\ \A u, v \in Thread : into'[u] = k /\ into'[v] = k => u = v
           /\ \A u \in Thread : into'[u] = k => TidyBut(k, u)'
           /\ (\A u \in Thread : into'[u] # k) => Tidy(k)'
<1>o. \A u \in Thread : /\ into'[u] = k <=> into[u] = k
                        /\ into[u] = k => /\ child'[u] = child[u] /\ step'[u] = step[u]
                                          /\ length'[u] = length[u]
  BY OthersStay DEF TInv, Untouched
<1>1. ASSUME NEW u \in Thread, into'[u] = k PROVE TidyBut(k, u)'
  BY <1>1, <1>o DEF TidyBut, Untouched
<1>2. Tidy(k) => Tidy(k)'
  BY DEF Tidy, Untouched
<1> QED  BY <1>o, <1>1, <1>2

\* The links of the queues that a thread's step in bb_queue_add changes.
LEMMA AddStepTidy ==
    ASSUME NEW t \in Thread, TInv, AddStep(t), UNCHANGED <<holds, into, child>>,
           NEW k \in Queue, into[t] = k, TidyBut(k, t)
    PROVE  TidyBut(k, t)'
<1> DEFINE n == Len(holds[k])
<1>t. /\ ends \in [Queue -> [first : Pointer, last : Pointer, len : 0 .. MaxChild]]
      /\ next \in [Queue -> [Child -> Pointer]] /\ prev \in [Queue -> [Child -> Pointer]]
      /\ step \in [Thread -> AddSteps] /\ length \in [Thread -> 0 .. MaxChild]
      /\ child \in [Thread -> Pointer]
  BY Facts DEF TInv, TypeOK, QueueTypeOK
<1>n. n \in Nat /\ MaxChild \in Nat /\ n <= MaxChild /\ Len(holds'[k]) = n
  BY Facts DEF TInv, LengthBounded
<1>b. /\ child[t] = n
      /\ ends[k] = [first |-> IF step[t] = "first" THEN Nil ELSE 1,
                    last |-> IF step[t] \in {"load", "store"} THEN n ELSE n - 1,
                    len |-> n - 1]
      /\ next[k] = NextUpTo(IF step[t] \in {"first", "next"} THEN n - 1 ELSE n)
      /\ prev[k] = PrevUpTo(IF step[t] \in {"first", "next", "prev"} THEN n - 1 ELSE n)
      /\ step[t] = "first" => n = 1
      /\ step[t] \in {"next", "prev"} => n > 1
      /\ step[t] = "store" => length[t] = n - 1
  BY DEF TidyBut
<1> HIDE DEF n
<1>s. SUFFICES
      /\ child'[t] = n
      /\ ends'[k] = [first |-> IF step'[t] = "first" THEN Nil ELSE 1,
                     last |-> IF step'[t] \in {"load", "store"} THEN n ELSE n - 1,
                     len |-> n - 1]
      /\ next'[k] = NextUpTo(IF step'[t] \in {"first", "next"} THEN n - 1 ELSE n)
      /\ prev'[k] = PrevUpTo(IF step'[t] \in {"first", "next", "prev"} THEN n - 1 ELSE n)
      /\ step'[t] = "first" => n = 1
      /\ step'[t] \in {"next", "prev"} => n > 1
      /\ step'[t] = "store" => length'[t] = n - 1
  BY <1>n DEF TidyBut, NextUpTo, PrevUpTo
<1>1. CASE SetFirst(t)
  <2>1. /\ step[t] = "first" /\ step'[t] = "last" /\ n = 1
        /\ ends' = [ends EXCEPT ![k].first = n] /\ UNCHANGED <<next, prev, length>>
    BY <1>1, <1>b, <1>t DEF SetFirst, AtStep
  <2>2. ends'[k] = [first |-> 1, last |-> n - 1, len |-> n - 1]
    BY <2>1, <1>b, <1>t
  <2>3. NextUpTo(n - 1) = NextUpTo(n) /\ PrevUpTo(n - 1) = PrevUpTo(n)
    <3>1. \A c \in Child : /\ ~ (c < 1) /\ ~ (c < 0) /\ ~ (c <= 0)
                           /\ c <= 1 => c - 1 = 0
      BY <1>n, SMT DEF Child
    <3>2. n - 1 = 0
      BY <2>1, SMT
    <3> QED  BY <2>1, <3>1, <3>2 DEF NextUpTo, PrevUpTo, Nil
  <2> QED  BY <1>b, <2>1, <2>2, <2>3
<1>2. CASE SetNext(t)
  <2>1. /\ step[t] = "next" /\ step'[t] = "prev" /\ n > 1
        /\ next' = [next EXCEPT ![k][n - 1] = n] /\ UNCHANGED <<ends, prev, length>>
    BY <1>2, <1>b, <1>t DEF SetNext, AtStep
  <2>2. next'[k] = [NextUpTo(n - 1) EXCEPT ![n - 1] = n]
    BY <2>1, <1>b, <1>t
  <2>3. [NextUpTo(n - 1) EXCEPT ![n - 1] = n] = NextUpTo(n)
    <3>1. \A c \in Child : /\ c < n - 1 => c < n /\ c # n - 1
                           /\ c = n - 1 => c < n /\ c + 1 = n
                           /\ ~ (c < n - 1) /\ c # n - 1 => ~ (c < n)
      BY <1>n, SMT DEF Child
    <3> QED  BY <3>1 DEF NextUpTo
  <2> QED  BY <1>b, <2>1, <2>2, <2>3
<1>3. CASE SetPrev(t)
  <2>1. /\ step[t] = "prev" /\ step'[t] = "last" /\ n > 1
        /\ prev' = [prev EXCEPT ![k][n] = n - 1] /\ UNCHANGED <<ends, next, length>>
    BY <1>3, <1>b, <1>t DEF SetPrev, AtStep
  <2>2. prev'[k] = [PrevUpTo(n - 1) EXCEPT ![n] = n - 1]
    BY <2>1, <1>b, <1>t
  <2>3. [PrevUpTo(n - 1) EXCEPT ![n] = n - 1] = PrevUpTo(n)
    <3>1. \A c \in Child : /\ c <= n - 1 => c <= n /\ c # n
                           /\ c = n => c <= n /\ c - 1 = n - 1
                           /\ ~ (c <= n - 1) /\ c # n => ~ (c <= n)
      BY <1>n, SMT DEF Child
    <3> QED  BY <3>1 DEF PrevUpTo
  <2> QED  BY <1>b, <2>1, <2>2, <2>3
<1>4. CASE SetLast(t)
  <2>1. /\ step[t] = "last" /\ step'[t] = "load"
        /\ ends' = [ends EXCEPT ![k].last = n] /\ UNCHANGED <<next, prev, length>>
    BY <1>4, <1>b, <1>t DEF SetLast, AtStep
  <2>2. ends'[k] = [first |-> 1, last |-> n, len |-> n - 1]
    BY <2>1, <1>b, <1>t
  <2> QED  BY <1>b, <2>1, <2>2
<1>5. CASE LoadLength(t)
  <2>1. /\ step[t] = "load" /\ step'[t] = "store" /\ length'[t] = ends[k].len
        /\ UNCHANGED <<ends, next, prev>>
    BY <1>5, <1>b, <1>t DEF LoadLength, AtStep
  <2> QED  BY <1>b, <2>1
<1> QED  BY <1>1, <1>2, <1>3, <1>4, <1>5 DEF AddStep

\* TidyAlone is inductive: one addition at a time goes through the shapes of TidyBut,
\* and leaves the queue with one child more.
LEMMA TidyStep ==
    ASSUME NEW t \in Thread, Step(t), TInv, TidyAlone
    PROVE  TidyAlone'
<1> SUFFICES ASSUME NEW k \in Queue, k \notin overlapped'
    PROVE  /\ \A u, v \in Thread : into'[u] = k /\ into'[v] = k => u = v
           /\ \A u \in Thread : into'[u] = k => TidyBut(k, u)'
           /\ (\A u \in Thread : into'[u] # k) => Tidy(k)'
  BY DEF TidyAlone
<1>o. \A u \in Thread \ {t} : into'[u] = into[u]
  BY OthersStay DEF TInv
<1>i. overlapped \subseteq overlapped' =>
      /\ \A u, v \in Thread : into[u] = k /\ into[v] = k => u = v
      /\ \A u \in Thread : into[u] = k => TidyBut(k, u)
      /\ (\A u \in Thread : into[u] # k) => Tidy(k)
  BY DEF TidyAlone
<1>t. /\ ends \in [Queue -> [first : Pointer, last : Pointer, len : 0 .. MaxChild]]
      /\ next \in [Queue -> [Child -> Pointer]] /\ prev \in [Queue -> [Child -> Pointer]]
      /\ step \in [Thread -> AddSteps] /\ length \in [Thread -> 0 .. MaxChild]
      /\ into \in [Thread -> Queue \cup {NoQueue}] /\ NoQueue \notin Queue
  BY Facts DEF TInv, TypeOK, QueueTypeOK, NoQueue
<1>1. CASE UNCHANGED <<queueVars, holds>>
  <2>1. Untouched(t, k)
    BY <1>1 DEF queueVars, Untouched
  <2> QED  BY <1>1, <1>i, <2>1, UntouchedTidy DEF queueVars
<1>2. ASSUME NEW j \in Queue, into[t] = NoQueue, into'[t] = j, child'[t] = Len(holds[j]) + 1,
             step'[t] = (IF ends[j].len = 0 THEN "first" ELSE "next"),
             \A u \in Thread : u # t /\ into[u] = j => j \in overlapped',
             overlapped \subseteq overlapped', UNCHANGED <<ends, next, prev, length>>,
             holds'[j] # holds[j], \A i \in Queue : i # j => holds'[i] = holds[i]
      PROVE  /\ \A u, v \in Thread : into'[u] = k /\ into'[v] = k => u = v
             /\ \A u \in Thread : into'[u] = k => TidyBut(k, u)'
             /\ (\A u \in Thread : into'[u] # k) => Tidy(k)'
  <2>1. CASE j # k
    <3>1. Untouched(t, k)
      BY <1>2, <1>t, <2>1 DEF Untouched
    <3> QED  BY <1>2, <1>i, <3>1, UntouchedTidy
  <2>2. CASE j = k
    <3>1. \A u \in Thread : into[u] # k
      BY <1>2, <1>t, <2>2
    <3>2. Tidy(k)
      BY <1>2, <1>i, <3>1
    <3>3. \A u \in Thread : into'[u] = k => u = t
      BY <1>o, <3>1
    <3> DEFINE n == Len(holds[k])
    <3>4. n \in Nat /\ Len(holds'[k]) = n + 1
      BY <1>2, <2>2, HoldsSteps, Facts
    <3>5. /\ ends'[k] = [first |-> IF n = 0 THEN Nil ELSE 1, last |-> n, len |-> n]
          /\ next'[k] = NextUpTo(n) /\ prev'[k] = PrevUpTo(n)
          /\ child'[t] = n + 1 /\ step'[t] = IF n = 0 THEN "first" ELSE "next"
      BY <1>2, <2>2, <3>2 DEF Tidy
    <3> HIDE DEF n
    <3>6. /\ (n + 1) - 1 = n /\ (n = 0 => n + 1 = 1) /\ (n # 0 => n + 1 > 1)
      BY <3>4, SMT
    <3>7. TidyBut(k, t)'
      BY <3>4, <3>5, <3>6 DEF TidyBut, NextUpTo, PrevUpTo
    <3> QED  BY <1>2, <2>2, <3>3, <3>7
  <2> QED  BY <2>1, <2>2
<1>3. CASE into[t] \in Queue /\ AddStep(t) /\ UNCHANGED <<holds, into, child, overlapped>>
  <2>1. CASE into[t] # k
    <3>1. Untouched(t, k)
      <4> USE <1>3, <1>t, <2>1 DEF Untouched
      <4>1. CASE SetFirst(t) \/ SetLast(t)
        BY <4>1 DEF SetFirst, SetLast
      <4>2. CASE SetNext(t) \/ SetPrev(t)
        BY <4>2 DEF SetNext, SetPrev
      <4>3. CASE LoadLength(t)
        BY <4>3 DEF LoadLength
      <4> QED  BY <4>1, <4>2, <4>3 DEF AddStep
    <3> QED  BY <1>3, <1>i, <3>1, UntouchedTidy
  <2>2. CASE into[t] = k
    <3>1. TidyBut(k, t)'
      BY <1>3, <1>i, <2>2, AddStepTidy
    <3> QED  BY <1>3, <1>i, <2>2, <3>1
  <2> QED  BY <2>1, <2>2
<1>4. CASE into[t] \in Queue /\ StoreLength(t) /\ UNCHANGED <<holds, overlapped>>
  <2>1. /\ into'[t] = NoQueue /\ step[t] = "store" /\ UNCHANGED <<next, prev>>
        /\ ends' = [ends EXCEPT ![into[t]].len = length[t] + 1]
    BY <1>4, <1>t DEF StoreLength, AtStep, Returns
  <2>2. CASE into[t] # k
    <3>1. Untouched(t, k)
      BY <1>4, <1>t, <2>1, <2>2 DEF Untouched
    <3> QED  BY <1>4, <1>i, <3>1, UntouchedTidy
  <2>3. CASE into[t] = k
    <3>1. TidyBut(k, t) /\ \A u \in Thread : into'[u] # k
      BY <1>4, <1>i, <1>o, <1>t, <2>1, <2>3
    <3> DEFINE n == Len(holds[k])
    <3>2. /\ ends[k] = [first |-> 1, last |-> n, len |-> n - 1]
          /\ next[k] = NextUpTo(n) /\ prev[k] = PrevUpTo(n) /\ length[t] = n - 1
      BY <2>1, <3>1 DEF TidyBut
    <3>3. n \in Nat /\ n # 0 /\ (n - 1) + 1 = n
      <4>1. n \in Nat /\ n - 1 \in 0 .. MaxChild
        BY <1>t, <3>2, Facts
      <4> QED  BY <4>1, Facts, SMT
    <3>4. ends'[k] = [first |-> 1, last |-> n, len |-> n]
      BY <1>t, <2>1, <2>3, <3>2, <3>3
    <3>5. Tidy(k)'
      BY <1>4, <2>1, <3>2, <3>3, <3>4 DEF Tidy, NextUpTo, PrevUpTo
    <3> QED  BY <3>1, <3>5
  <2> QED  BY <2>2, <2>3
<1> QED  BY <1>1, <1>2, <1>3, <1>4, QueueMoves

-------------------------------------------------------------------------------
(* The walks along a queue's links.                                              *)

\* What a queue's walks compute, and their first steps.
LEMMA Walks ==
    ASSUME TInv, NEW k \in Queue
    PROVE  /\ IsWalk(FromFirst(k), MaxChild, ends[k].first, next[k], Nil)
           /\ IsWalk(FromLast(k), MaxChild, ends[k].last, prev[k], Nil)
           /\ ends[k].first \in Pointer /\ ends[k].last \in Pointer
           /\ ends[k].len \in 0 .. MaxChild
           /\ next[k] \in [Child -> Pointer] /\ prev[k] \in [Child -> Pointer]
<1>1. PICK f : IsWalk(f, MaxChild, ends[k].first, next[k], Nil)
  BY WalkExists, Facts
<1>2. PICK g : IsWalk(g, MaxChild, ends[k].last, prev[k], Nil)
  BY WalkExists, Facts
<1>3. IsWalk(FromFirst(k), MaxChild, ends[k].first, next[k], Nil)
  BY <1>1 DEF IsWalk, FromFirst
<1>4. IsWalk(FromLast(k), MaxChild, ends[k].last, prev[k], Nil)
  BY <1>2 DEF IsWalk, FromLast
<1> QED  BY <1>3, <1>4 DEF TInv, TypeOK, QueueTypeOK

\* A walk forward through the children 1 .. n.
LEMMA ForwardWalk ==
    ASSUME NEW f, NEW s, NEW n \in 0 .. MaxChild, s = (IF n = 0 THEN Nil ELSE 1),
           MaxChild \in Nat, IsWalk(f, MaxChild, s, NextUpTo(n), Nil)
    PROVE  \A i \in 0 .. MaxChild : f[i] = IF i < n THEN i + 1 ELSE Nil
<1> DEFINE S == {i \in Nat : i <= MaxChild => f[i] = IF i < n THEN i + 1 ELSE Nil}
<1>f. \A i \in 0 .. MaxChild :
         f[i] = IF i = 0 THEN s ELSE IF f[i - 1] = Nil THEN Nil ELSE NextUpTo(n)[f[i - 1]]
  BY DEF IsWalk
<1>1. 0 \in S
  <2>1. f[0] = s
    BY <1>f, SMT
  <2>2. n \in Nat /\ (0 < n <=> n # 0)
    BY SMT
  <2> QED  BY <2>1, <2>2, SMT
<1>2. ASSUME NEW i \in 0 .. (MaxChild - 1), i \in S PROVE i + 1 \in S
  <2>1. /\ i \in Nat /\ i + 1 \in 0 .. MaxChild /\ i + 1 # 0 /\ (i + 1) - 1 = i
        /\ n \in Nat /\ i <= MaxChild
    BY SMT
  <2>2. f[i + 1] = IF f[i] = Nil THEN Nil ELSE NextUpTo(n)[f[i]]
    BY <1>f, <2>1
  <2>3. f[i] = IF i < n THEN i + 1 ELSE Nil
    BY <1>2, <2>1
  <2>4. CASE i < n
    <3>1. i + 1 \in Child /\ f[i] = i + 1 /\ i + 1 # Nil
      BY <2>1, <2>3, <2>4, SMT DEF Child, Nil
    <3>2. f[i + 1] = IF i + 1 < n THEN (i + 1) + 1 ELSE Nil
      BY <2>2, <3>1 DEF NextUpTo
    <3> QED  BY <2>1, <3>2
  <2>5. CASE ~ (i < n)
    <3>1. ~ (i + 1 < n)
      BY <2>1, <2>5, SMT
    <3> QED  BY <2>1, <2>2, <2>3, <2>5, <3>1
  <2> QED  BY <2>4, <2>5
<1>3. 0 .. MaxChild \subseteq S
  <2> HIDE DEF S
  <2> QED  BY <1>1, <1>2, UpTo
<1> QED  BY <1>3, SMT

\* A walk backward from the child s through the children s .. 1.
LEMMA BackwardWalk ==
    ASSUME NEW f, NEW s \in 0 .. MaxChild, NEW n \in 0 .. MaxChild, s <= n,
           MaxChild \in Nat, IsWalk(f, MaxChild, s, PrevUpTo(n), Nil)
    PROVE  \A i \in 0 .. MaxChild : f[i] = IF i < s THEN s - i ELSE Nil
<1> DEFINE S == {i \in Nat : i <= MaxChild => f[i] = IF i < s THEN s - i ELSE Nil}
<1>f. \A i \in 0 .. MaxChild :
         f[i] = IF i = 0 THEN s ELSE IF f[i - 1] = Nil THEN Nil ELSE PrevUpTo(n)[f[i - 1]]
  BY DEF IsWalk
<1>1. 0 \in S
  <2>1. f[0] = s
    BY <1>f, SMT
  <2> QED  BY <2>1, SMT DEF Nil
<1>2. ASSUME NEW i \in 0 .. (MaxChild - 1), i \in S PROVE i + 1 \in S
  <2>1. /\ i \in Nat /\ i + 1 \in 0 .. MaxChild /\ i + 1 # 0 /\ (i + 1) - 1 = i
        /\ s \in Nat /\ n \in Nat /\ i <= MaxChild
    BY SMT
  <2>2. f[i + 1] = IF f[i] = Nil THEN Nil ELSE PrevUpTo(n)[f[i]]
    BY <1>f, <2>1
  <2>3. f[i] = IF i < s THEN s - i ELSE Nil
    BY <1>2, <2>1
  <2>4. CASE i < s
    <3>1. /\ s - i \in Child /\ s - i <= n /\ s - i # Nil
          /\ (s - i) - 1 = IF i + 1 < s THEN s - (i + 1) ELSE Nil
      BY <2>1, <2>4, SMT DEF Child, Nil
    <3>2. f[i + 1] = (s - i) - 1
      <4>1. \A c \in Child : c <= n => PrevUpTo(n)[c] = c - 1
        BY DEF PrevUpTo
      <4>2. f[i] = s - i /\ f[i] # Nil
        BY <2>3, <2>4, <3>1
      <4> QED  BY <2>2, <3>1, <4>1, <4>2
    <3>3. f[i + 1] = IF i + 1 < s THEN s - (i + 1) ELSE Nil
      BY <3>1, <3>2
    <3> QED  BY <2>1, <3>3
  <2>5. CASE ~ (i < s)
    <3>1. ~ (i + 1 < s)
      BY <2>1, <2>5, SMT
    <3> QED  BY <2>1, <2>2, <2>3, <2>5, <3>1
  <2> QED  BY <2>4, <2>5
<1>3. 0 .. MaxChild \subseteq S
  <2> HIDE DEF S
  <2> QED  BY <1>1, <1>2, UpTo
<1> QED  BY <1>3, SMT

\* A tidy queue lists all of its children, and pops all of them.
LEMMA TidyWalks ==
    ASSUME TInv, NEW k \in Queue, Tidy(k)
    PROVE  /\ Listed(k) = 1 .. Len(holds[k])
           /\ Poppable(k) = 1 .. Len(holds[k])
           /\ ends[k].len = Len(holds[k])
           /\ \A i \in 0 .. (ends[k].len - 1) : ~ PopFaults(k, i)
<1> DEFINE n == Len(holds[k])
           e == IF n = 0 THEN Nil ELSE 1
<1>n. n \in Nat /\ n <= MaxChild /\ MaxChild \in Nat
  BY Facts DEF TInv, LengthBounded
<1>1. /\ ends[k].first = e /\ ends[k].last = n /\ ends[k].len = n
      /\ next[k] = NextUpTo(n) /\ prev[k] = PrevUpTo(n)
  BY DEF Tidy
<1>2. /\ IsWalk(FromFirst(k), MaxChild, e, NextUpTo(n), Nil)
      /\ IsWalk(FromLast(k), MaxChild, n, PrevUpTo(n), Nil)
  BY <1>1, Walks
<1> HIDE DEF n
<1>3. n \in 0 .. MaxChild /\ n <= n
  BY <1>n, SMT
<1>4. \A i \in 0 .. MaxChild : FromFirst(k)[i] = IF i < n THEN i + 1 ELSE Nil
  BY <1>2, <1>3, <1>n, ForwardWalk
<1>5. \A i \in 0 .. MaxChild : FromLast(k)[i] = IF i < n THEN n - i ELSE Nil
  BY <1>2, <1>3, <1>n, BackwardWalk
<1>6. Listed(k) = 1 .. n
  <2>1. \A i \in 0 .. MaxChild : /\ i < n => i + 1 \in 1 .. n
                                 /\ ~ (i < n) => Nil \notin 1 .. n
    BY <1>n, SMT DEF Nil
  <2>2. \A c \in 1 .. n : /\ c - 1 \in 0 .. MaxChild /\ c - 1 < n /\ (c - 1) + 1 = c
                          /\ c # Nil
    BY <1>n, SMT DEF Nil
  <2> QED  BY <1>4, <2>1, <2>2 DEF Listed
<1>7. \A i \in 0 .. (n - 1) : ~ PopFaults(k, i)
  <2>1. \A i \in 0 .. (n - 1) : \A j \in {i, i + 1} :
            j < n => j \in 0 .. MaxChild /\ n - j # Nil
    BY <1>n, SMT DEF Nil
  <2> QED  BY <1>1, <1>5, <2>1 DEF PopFaults
<1>8. Poppable(k) = 1 .. n
  <2>1. \A i \in 0 .. (n - 1) : i \in 0 .. MaxChild /\ i < n /\ n - i \in 1 .. n
    BY <1>n, SMT
  <2>2. \A c \in 1 .. n : n - c \in 0 .. (n - 1) /\ n - (n - c) = c
    BY <1>n, SMT
  <2> QED  BY <1>1, <1>5, <1>7, <2>1, <2>2 DEF Poppable
<1> QED  BY <1>1, <1>6, <1>7, <1>8 DEF n

\* A queue in the middle of its one addition pops every older child but the first.
LEMMA TidyButPops ==
    ASSUME TInv, NEW k \in Queue, NEW t \in Thread, TidyBut(k, t), into[t] = k,
           NEW c \in 1 .. Len(holds[k]), c # child[t], c # 1
    PROVE  c \in Poppable(k)
<1> DEFINE n == Len(holds[k])
<1>n. n \in Nat /\ n <= MaxChild /\ MaxChild \in Nat
  BY Facts DEF TInv, LengthBounded
<1>1. /\ child[t] = n /\ ends[k].len = n - 1
      /\ ends[k].last = n - 1 \/ ends[k].last = n
      /\ \E m \in {n - 1, n} : prev[k] = PrevUpTo(m)
      /\ step[t] \in {"load", "store"} => prev[k] = PrevUpTo(n)
      /\ step[t] \notin {"load", "store"} => ends[k].last = n - 1
  BY DEF TidyBut
<1>2. PICK m \in {n - 1, n} : prev[k] = PrevUpTo(m) /\ ends[k].last <= m /\ m \in 0 .. MaxChild
  <2>1. n \in 0 .. MaxChild /\ n - 1 \in 0 .. MaxChild /\ n - 1 <= n - 1 /\ n - 1 <= n /\ n <= n
    BY <1>n, SMT
  <2> QED  BY <1>1, <2>1
<1>3. IsWalk(FromLast(k), MaxChild, ends[k].last, PrevUpTo(m), Nil)
  BY <1>2, Walks
<1> DEFINE s == ends[k].last
<1>4. s \in 0 .. MaxChild
  BY <1>n, <1>1, SMT
<1> HIDE DEF s
<1>5. \A i \in 0 .. MaxChild : FromLast(k)[i] = IF i < s THEN s - i ELSE Nil
  <2>1. IsWalk(FromLast(k), MaxChild, s, PrevUpTo(m), Nil) /\ s <= m
    BY <1>2, <1>3 DEF s
  <2> QED  BY <1>2, <1>4, <1>n, <2>1, BackwardWalk
<1>6. s = n - 1 \/ s = n
  BY <1>1 DEF s
<1>7. s - c \in 0 .. (n - 2) /\ s - c \in 0 .. MaxChild /\ s - c < s /\ s - (s - c) = c /\ c # Nil
  BY <1>n, <1>1, <1>6, SMT DEF Nil
<1>8. FromLast(k)[s - c] = c
  BY <1>5, <1>7
<1>9. n - 2 = ends[k].len - 1 /\ ends[k].len = n - 1
  BY <1>1, <1>n, SMT
<1>10. ~ PopFaults(k, s - c)
  <2>1. \A j \in {s - c, s - c + 1} : j < n - 1 => j \in 0 .. MaxChild /\ j < s /\ s - j # Nil
    BY <1>n, <1>4, <1>6, <1>7, SMT DEF Nil
  <2> QED  BY <1>5, <1>9, <2>1 DEF PopFaults
<1> QED  BY <1>7, <1>8, <1>9, <1>10 DEF Poppable

\* The queues of the client, by induction on the steps.
THEOREM QueuesInductive == Spec => [](OwnChildren /\ TidyAlone /\ PatchQueued)
<1> DEFINE Inv == OwnChildren /\ TidyAlone /\ PatchQueued
<1>1. Init => Inv
  <2> SUFFICES ASSUME Init PROVE Inv
    OBVIOUS
  <2> USE HandlerAssumption
  <2>1. /\ \A t \in Thread : into[t] = NoQueue
        /\ NoQueue \notin Queue
    BY DEF Init, QueueInit, NoQueue
  <2>2. \A f \in Handler : code[f] = Original /\ \A t \in Thread : pc[t] = "idle"
    BY DEF Init
  <2>3. ASSUME NEW k \in Queue PROVE Tidy(k)
    <3> DEFINE n == Len(holds[k])
    <3>1. n \in {0, 1}
      <4>1. Len(<<>>) = 0 /\ Len(<<Recv>>) = 1
        BY SMT
      <4> QED  BY <4>1 DEF Init
    <3>2. /\ ends[k] = [first |-> n, last |-> n, len |-> IF n = Nil THEN 0 ELSE 1]
          /\ next[k] = [x \in Child |-> Nil] /\ prev[k] = [x \in Child |-> Nil]
      BY DEF Init, QueueInit
    <3> HIDE DEF n
    <3>3. /\ \A x \in Child : ~ (x < 0) /\ ~ (x < 1) /\ ~ (x <= 0)
          /\ \A x \in Child : x <= 1 => x - 1 = 0
      BY QueueAssumption, SMT DEF Child
    <3>4. NextUpTo(n) = [x \in Child |-> Nil] /\ PrevUpTo(n) = [x \in Child |-> Nil]
      BY <3>1, <3>3 DEF NextUpTo, PrevUpTo, Nil
    <3>5. ends[k] = [first |-> IF n = 0 THEN Nil ELSE 1, last |-> n, len |-> n]
      BY <3>1, <3>2 DEF Nil
    <3> QED  BY <3>2, <3>4, <3>5 DEF Tidy, n
  <2> QED  BY <2>1, <2>2, <2>3 DEF OwnChildren, TidyAlone, PatchQueued
<1>2. TInv /\ Inv /\ [Next]_vars => Inv'
  <2> SUFFICES ASSUME TInv, Inv, [Next]_vars PROVE Inv'
    OBVIOUS
  <2>1. ASSUME NEW t \in Thread, Step(t) PROVE Inv'
    BY <2>1, OwnChildrenStep, TidyStep, PatchQueuedStep
  <2>2. CASE UNCHANGED allButCrash
    <3> USE <2>2 DEF allButCrash, queueVars
    <3>1. OwnChildren'
      BY DEF OwnChildren
    <3>2. TidyAlone'
      BY DEF TidyAlone, Tidy, TidyBut
    <3>3. PatchQueued'
      BY DEF PatchQueued, Holding
    <3> QED  BY <3>1, <3>2, <3>3
  <2> QED  BY <2>1, <2>2, Steps1
<1> QED  BY <1>1, <1>2, TypeCorrect, PTL DEF Spec

\* Where no two additions overlapped, unhook_all pops without a fault the children that
\* bb_queue_exists meets, as many as the length says.
THEOREM SameBothWaysCorrect == Spec => []SameBothWays
<1>1. TInv /\ TidyAlone => SameBothWays
  <2> SUFFICES ASSUME TInv, TidyAlone, NEW k \in Queue \ overlapped,
                      \A t \in Thread : step[t] = "out" \/ into[t] # k
               PROVE  /\ \A i \in 0 .. (ends[k].len - 1) : ~ PopFaults(k, i)
                      /\ Poppable(k) = Listed(k)
                      /\ Cardinality(Listed(k)) = ends[k].len
    BY Facts DEF SameBothWays
  <2>1. \A t \in Thread : into[t] # k
    BY Facts DEF TInv, InPlace, NoQueue
  <2>2. /\ Listed(k) = 1 .. Len(holds[k]) /\ Poppable(k) = 1 .. Len(holds[k])
        /\ ends[k].len = Len(holds[k])
        /\ \A i \in 0 .. (ends[k].len - 1) : ~ PopFaults(k, i)
    BY <2>1, TidyWalks DEF TidyAlone
  <2>3. Cardinality(1 .. Len(holds[k])) = Len(holds[k])
    <3>1. Len(holds[k]) \in Nat
      BY Facts
    <3>2. Cardinality(1 .. Len(holds[k])) =
            IF 1 > Len(holds[k]) THEN 0 ELSE Len(holds[k]) - 1 + 1
      BY <3>1, FS_Interval, SMT
    <3> QED  BY <3>1, <3>2, SMT
  <2> QED  BY <2>2, <2>3
<1> QED  BY <1>1, TypeCorrect, QueuesInductive, PTL

\* A handler with a jump has a patch that HookEngine_unhook_all pops, unless two
\* additions to the queue of patches overlapped.
THEOREM HandlersCoveredCorrect == Spec => []HandlersCovered
<1>1. TInv /\ HInv /\ OwnChildren /\ TidyAlone /\ PatchQueued => HandlersCovered
  <2> SUFFICES ASSUME TInv, HInv, OwnChildren, TidyAlone, PatchQueued, NEW f \in Handler,
                      code[f] # Original, "patches" \notin overlapped
               PROVE  \E c \in Poppable("patches") : holds["patches"][c] = f
    BY DEF HandlersCovered
  <2>q. "patches" \in Queue \ overlapped /\ Recv \notin Handler
    BY Facts
  <2>1. PICK c \in Holding("patches", f) : \A t \in Thread : into[t] = "patches" => child[t] # c
    BY DEF PatchQueued
  <2>2. c \in 1 .. Len(holds["patches"]) /\ holds["patches"][c] = f /\ c # 1
    BY <2>q DEF Holding, HInv, HeldHandlers
  <2>3. CASE \A t \in Thread : into[t] # "patches"
    BY <2>q, <2>2, <2>3, TidyWalks DEF TidyAlone
  <2>4. ASSUME NEW t \in Thread, into[t] = "patches" PROVE c \in Poppable("patches")
    BY <2>q, <2>1, <2>2, <2>4, TidyButPops DEF TidyAlone
  <2> QED  BY <2>2, <2>3, <2>4
<1> QED  BY <1>1, TypeCorrect, HInvInductive, QueuesInductive, PTL

-------------------------------------------------------------------------------
(* No walk runs in a circle.                                                     *)

\* RanksExist is inductive: the child that becomes the last one gets a rank above all
\* others, and no link led away from it before.
LEMMA RanksStep ==
    ASSUME NEW t \in Thread, Step(t), TInv, OwnChildren, RanksExist
    PROVE  RanksExist'
<1> SUFFICES ASSUME NEW k \in Queue PROVE \E r \in [Child -> Nat] : Ranked(k, r)'
  BY DEF RanksExist
<1>r. PICK r \in [Child -> Nat] : Ranked(k, r)
  BY DEF RanksExist
<1>i. /\ \A c \in Child : r[c] > 0 => ends[k].last # Nil /\ r[c] <= r[ends[k].last]
      /\ ends[k].last # Nil => r[ends[k].last] > 0
      /\ \A c, d \in Child : next[k][c] = d => Before(r, c, d)
      /\ \A c, d \in Child : prev[k][d] = c => Before(r, c, d)
      /\ \A c \in Child : c > Len(holds[k]) => r[c] = 0
      /\ \A u \in Thread :
           into[u] = k /\ step[u] \in {"first", "next", "prev", "last"} => r[child[u]] = 0
  BY <1>r DEF Ranked
<1>o. \A u \in Thread \ {t} : into'[u] = into[u] /\ step'[u] = step[u] /\ child'[u] = child[u]
  BY OthersStay DEF TInv
<1>t. /\ ends \in [Queue -> [first : Pointer, last : Pointer, len : 0 .. MaxChild]]
      /\ next \in [Queue -> [Child -> Pointer]] /\ prev \in [Queue -> [Child -> Pointer]]
      /\ step \in [Thread -> AddSteps] /\ child \in [Thread -> Pointer]
      /\ into \in [Thread -> Queue \cup {NoQueue}] /\ NoQueue \notin Queue
      /\ MaxChild \in Nat /\ Nil \notin Child
  <2>1. MaxChild \in Nat /\ Nil \notin Child
    BY QueueAssumption, SMT DEF Child, Nil
  <2> QED  BY <2>1, Facts DEF TInv, TypeOK, QueueTypeOK, NoQueue
<1>h. \A c \in Child : c > Len(holds'[k]) => c > Len(holds[k])
  <2>1. Len(holds[k]) \in Nat /\ \A c \in Child : c \in Nat
    BY <1>t, Facts, SMT DEF Child
  <2>2. Len(holds'[k]) = Len(holds[k]) \/ Len(holds'[k]) = Len(holds[k]) + 1
    BY HoldsSteps
  <2> QED  BY <2>1, <2>2, SMT
<1>1. ASSUME ends'[k].last = ends[k].last,
             \A c, d \in Child : next'[k][c] = d => Before(r, c, d),
             \A c, d \in Child : prev'[k][d] = c => Before(r, c, d),
             into'[t] = k /\ step'[t] \in {"first", "next", "prev", "last"} => r[child'[t]] = 0
      PROVE  Ranked(k, r)'
  <2>1. \A u \in Thread :
           into'[u] = k /\ step'[u] \in {"first", "next", "prev", "last"} => r[child'[u]] = 0
    BY <1>1, <1>i, <1>o
  <2> QED  BY <1>1, <1>i, <1>h, <2>1 DEF Ranked
<1>2. CASE UNCHANGED <<queueVars, holds>>
  BY <1>1, <1>2, <1>i DEF queueVars
<1>3. ASSUME NEW j \in Queue, into[t] = NoQueue, into'[t] = j, child'[t] = Len(holds[j]) + 1,
             holds'[j] # holds[j], UNCHANGED <<ends, next, prev>>
      PROVE  Ranked(k, r)'
  <2>1. ASSUME j = k PROVE r[child'[t]] = 0
    <3>1. Len(holds'[k]) = Len(holds[k]) + 1 /\ Len(holds[k]) \in Nat
      BY <1>3, <2>1, HoldsSteps, Facts
    <3>2. Len(holds'[k]) <= MaxChild
      BY <1>3, <2>1, <3>1, LengthStep DEF LengthBounded
    <3>3. Len(holds[k]) + 1 \in Child /\ Len(holds[k]) + 1 > Len(holds[k])
      BY <1>t, <3>1, <3>2, SMT DEF Child
    <3> QED  BY <1>3, <1>i, <2>1, <3>3
  <2> QED  BY <1>1, <1>3, <1>i, <2>1
<1>4. CASE into[t] \in Queue /\ AddStep(t) /\ UNCHANGED <<holds, into, child, overlapped>>
  <2>1. CASE SetFirst(t)
    <3>1. /\ step[t] = "first" /\ UNCHANGED <<next, prev>>
          /\ ends' = [ends EXCEPT ![into[t]].first = child[t]]
      BY <2>1 DEF SetFirst, AtStep
    <3>2. ends'[k].last = ends[k].last
      BY <1>t, <1>4, <3>1
    <3> QED  BY <1>1, <1>4, <1>i, <3>1, <3>2
  <2>2. CASE SetNext(t)
    <3>1. /\ step[t] = "next" /\ UNCHANGED <<ends, prev>>
          /\ next' = [next EXCEPT ![into[t]][ends[into[t]].last] = child[t]]
      BY <2>2 DEF SetNext, AtStep
    <3>2. \A c, d \in Child : next'[k][c] = d => Before(r, c, d)
      <4>1. ASSUME NEW c \in Child, NEW d \in Child, next'[k][c] = d PROVE Before(r, c, d)
        <5>1. CASE into[t] = k /\ c = ends[k].last
          <6>1. d = child[t] /\ r[d] = 0 /\ r[c] > 0
            BY <1>i, <1>t, <3>1, <4>1, <5>1
          <6> QED  BY <6>1 DEF Before
        <5>2. CASE ~ (into[t] = k /\ c = ends[k].last)
          BY <1>i, <1>t, <3>1, <4>1, <5>2
        <5> QED  BY <5>1, <5>2
      <4> QED  BY <4>1
    <3> QED  BY <1>1, <1>4, <1>i, <3>1, <3>2
  <2>3. CASE SetPrev(t)
    <3>1. /\ step[t] = "prev" /\ UNCHANGED <<ends, next>>
          /\ prev' = [prev EXCEPT ![into[t]][child[t]] = ends[into[t]].last]
      BY <2>3 DEF SetPrev, AtStep
    <3>2. \A c, d \in Child : prev'[k][d] = c => Before(r, c, d)
      <4>1. ASSUME NEW c \in Child, NEW d \in Child, prev'[k][d] = c PROVE Before(r, c, d)
        <5>1. CASE into[t] = k /\ d = child[t]
          <6>1. c = ends[k].last /\ r[d] = 0 /\ r[c] > 0
            BY <1>i, <1>t, <3>1, <4>1, <5>1
          <6> QED  BY <6>1 DEF Before
        <5>2. CASE ~ (into[t] = k /\ d = child[t])
          BY <1>i, <1>t, <3>1, <4>1, <5>2
        <5> QED  BY <5>1, <5>2
      <4> QED  BY <4>1
    <3> QED  BY <1>1, <1>4, <1>i, <3>1, <3>2
  <2>4. CASE LoadLength(t)
    <3>1. step'[t] = "store" /\ UNCHANGED <<ends, next, prev>>
      BY <1>t, <2>4 DEF LoadLength, AtStep
    <3> QED  BY <1>1, <1>4, <1>i, <3>1
  <2>5. CASE SetLast(t) /\ into[t] # k
    <3>1. ends'[k].last = ends[k].last /\ UNCHANGED <<next, prev>>
      BY <1>t, <1>4, <2>5 DEF SetLast
    <3> QED  BY <1>1, <1>4, <1>i, <2>5, <3>1
  <2>6. CASE SetLast(t) /\ into[t] = k
    <3> DEFINE a == child[t]
               l == ends[k].last
               m == IF l = Nil THEN 1 ELSE r[l] + 1
    <3>1. /\ step[t] = "last" /\ step'[t] = "load" /\ UNCHANGED <<next, prev>>
          /\ ends'[k].last = a
      BY <1>t, <2>6 DEF SetLast, AtStep
    <3>2. /\ a \in 1 .. Len(holds[k]) /\ r[a] = 0
          /\ \A u \in Thread : into[u] = k /\ child[u] = a => u = t
      BY <1>i, <1>t, <2>6, <3>1 DEF OwnChildren
    <3>3. Len(holds[k]) \in Nat /\ Len(holds[k]) <= MaxChild
      BY Facts DEF TInv, LengthBounded
    <3>4. a \in Child /\ ~ (a > Len(holds[k]))
      BY <1>t, <3>2, <3>3, SMT DEF Child
    <3>5. l = Nil \/ l \in Child
      BY <1>t DEF Pointer
    <3>6. m \in Nat /\ m > 0 /\ \A c \in Child : r[c] \in Nat /\ (r[c] > 0 => r[c] < m)
      <4>1. \A c \in Child : r[c] \in Nat
        OBVIOUS
      <4>2. CASE l = Nil
        BY <1>i, <4>1, <4>2
      <4>3. CASE l # Nil
        <5>1. r[l] \in Nat /\ m = r[l] + 1 /\ \A c \in Child : r[c] > 0 => r[c] <= r[l]
          BY <1>i, <3>5, <4>3
        <5> HIDE DEF m, l
        <5> QED  BY <4>1, <5>1, SMT
      <4> QED  BY <4>2, <4>3
    <3> HIDE DEF m
    <3>7. PICK s \in [Child -> Nat] : s[a] = m /\ \A c \in Child : c # a => s[c] = r[c]
      <4> DEFINE s0 == [r EXCEPT ![a] = m]
      <4>1. s0 \in [Child -> Nat] /\ s0[a] = m /\ \A c \in Child : c # a => s0[c] = r[c]
        BY <3>4, <3>6
      <4> HIDE DEF s0
      <4> QED  BY <4>1
    <3> HIDE DEF a, l
    <3>8. ASSUME NEW c \in Child, NEW d \in Child, Before(r, c, d) PROVE Before(s, c, d)
      <4>1. c # a /\ s[c] = r[c] /\ r[c] > 0 /\ r[c] < m
        BY <3>2, <3>6, <3>7, <3>8 DEF Before
      <4>2. CASE d = a
        BY <3>7, <4>1, <4>2 DEF Before
      <4>3. CASE d # a
        BY <3>7, <3>8, <4>1, <4>3 DEF Before
      <4> QED  BY <4>2, <4>3
    <3>9. ASSUME NEW c \in Child PROVE s[c] <= m
      <4>1. CASE c = a
        BY <3>6, <3>7, <4>1, SMT
      <4>2. CASE c # a
        BY <3>6, <3>7, <4>2, SMT
      <4> QED  BY <4>1, <4>2
    <3>10. ASSUME NEW u \in Thread, into'[u] = k,
                  step'[u] \in {"first", "next", "prev", "last"}
           PROVE  s[child'[u]] = 0
      <4>1. u # t
        BY <3>1, <3>10
      <4>2. child'[u] # a /\ r[child'[u]] = 0
        BY <1>i, <1>o, <3>2, <3>10, <4>1
      <4>3. child'[u] \in Child
        <5>1. into[u] = k /\ child'[u] = child[u]
          BY <1>o, <3>10, <4>1
        <5>2. child[u] \in 1 .. Len(holds[k])
          BY <1>t, <5>1 DEF OwnChildren
        <5> QED  BY <1>t, <3>3, <5>1, <5>2, SMT DEF Child
      <4> QED  BY <3>7, <4>2, <4>3
    <3>11. \A c \in Child : c > Len(holds'[k]) => s[c] = 0
      BY <1>4, <1>i, <3>4, <3>7
    <3>12. Ranked(k, s)'
      <4>1. a # Nil
        BY <1>t, <3>4
      <4>2. \A c, d \in Child : next'[k][c] = d => Before(s, c, d)
        BY <1>i, <3>1, <3>8
      <4>3. \A c, d \in Child : prev'[k][d] = c => Before(s, c, d)
        BY <1>i, <3>1, <3>8
      <4> QED  BY <3>1, <3>6, <3>7, <3>9, <3>10, <3>11, <4>1, <4>2, <4>3 DEF Ranked
    <3> QED  BY <3>7, <3>12
  <2> QED  BY <1>4, <2>1, <2>2, <2>3, <2>4, <2>5, <2>6 DEF AddStep
<1>5. CASE into[t] \in Queue /\ StoreLength(t) /\ UNCHANGED <<holds, overlapped>>
  <2>1. /\ into'[t] = NoQueue /\ UNCHANGED <<next, prev>>
        /\ ends' = [ends EXCEPT ![into[t]].len = length[t] + 1]
    BY <1>5, <1>t DEF StoreLength, Returns
  <2>2. ends'[k].last = ends[k].last
    BY <1>5, <1>t, <2>1
  <2> QED  BY <1>1, <1>5, <1>i, <1>t, <2>1, <2>2
<1> QED  BY <1>2, <1>3, <1>4, <1>5, QueueMoves

\* The ranks make every walk along the links come to an end.
LEMMA RankedWalksEnd ==
    ASSUME TInv, NEW k \in Queue, NEW r \in [Child -> Nat], Ranked(k, r)
    PROVE  FromFirst(k)[MaxChild] = Nil /\ FromLast(k)[MaxChild] = Nil
<1> DEFINE l == ends[k].last
           m == IF l = Nil THEN 0 ELSE r[l]
           up == [c \in Child |-> IF r[c] > 0 THEN r[c] ELSE m + 1]
           down == [c \in Child |-> IF r[c] > 0 THEN - r[c] ELSE - (m + 1)]
<1>1. /\ IsFiniteSet(Child) /\ Cardinality(Child) <= MaxChild /\ Nil \notin Child
      /\ MaxChild \in Nat /\ Pointer = Child \cup {Nil}
  <2>1. MaxChild \in Nat /\ Nil \notin Child
    BY QueueAssumption, SMT DEF Child, Nil
  <2>2. /\ IsFiniteSet(Child)
        /\ Cardinality(Child) = IF 1 > MaxChild THEN 0 ELSE MaxChild - 1 + 1
    BY <2>1, FS_Interval, SMT DEF Child
  <2>3. Cardinality(Child) <= MaxChild
    BY <2>1, <2>2, SMT
  <2> QED  BY <2>1, <2>2, <2>3 DEF Pointer
<1>2. m \in Nat /\ \A c \in Child : r[c] \in Nat /\ r[c] <= m
  <2>1. \A c \in Child : r[c] \in Nat
    OBVIOUS
  <2>2. \A c \in Child : r[c] > 0 => l # Nil /\ r[c] <= r[l]
    BY DEF Ranked
  <2>3. l = Nil \/ l \in Child
    BY Walks DEF Pointer
  <2> HIDE DEF l
  <2>4. CASE l = Nil
    BY <2>1, <2>2, <2>4, SMT
  <2>5. CASE l # Nil
    <3>1. r[l] \in Nat /\ m = r[l]
      BY <2>1, <2>3, <2>5
    <3> QED  BY <2>1, <2>2, <3>1, SMT
  <2> QED  BY <2>4, <2>5
<1> HIDE DEF m, l
<1>3. /\ up \in [Child -> Int] /\ down \in [Child -> Int]
      /\ \A c, d \in Child : Before(r, c, d) => up[c] < up[d] /\ down[d] < down[c]
  BY <1>2, SMT DEF Before
<1>4. \A c \in Child : /\ next[k][c] # Nil => up[c] < up[next[k][c]]
                       /\ prev[k][c] # Nil => down[c] < down[prev[k][c]]
  <2> HIDE DEF up, down
  <2>1. \A c \in Child : /\ next[k][c] \in Child \cup {Nil}
                         /\ prev[k][c] \in Child \cup {Nil}
    BY <1>1, Walks
  <2> QED  BY <1>3, <2>1 DEF Ranked
<1> HIDE DEF up, down
<1>5. FromFirst(k)[MaxChild] = Nil
  <2>1. /\ IsWalk(FromFirst(k), MaxChild, ends[k].first, next[k], Nil)
        /\ ends[k].first \in Child \cup {Nil} /\ next[k] \in [Child -> Child \cup {Nil}]
    BY <1>1, Walks
  <2>2. /\ up \in [Child -> Int]
        /\ \A c \in Child : next[k][c] # Nil => up[c] < up[next[k][c]]
    BY <1>3, <1>4
  <2> QED  BY <1>1, <2>1, <2>2, RankedWalkEnds
<1>6. FromLast(k)[MaxChild] = Nil
  <2>1. /\ IsWalk(FromLast(k), MaxChild, ends[k].last, prev[k], Nil)
        /\ ends[k].last \in Child \cup {Nil} /\ prev[k] \in [Child -> Child \cup {Nil}]
    BY <1>1, Walks
  <2>2. /\ down \in [Child -> Int]
        /\ \A c \in Child : prev[k][c] # Nil => down[c] < down[prev[k][c]]
    BY <1>3, <1>4
  <2> QED  BY <1>1, <2>1, <2>2, RankedWalkEnds
<1> QED  BY <1>5, <1>6

\* However the additions interleave, no walk along a queue runs in a circle.
THEOREM NoCircleCorrect == Spec => []NoCircle
<1>1. Init => RanksExist
  <2> SUFFICES ASSUME Init, NEW k \in Queue PROVE \E r \in [Child -> Nat] : Ranked(k, r)
    BY DEF RanksExist
  <2> DEFINE n == Len(holds[k])
  <2>1. n \in {0, 1}
    <3>1. Len(<<>>) = 0 /\ Len(<<Recv>>) = 1
      BY SMT
    <3> QED  BY <3>1 DEF Init
  <2>2. /\ ends[k].last = n
        /\ next[k] = [x \in Child |-> Nil] /\ prev[k] = [x \in Child |-> Nil]
        /\ \A t \in Thread : into[t] = NoQueue
    BY HandlerAssumption DEF Init, QueueInit
  <2>3. Nil \notin Child /\ NoQueue # k /\ MaxChild \in Nat /\ MaxChild # 0
    BY QueueAssumption, HandlerAssumption, SMT DEF Child, Nil, NoQueue
  <2> HIDE DEF n
  <2>4. n = 1 => 1 \in Child
    BY <2>3, SMT DEF Child
  <2>5. PICK r \in [Child -> Nat] : \A c \in Child : r[c] = IF n = 1 /\ c = 1 THEN 1 ELSE 0
    <3> DEFINE q == [c \in Child |-> IF n = 1 /\ c = 1 THEN 1 ELSE 0]
    <3>1. q \in [Child -> Nat] /\ \A c \in Child : q[c] = IF n = 1 /\ c = 1 THEN 1 ELSE 0
      OBVIOUS
    <3> HIDE DEF q
    <3> QED  BY <3>1
  <2>6. \A c \in Child : /\ r[c] > 0 => ends[k].last # Nil /\ r[c] <= r[ends[k].last]
                         /\ c > n => r[c] = 0
    BY <2>1, <2>2, <2>4, <2>5 DEF Nil
  <2>7. ends[k].last # Nil => r[ends[k].last] > 0
    BY <2>1, <2>2, <2>4, <2>5 DEF Nil
  <2> QED  BY <2>2, <2>3, <2>6, <2>7 DEF Ranked, n
<1>2. TInv /\ OwnChildren /\ RanksExist /\ [Next]_vars => RanksExist'
  <2> SUFFICES ASSUME TInv, OwnChildren, RanksExist, [Next]_vars PROVE RanksExist'
    OBVIOUS
  <2>1. CASE \E t \in Thread : Step(t)
    BY <2>1, RanksStep
  <2>2. CASE UNCHANGED allButCrash
    BY <2>2 DEF allButCrash, queueVars, RanksExist, Ranked
  <2> QED  BY <2>1, <2>2, Steps1
<1>3. TInv /\ RanksExist => NoCircle
  BY RankedWalksEnd DEF RanksExist, NoCircle
<1> QED  BY <1>1, <1>2, <1>3, TypeCorrect, QueuesInductive, PTL DEF Spec

===============================================================================
