-------------------------------- MODULE BbQueue -------------------------------
(* BbQueue.c: the doubly linked queue every other library of the repository is   *)
(* built on, at the level of its pointers. A queue has its length and its first  *)
(* and last child; a child has its data, the next and the previous child. Each   *)
(* action is a whole call by the one thread that uses the queue.                 *)
EXTENDS Integers, FiniteSets

CONSTANTS
    Node,           \* the addresses malloc may return for a BbChild
    Data,           \* what is queued; bb_queue_bubble_sort takes it for integers
    NULL,
    Position,       \* bound: the positions callers pass
    Careful         \* TRUE if no caller asks bb_queue_add_nth for place len - 1

\* NULL is not queued here, though memproc_search queues its offsets, 0 among them: a
\* caller cannot tell such an item from none, and bb_queue_get_nth leaves it queued.
ASSUME NodeAssumption ==
    /\ IsFiniteSet(Node)
    /\ NULL \notin Node
    /\ Data \subseteq Int /\ NULL \notin Data
    /\ Position \subseteq Int
    /\ Careful \in BOOLEAN

VARIABLES
    len, first, last,       \* the BbQueue
    next, prev, data,       \* the fields of the child at an address
    allocated,              \* the addresses malloc has given and free not taken
    call,                   \* the call just made: its name and arguments
    ret,                    \* what it returned (NULL when it returns nothing)
    crashed                 \* a NULL pointer was followed

ends == <<len, first, last>>
links == <<next, prev>>
queue == <<len, first, last, next, prev, data, allocated>>
vars == <<len, first, last, next, prev, data, allocated, call, ret, crashed>>

Pointer == Node \cup {NULL}

TypeOK ==
    /\ len \in 0 .. Cardinality(Node)
    /\ first \in Pointer /\ last \in Pointer
    /\ next \in [Node -> Pointer] /\ prev \in [Node -> Pointer]
    /\ data \in [Node -> Data \cup {NULL}]
    /\ allocated \subseteq Node
    /\ ret \in Data \cup {NULL} \cup Int
    /\ crashed \in BOOLEAN

\* bb_queue_init, and bb_queue_local_decl.
Init ==
    /\ len = 0 /\ first = NULL /\ last = NULL
    /\ next = [n \in Node |-> NULL]
    /\ prev = [n \in Node |-> NULL]
    /\ data = [n \in Node |-> NULL]
    /\ allocated = {}
    /\ call = <<"init">>
    /\ ret = NULL
    /\ crashed = FALSE

-------------------------------------------------------------------------------
(* Walking the queue.                                                            *)

\* foreach_bbqueue and its reverse: the child reached after i steps, or NULL.
Forward[i \in Nat] ==
    IF i = 0 THEN first
    ELSE IF Forward[i - 1] = NULL THEN NULL ELSE next[Forward[i - 1]]

Backward[i \in Nat] ==
    IF i = 0 THEN last
    ELSE IF Backward[i - 1] = NULL THEN NULL ELSE prev[Backward[i - 1]]

Steps == 0 .. Cardinality(Node)

Holds(i, d) == Forward[i] # NULL /\ data[Forward[i]] = d
IsFirstHolding(i, d) == Holds(i, d) /\ \A j \in Steps : Holds(j, d) => i <= j

Exists(d) == \E i \in Steps : Holds(i, d)
IndexOf(d) == CHOOSE i \in Steps : IsFirstHolding(i, d)

\* bb_queue_pick_child: the first child that holds d.
PickChild(d) == IF Exists(d) THEN Forward[IndexOf(d)] ELSE NULL

\* Mutated: the walk from the end takes one step too many.
PickChildNthFar(pos) ==
    CASE pos < 0 -> NULL
      [] pos = len -> last
      [] pos = 0 /\ pos # len -> first
      [] pos > 0 /\ pos < len /\ pos <= len \div 2 -> Forward[pos]
      [] pos > 0 /\ pos < len /\ pos > len \div 2 -> Backward[len - pos]
      [] pos > len -> NULL

\* bb_queue_pick_child_nth walks from the nearer end; the length stands for the
\* last child.
PickChildNth(pos) ==
    CASE pos < 0 -> NULL
      [] pos = len -> last
      [] pos = 0 /\ pos # len -> first
      [] pos > 0 /\ pos < len /\ pos <= len \div 2 -> Forward[pos]
      [] pos > 0 /\ pos < len /\ pos > len \div 2 -> Backward[len - 1 - pos]
      [] pos > len -> NULL

\* bb_queue_pick_nth: negative positions count from the end.
PickNth(pos) ==
    LET c == PickChildNth(IF pos < 0 THEN len + pos ELSE pos)
    IN  IF c = NULL THEN NULL ELSE data[c]

-------------------------------------------------------------------------------
(* Changing the links.                                                           *)

Free(c) == c \in Node \ allocated

\* A new child c with d, linked after p and before n; NULL stands for an end.
Link(p, c, d, n) ==
    /\ Free(c)
    /\ allocated' = allocated \cup {c}
    /\ data' = [data EXCEPT ![c] = d]
    /\ next' = [x \in Node |-> IF x = c THEN n ELSE IF x = p THEN c ELSE next[x]]
    /\ prev' = [x \in Node |-> IF x = c THEN p ELSE IF x = n THEN c ELSE prev[x]]
    /\ first' = (IF p = NULL THEN c ELSE first)
    /\ last' = (IF n = NULL THEN c ELSE last)
    /\ len' = len + 1

\* bb_queue_add_child of a new child.
AddChild(c, d) == Link(IF len = 0 THEN NULL ELSE last, c, d, NULL)

\* Mutated: the new first child is linked before the last one.
PushBeforeLast(c, d) == Link(NULL, c, d, IF len = 0 THEN NULL ELSE last)

\* The body of bb_queue_push.
PushChild(c, d) == Link(NULL, c, d, IF len = 0 THEN NULL ELSE first)

\* What a freed child held is unspecified from then on: NULL stands for it.
Forget(field, freed) == [n \in Node |-> IF n \in freed THEN NULL ELSE field[n]]

\* The shared body of bb_queue_remv and bb_queue_remv_nth: c is unlinked, freed.
Unlink(c) ==
    /\ allocated' = allocated \ {c}
    /\ len' = len - 1
    /\ data' = Forget(data, {c})
    /\ \/ /\ len = 1
          /\ first' = NULL /\ last' = NULL
          /\ next' = Forget(next, {c})
          /\ prev' = Forget(prev, {c})
       \/ /\ len # 1 /\ first = c
          /\ first' = next[c]
          /\ prev' = Forget([prev EXCEPT ![next[c]] = NULL], {c})
          /\ next' = Forget(next, {c})
          /\ UNCHANGED last
       \/ /\ len # 1 /\ first # c /\ last = c
          /\ last' = prev[c]
          /\ next' = Forget([next EXCEPT ![prev[c]] = NULL], {c})
          /\ prev' = Forget(prev, {c})
          /\ UNCHANGED first
       \/ /\ len # 1 /\ first # c /\ last # c
          /\ prev' = Forget([prev EXCEPT ![next[c]] = prev[c]], {c})
          /\ next' = Forget([next EXCEPT ![prev[c]] = next[c]], {c})
          /\ UNCHANGED <<first, last>>

Called(name, args, result) ==
    /\ ~ crashed
    /\ call' = <<name, args>>
    /\ ret' = result
    /\ crashed' = FALSE

-------------------------------------------------------------------------------
(* The calls.                                                                    *)

bb_queue_add(d) ==
    \E c \in Node : AddChild(c, d) /\ Called("add", d, NULL)

bb_queue_push(d) ==
    \E c \in Node : PushChild(c, d) /\ Called("push", d, NULL)

\* Within the queue the new child goes after the child at pos, not before it; if
\* that child is the last one, q->last does not follow. Beyond the end a child is
\* allocated and forgotten before bb_queue_add is called.
bb_queue_add_nth(d, pos) ==
    /\ Careful => ~ (pos > 0 /\ pos = len - 1)
    /\ Called("add_nth", <<d, pos>>, NULL)
    /\ \/ pos < 0 /\ UNCHANGED queue
       \/ /\ pos >= 0
          /\ pos > len \/ len = 0
          /\ \E lost, c \in Node :
               /\ lost # c
               /\ Free(lost) /\ Free(c)
               /\ allocated' = allocated \cup {lost, c}
               /\ data' = [data EXCEPT ![c] = d, ![lost] = d]
               /\ next' = [x \in Node |-> IF x \in {c, lost} THEN NULL
                                          ELSE IF x = last THEN c ELSE next[x]]
               /\ prev' = [x \in Node |-> IF x = c THEN last
                                          ELSE IF x = lost THEN NULL ELSE prev[x]]
               /\ first' = (IF len = 0 THEN c ELSE first)
               /\ last' = c
               /\ len' = len + 1
       \/ /\ pos = 0 /\ len # 0
          /\ \E c \in Node : Link(NULL, c, d, first)
       \/ /\ pos = len /\ len # 0
          /\ \E c \in Node : Link(last, c, d, NULL)
       \/ /\ pos > 0 /\ pos < len
          /\ LET before == PickChildNth(pos)
             IN  \E c \in Node :
                   /\ before # NULL
                   /\ Free(c)
                   /\ allocated' = allocated \cup {c}
                   /\ data' = [data EXCEPT ![c] = d]
                   /\ next' = [next EXCEPT ![before] = c, ![c] = next[before]]
                   /\ prev' = [x \in Node |-> IF x = c THEN before
                                              ELSE IF x = next[before] THEN c ELSE prev[x]]
                   /\ UNCHANGED <<first, last>>
                   /\ len' = len + 1

bb_queue_remv(d) ==
    LET c == PickChild(d)
    IN  \/ c = NULL /\ UNCHANGED queue /\ Called("remv", d, 0)
        \/ c # NULL /\ Unlink(c) /\ Called("remv", d, 1)

bb_queue_remv_nth(pos) ==
    LET c == PickChildNth(pos)
    IN  \/ c = NULL /\ UNCHANGED queue /\ Called("remv_nth", pos, NULL)
        \/ c # NULL /\ Unlink(c) /\ Called("remv_nth", pos, data[c])

bb_queue_replace_nth(d, pos) ==
    LET c == PickChildNth(pos)
    IN  /\ UNCHANGED <<ends, links, allocated>>
        /\ \/ c = NULL /\ UNCHANGED data /\ Called("replace_nth", <<d, pos>>, NULL)
           \/ /\ c # NULL
              /\ data' = [data EXCEPT ![c] = d]
              /\ Called("replace_nth", <<d, pos>>, data[c])

bb_queue_replace(d1, d2) ==
    LET c == PickChild(d1)
    IN  /\ UNCHANGED <<ends, links, allocated>>
        /\ Called("replace", <<d1, d2>>, NULL)
        /\ data' = IF c = NULL THEN data ELSE [data EXCEPT ![c] = d2]

bb_queue_switch(d1, d2) ==
    LET c1 == PickChild(d1)
        c2 == PickChild(d2)
    IN  /\ UNCHANGED <<ends, links, allocated>>
        /\ Called("switch", <<d1, d2>>, NULL)
        /\ data' = IF c1 = NULL \/ c2 = NULL THEN data
                   ELSE [data EXCEPT ![c1] = d2, ![c2] = d1]

\* A queue of one child answers 1 before it looks at the data.
bb_queue_put_last(d) ==
    LET c == PickChild(d)
    IN  \/ /\ len = 1 \/ c = NULL \/ last = c
           /\ UNCHANGED queue
           /\ Called("put_last", d, IF len = 1 \/ c # NULL THEN 1 ELSE 0)
        \/ /\ len # 1 /\ c # NULL /\ last # c /\ first = c
           /\ first' = next[c]
           /\ next' = [next EXCEPT ![last] = c, ![c] = NULL]
           /\ prev' = [prev EXCEPT ![next[c]] = NULL, ![c] = last]
           /\ last' = c
           /\ UNCHANGED <<len, data, allocated>>
           /\ Called("put_last", d, 1)
        \/ /\ len # 1 /\ c # NULL /\ last # c /\ first # c
           /\ next' = [next EXCEPT ![prev[c]] = next[c], ![last] = c, ![c] = NULL]
           /\ prev' = [prev EXCEPT ![next[c]] = prev[c], ![c] = last]
           /\ last' = c
           /\ UNCHANGED <<len, first, data, allocated>>
           /\ Called("put_last", d, 1)

bb_queue_put_first(d) ==
    LET c == PickChild(d)
    IN  \/ /\ len = 1 \/ c = NULL \/ first = c
           /\ UNCHANGED queue
           /\ Called("put_first", d, IF len = 1 \/ c # NULL THEN 1 ELSE 0)
        \/ /\ len # 1 /\ c # NULL /\ first # c /\ last = c
           /\ last' = prev[c]
           /\ next' = [next EXCEPT ![prev[c]] = NULL, ![c] = first]
           /\ prev' = [prev EXCEPT ![first] = c, ![c] = NULL]
           /\ first' = c
           /\ UNCHANGED <<len, data, allocated>>
           /\ Called("put_first", d, 1)
        \/ /\ len # 1 /\ c # NULL /\ first # c /\ last # c
           /\ next' = [next EXCEPT ![prev[c]] = next[c], ![c] = first]
           /\ prev' = [prev EXCEPT ![next[c]] = prev[c], ![first] = c, ![c] = NULL]
           /\ first' = c
           /\ UNCHANGED <<len, last, data, allocated>>
           /\ Called("put_first", d, 1)

\* bb_queue_get_first: the first child is unlinked and freed.
bb_queue_get_first ==
    \/ len <= 0 /\ UNCHANGED queue /\ Called("get_first", NULL, NULL)
    \/ len > 0 /\ Unlink(first) /\ Called("get_first", NULL, data[first])

\* bb_queue_pop unlinks the last child; a queue of one loses both ends.
bb_queue_pop ==
    \/ len <= 0 /\ UNCHANGED queue /\ Called("pop", NULL, NULL)
    \/ /\ len > 0
       /\ allocated' = allocated \ {last}
       /\ len' = len - 1
       /\ data' = Forget(data, {last})
       /\ prev' = Forget(prev, {last})
       /\ \/ /\ len = 1
             /\ first' = NULL /\ last' = NULL
             /\ next' = Forget(next, {last})
          \/ /\ len # 1
             /\ last' = prev[last]
             /\ next' = Forget([next EXCEPT ![prev[last]] = NULL], {last})
             /\ UNCHANGED first
       /\ Called("pop", NULL, data[last])

\* bb_queue_get_nth reads the child at pos, then removes the first with its data.
bb_queue_get_nth(pos) ==
    LET d == PickNth(pos)
    IN  \/ d = NULL /\ UNCHANGED queue /\ Called("get_nth", pos, NULL)
        \/ d # NULL /\ Unlink(PickChild(d)) /\ Called("get_nth", pos, d)

\* bb_queue_insert_after_bb_child. A NULL child is the last child of an empty
\* queue; in any other queue its next is followed.
InsertAfter(name, before, d) ==
    LET b == PickChild(before)
    IN  /\ \/ /\ b = last
              /\ \E c \in Node : AddChild(c, d)
              /\ crashed' = FALSE
           \/ /\ b # NULL /\ b # last
              /\ \E c \in Node : Link(b, c, d, next[b])
              /\ crashed' = FALSE
           \/ /\ b = NULL /\ b # last
              /\ crashed' = TRUE
              /\ UNCHANGED queue
        /\ ~ crashed
        /\ call' = <<name, <<before, d>>>>
        /\ ret' = NULL

bb_queue_insert_after(before, d) == InsertAfter("insert_after", before, d)

\* bb_queue_insert_before_bb_child, of the child that holds after. A NULL child is
\* the first child of an empty queue; in any other queue its prev is followed.
bb_queue_insert_before_bb_child(after, d) ==
    LET a == PickChild(after)
    IN  /\ \/ /\ a = first
              /\ \E c \in Node : PushChild(c, d)
              /\ crashed' = FALSE
           \/ /\ a # NULL /\ a # first
              /\ \E c \in Node : Link(prev[a], c, d, a)
              /\ crashed' = FALSE
           \/ /\ a = NULL /\ a # first
              /\ crashed' = TRUE
              /\ UNCHANGED queue
        /\ ~ crashed
        /\ call' = <<"insert_before_bb_child", <<after, d>>>>
        /\ ret' = NULL

\* bb_queue_insert_before calls bb_queue_insert_after_bb_child.
bb_queue_insert_before(after, d) == InsertAfter("insert_before", after, d)

\* Mutated: the queue is initialised again and no child popped.
ClearByInit ==
    /\ len' = 0 /\ first' = NULL /\ last' = NULL
    /\ UNCHANGED <<links, data, allocated>>
    /\ Called("clear", NULL, NULL)

\* Mutated: the loop tests the length after it has popped.
ClearTooFar ==
    LET freed == {Backward[i] : i \in 0 .. (len - 1)}
    IN  /\ len' = (IF len = 0 THEN -1 ELSE 0)
        /\ first' = NULL /\ last' = NULL
        /\ allocated' = allocated \ freed
        /\ next' = Forget(next, freed)
        /\ prev' = Forget(prev, freed)
        /\ data' = Forget(data, freed)
        /\ Called("clear", NULL, NULL)

\* bb_queue_clear pops until the length is 0, as bb_queue_free does.
bb_queue_clear ==
    LET freed == {Backward[i] : i \in 0 .. (len - 1)}
    IN  /\ len' = 0 /\ first' = NULL /\ last' = NULL
        /\ allocated' = allocated \ freed
        /\ next' = Forget(next, freed)
        /\ prev' = Forget(prev, freed)
        /\ data' = Forget(data, freed)
        /\ Called("clear", NULL, NULL)

\* One step of a round of the sort: f with the data of c and its next in order.
InOrder(f, c) ==
    IF f[c] > f[next[c]] THEN [f EXCEPT ![c] = f[next[c]], ![next[c]] = f[c]] ELSE f

\* A round goes from the first child to the one before the last.
Round(f) ==
    LET swaps == CHOOSE i \in Steps : Forward[i] = last
        done[i \in 0 .. swaps] ==
            IF i = 0 THEN f ELSE InOrder(done[i - 1], Forward[i - 1])
    IN  done[swaps]

\* bb_queue_bubble_sort makes rounds until one changes nothing: no more than len.
bb_queue_bubble_sort ==
    LET rounds[k \in 0 .. len] == IF k = 0 THEN data ELSE Round(rounds[k - 1])
    IN  /\ data' = rounds[len]
        /\ UNCHANGED <<ends, links, allocated>>
        /\ Called("bubble_sort", NULL, NULL)

\* The calls that only read: their answers.
bb_queue_pick_first ==
    UNCHANGED queue
      /\ Called("pick_first", NULL, IF len <= 0 \/ first = NULL THEN NULL ELSE data[first])

bb_queue_pick_last ==
    UNCHANGED queue /\ Called("pick_last", NULL, IF last = NULL THEN NULL ELSE data[last])

bb_queue_pick_nth(pos) == UNCHANGED queue /\ Called("pick_nth", pos, PickNth(pos))

bb_queue_get_index(d) ==
    UNCHANGED queue /\ Called("get_index", d, IF Exists(d) THEN IndexOf(d) ELSE -1)

bb_queue_exists(d) ==
    UNCHANGED queue /\ Called("exists", d, IF Exists(d) THEN 1 ELSE 0)

-------------------------------------------------------------------------------
Next ==
    \/ bb_queue_get_first \/ bb_queue_pop \/ bb_queue_clear
    \/ bb_queue_bubble_sort \/ bb_queue_pick_first \/ bb_queue_pick_last
    \/ \E d \in Data :
         \/ bb_queue_add(d) \/ bb_queue_push(d) \/ bb_queue_remv(d)
         \/ bb_queue_put_last(d) \/ bb_queue_put_first(d)
         \/ bb_queue_get_index(d) \/ bb_queue_exists(d)
    \/ \E pos \in Position :
         \/ bb_queue_remv_nth(pos) \/ bb_queue_get_nth(pos) \/ bb_queue_pick_nth(pos)
    \/ \E d \in Data, pos \in Position :
         bb_queue_add_nth(d, pos) \/ bb_queue_replace_nth(d, pos)
    \/ \E d1, d2 \in Data :
         \/ bb_queue_replace(d1, d2) \/ bb_queue_switch(d1, d2)
         \/ bb_queue_insert_after(d1, d2) \/ bb_queue_insert_before(d1, d2)
         \/ bb_queue_insert_before_bb_child(d1, d2)

Spec == Init /\ [][Next]_vars

-------------------------------------------------------------------------------
(* What must hold.                                                               *)

\* The children in order, and the data they hold.
Items == [i \in 1 .. len |-> data[Forward[i - 1]]]

\* The queue is a doubly linked list (BbQueue.h:11): len distinct children from
\* first to last, each the next of the one before and the previous of the one
\* after, all of them allocated, with NULL at both ends.
WellLinked ==
    /\ \A i \in 0 .. (len - 1) : Forward[i] \in allocated
    /\ \A i, j \in 0 .. (len - 1) : Forward[i] = Forward[j] => i = j
    /\ \A i \in 0 .. (len - 1) : Backward[i] = Forward[len - 1 - i]
    /\ Forward[len] = NULL /\ Backward[len] = NULL

\* A child is freed when it leaves the queue and not otherwise: the only call that
\* loses one is bb_queue_add_nth beyond the end of the queue.
OnlyAddNthLeaks ==
    [][(allocated' \ {Forward[i] : i \in 0 .. (len - 1)}')
         # (allocated \ {Forward[i] : i \in 0 .. (len - 1)})
       => call'[1] = "add_nth"]_vars

\* A call returns what BbSequence says of the sequence of data, and leaves the sequence
\* it says: positions, first occurrences and ends, whichever end the walk began at, for
\* every state of the links. BbSequence has the code's meaning of a call, also where
\* BbQueue.h promises another one (BbHeader).
Abstract == INSTANCE BbSequence WITH items <- Items
ImplementsSequence == Abstract!Spec
===============================================================================
