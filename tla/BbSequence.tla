------------------------------ MODULE BbSequence ------------------------------
(* What the calls of BbQueue.c amount to, for a caller that sees a queue as a    *)
(* sequence of data and never looks at a child. It is written from the code: what *)
(* its header promises instead of some calls is in BbHeader.                     *)
EXTENDS Integers, SequencesExt

CONSTANTS Data, NULL, Position, Careful

VARIABLES items, call, ret, crashed

svars == <<items, call, ret, crashed>>

Init ==
    /\ items = <<>>
    /\ call = <<"init">>
    /\ ret = NULL
    /\ crashed = FALSE

\* The place of the first d, from 1, or 0.
Place(d) ==
    IF \E i \in DOMAIN items : items[i] = d
    THEN CHOOSE i \in DOMAIN items : items[i] = d /\ \A j \in 1 .. (i - 1) : items[j] # d
    ELSE 0

Without(i) == IF i = 0 THEN items ELSE RemoveAt(items, i)

\* The place a position stands for: the length is the last place, as is len - 1.
At(pos) ==
    CASE pos < 0 \/ pos > Len(items) -> 0
      [] pos = Len(items) -> Len(items)
      [] OTHER -> pos + 1

AtSigned(pos) == At(IF pos < 0 THEN Len(items) + pos ELSE pos)
Item(i) == IF i = 0 THEN NULL ELSE items[i]

Does(name, args, result, sequel) ==
    /\ ~ crashed
    /\ call' = <<name, args>>
    /\ ret' = result
    /\ items' = sequel
    /\ crashed' = FALSE

Add(d) == Does("add", d, NULL, Append(items, d))
Push(d) == Does("push", d, NULL, <<d>> \o items)
Pop == Does("pop", NULL, Item(Len(items)), Without(Len(items)))
GetFirst == Does("get_first", NULL, Item(IF items = <<>> THEN 0 ELSE 1),
                 Without(IF items = <<>> THEN 0 ELSE 1))
Clear == Does("clear", NULL, NULL, <<>>)

\* Positions inside the queue are one further than those at its ends (BbQueue.h:66 calls
\* that mended).
AddNth(d, pos) ==
    /\ Careful => ~ (pos > 0 /\ pos = Len(items) - 1)
    /\ Does("add_nth", <<d, pos>>, NULL,
            IF pos < 0 THEN items
            ELSE IF pos = 0 THEN <<d>> \o items
            ELSE IF pos >= Len(items) THEN Append(items, d)
            ELSE InsertAt(items, pos + 2, d))

Remv(d) == Does("remv", d, IF Place(d) = 0 THEN 0 ELSE 1, Without(Place(d)))
RemvNth(pos) == Does("remv_nth", pos, Item(At(pos)), Without(At(pos)))

\* The item at a position is returned; the first equal one goes (BbQueue.h:304 has the
\* one at the position go).
GetNth(pos) ==
    LET i == AtSigned(pos)
    IN  Does("get_nth", pos, Item(i), IF i = 0 THEN items ELSE Without(Place(items[i])))

ReplaceNth(d, pos) ==
    Does("replace_nth", <<d, pos>>, Item(At(pos)),
         IF At(pos) = 0 THEN items ELSE [items EXCEPT ![At(pos)] = d])

Replace(d1, d2) ==
    Does("replace", <<d1, d2>>, NULL,
         IF Place(d1) = 0 THEN items ELSE [items EXCEPT ![Place(d1)] = d2])

Switch(d1, d2) ==
    Does("switch", <<d1, d2>>, NULL,
         IF Place(d1) = 0 \/ Place(d2) = 0 THEN items
         ELSE [items EXCEPT ![Place(d1)] = d2, ![Place(d2)] = d1])

\* An item already at that end stays there; another one is moved from its place. A
\* queue of one answers 1 for any item, one it does not hold too (BbQueue.h:62-63 calls
\* it a remv and an add).
PutLast(d) ==
    LET i == Place(d)
    IN  Does("put_last", d, IF Len(items) = 1 \/ i # 0 THEN 1 ELSE 0,
             IF Len(items) = 1 \/ i = 0 THEN items ELSE Append(Without(i), d))

PutFirst(d) ==
    LET i == Place(d)
    IN  Does("put_first", d, IF Len(items) = 1 \/ i # 0 THEN 1 ELSE 0,
             IF Len(items) = 1 \/ i = 0 THEN items ELSE <<d>> \o Without(i))

\* Inserting before means inserting after, whatever BbQueue.h:374 calls it. An absent
\* item is fatal, unless the queue is empty.
Insert(name, where, d) ==
    \/ /\ items = <<>> \/ Place(where) # 0
       /\ Does(name, <<where, d>>, NULL, InsertAt(items, Place(where) + 1, d))
    \/ /\ items # <<>> /\ Place(where) = 0
       /\ ~ crashed
       /\ crashed' = TRUE
       /\ call' = <<name, <<where, d>>>>
       /\ ret' = NULL
       /\ UNCHANGED items

\* Inserting before a child does mean before it.
InsertBeforeChild(where, d) ==
    \/ /\ items = <<>> \/ Place(where) # 0
       /\ Does("insert_before_bb_child", <<where, d>>, NULL,
               InsertAt(items, IF items = <<>> THEN 1 ELSE Place(where), d))
    \/ /\ items # <<>> /\ Place(where) = 0
       /\ ~ crashed
       /\ crashed' = TRUE
       /\ call' = <<"insert_before_bb_child", <<where, d>>>>
       /\ ret' = NULL
       /\ UNCHANGED items

\* The items in ascending order.
Ascending(s) == \A i, j \in DOMAIN s : i <= j => s[i] <= s[j]

Sort ==
    \E p \in Bijection(DOMAIN items, DOMAIN items) :
      LET sorted == [i \in DOMAIN items |-> items[p[i]]]
      IN  Ascending(sorted) /\ Does("bubble_sort", NULL, NULL, sorted)

PickFirst == Does("pick_first", NULL, Item(IF items = <<>> THEN 0 ELSE 1), items)
PickLast == Does("pick_last", NULL, Item(Len(items)), items)
PickNth(pos) == Does("pick_nth", pos, Item(AtSigned(pos)), items)
GetIndex(d) == Does("get_index", d, Place(d) - 1, items)
Exists(d) == Does("exists", d, IF Place(d) = 0 THEN 0 ELSE 1, items)

Next ==
    \/ Pop \/ GetFirst \/ Clear \/ Sort \/ PickFirst \/ PickLast
    \/ \E d \in Data :
         \/ Add(d) \/ Push(d) \/ Remv(d) \/ PutLast(d) \/ PutFirst(d)
         \/ GetIndex(d) \/ Exists(d)
    \/ \E pos \in Position : RemvNth(pos) \/ GetNth(pos) \/ PickNth(pos)
    \/ \E d \in Data, pos \in Position : AddNth(d, pos) \/ ReplaceNth(d, pos)
    \/ \E d1, d2 \in Data :
         \/ Replace(d1, d2) \/ Switch(d1, d2)
         \/ \E name \in {"insert_after", "insert_before"} : Insert(name, d1, d2)
         \/ InsertBeforeChild(d1, d2)

Spec == Init /\ [][Next]_svars
===============================================================================
