------------------------------- MODULE BbHeader -------------------------------
(* What BbQueue.h says of calls of BbQueue.c, where the code does something else: *)
(* BbSequence has what the code does, this module what its header promises. Five  *)
(* statements are watched along a sequence of calls.                             *)
EXTENDS BbQueue

LOCAL INSTANCE SequencesExt

VARIABLE broken     \* history: the statements that some call did not keep

Statements == {"linked", "add_nth", "insert_before", "put", "get_nth"}

-------------------------------------------------------------------------------
(* Each is about one step.                                                       *)

\* BbQueue.h:11: the queue is a doubly linked list, after each call.
StaysLinked == WellLinked'

\* BbQueue.h:66: bb_queue_add_nth inserted the child one place too far and no longer
\* does. The item is then at the position asked for, counted from 0.
AddNthInPlace ==
    \A d \in Data, pos \in Position :
        call' = <<"add_nth", <<d, pos>>>> /\ pos \in 0 .. len =>
            Items' = InsertAt(Items, pos + 1, d)

\* BbQueue.h:374: bb_queue_insert_before (queue, before, data) inserts before an item.
InsertedBefore ==
    \A d, before \in Data :
        call' = <<"insert_before", <<before, d>>>> /\ Exists(before) =>
            Items' = InsertAt(Items, IndexOf(before) + 1, d)

\* BbQueue.h:62 and 63: bb_queue_put_last and bb_queue_put_first come to a remv and
\* an add or a push, at least where they answer that the item is in its place.
PutIsRemvAndAdd ==
    \A d \in Data :
        LET others == Abstract!Without(Abstract!Place(d))
        IN  /\ call' = <<"put_last", d>> /\ ret' = 1 => Items' = Append(others, d)
            /\ call' = <<"put_first", d>> /\ ret' = 1 => Items' = <<d>> \o others

\* BbQueue.h:304: bb_queue_get_nth takes the item out at the position asked for,
\* also where an equal one stands before it (as l. 65 says of bb_queue_remv_nth).
GetNthTakesNth ==
    \A pos \in Position :
        call' = <<"get_nth", pos>> /\ pos \in 0 .. (len - 1) =>
            Items' = RemoveAt(Items, pos + 1)

Broken ==
    {s \in Statements :
        \/ s = "linked" /\ ~ StaysLinked
        \/ s = "add_nth" /\ ~ AddNthInPlace
        \/ s = "insert_before" /\ ~ InsertedBefore
        \/ s = "put" /\ ~ PutIsRemvAndAdd
        \/ s = "get_nth" /\ ~ GetNthTakesNth}

-------------------------------------------------------------------------------
HeaderInit == Init /\ broken = {}

\* A queue that is no list any more is not followed: what it does tells nothing of the
\* other statements.
HeaderNext ==
    /\ WellLinked
    /\ Next
    /\ broken' = broken \cup Broken

HeaderSpec == HeaderInit /\ [][HeaderNext]_<<vars, broken>>

\* If BbQueue.h were right in only one of its five statements, no sequence of calls on
\* one queue would break all five. Where this fails, the calls that lead there have
\* refuted each of them, one after the other (BbQueue.c:121, 513, 185, 558).
HeaderRightSomewhere == broken # Statements
===============================================================================
