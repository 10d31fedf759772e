------------------------------ MODULE MCMemSearch ----------------------------
(* Two regions of bits, patterns of up to two bytes.                            *)
EXTENDS MemSearch

MCByte == {0, 1}
MCRegion == <<[addr |-> 0, size |-> 3], [addr |-> 3, size |-> 2]>>
MCPattern == {
    [bytes |-> <<1>>, mask |-> <<"x">>],
    [bytes |-> <<1, 0>>, mask |-> <<"x", "x">>],
    [bytes |-> <<1, 0>>, mask |-> <<"x", "?">>]}
\* Occurrences side by side, across two regions, and cut by the end.
MCImage == {[a \in 0 .. 4 |-> bits[a + 1]] :
                bits \in {<<1, 1, 0, 0, 1>>, <<0, 1, 1, 1, 0>>}}
MCBehind == {<<0, 0>>, <<1, 1>>}
===============================================================================
