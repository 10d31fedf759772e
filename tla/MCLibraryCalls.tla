---------------------------- MODULE MCLibraryCalls ----------------------------
(* All short texts over a few bytes, and files of lines of hexadecimal numbers:   *)
(* 10 is a newline, 32 a space, 255 the byte taken for EOF, 65 and 97 are A and a. *)
EXTENDS LibraryCalls

CONSTANTS MaxLen, MaxOddLen

Strings(bytes, n) == UNION {[1 .. k -> bytes] : k \in 0 .. n}

Row(bytes) == FlattenSeq([i \in DOMAIN bytes |-> IF i = 1 THEN <<bytes[i]>> ELSE <<32, bytes[i]>>])
File(rows, end) == FlattenSeq([i \in DOMAIN rows |->
                      Row(rows[i]) \o (IF i = Len(rows) THEN end ELSE <<10>>)])
Files == {File(rows, end) : rows \in UNION {[1 .. k -> [1 .. 3 -> {97, 98}]] : k \in 1 .. 3},
                            end \in {<<>>, <<10>>}}
         \cup {File(<<<<97, 98>>, <<97, 98, 98>>>>, <<>>), File(<<<<97, 98>>, <<66, 97>>>>, <<>>)}

MCText == Strings({10, 32, 97, 98}, MaxLen) \cup Strings({255, 10, 65, 32}, MaxOddLen) \cup Files
MCNeedle == {<<97>>, <<97, 98>>, <<97, 97, 98>>, <<32>>}
MCReplacement == {<<>>, <<98>>, <<97, 98, 97>>}
MCPattern == {[bytes |-> <<97, 98>>, mask |-> <<"x", "x">>, res |-> <<"?", "?">>],
              [bytes |-> <<97, 98, 97>>, mask |-> <<"x", "?", "x">>, res |-> <<"?", "x", "?">>]}
MCBehind == {<<98, 97, 97>>, <<0, 0, 0>>}
MCLeftover == {<<>>, <<97, 255, 98, 97, 98, 65>>}
===============================================================================
