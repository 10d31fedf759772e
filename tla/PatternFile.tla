------------------------------ MODULE PatternFile -----------------------------
(* create_mask_from_file of Win32Tools.c: a file holds the bytes that a pattern had  *)
(* in several runs of a program, one line for each run, as hexadecimal numbers     *)
(* between spaces. The mask is to say which bytes stay the same ("x").             *)
EXTENDS Ztring

Hex == Digits \cup 65 .. 70 \cup 97 .. 102

\* The digits up to the first byte that is none; eight at most, which the files
\* modelled never exceed.
hex_to_dec(hex) ==
    LET others == {i \in DOMAIN hex : hex[i] \notin Hex}
        digits == IF others = {} THEN hex ELSE Cut(hex, 0, Min(others) - 1)
        Value(c) == IF c \in Digits THEN c - 48 ELSE IF c < 97 THEN c - 55 ELSE c - 87
    IN  FoldLeft(LAMBDA ret, c : ret * 16 + Value(c), 0, digits)

\* Mutated: the item in front of the one that the code takes.
PickedInFront(line, i) == line[i]

\* bb_queue_pick_nth(line, i): items count from 0, and the length stands for the last.
Picked(line, i) == line[IF i = Len(line) THEN i ELSE i + 1]

\* The mask after line2 has been compared with line1, for i = 1 .. length.
Masked(mask, line1, line2) ==
    [i \in DOMAIN mask |->
        IF hex_to_dec(Picked(line1, i)) # hex_to_dec(Picked(line2, i)) THEN "?" ELSE mask[i]]

Ends(outcome, mask) == [outcome |-> outcome, mask |-> mask]

\* A line without a space has no queue of items, and its NULL is followed.
RECURSIVE Compared(_, _, _, _)
Compared(data, pos, line1, mask) ==
    LET next == str_getline(data, pos)
        line2 == str_explode(next.line, <<Space>>)
    IN  IF line2 = NullQueue THEN Ends("crash", <<>>)
        ELSE IF Len(line1) # Len(line2) THEN Ends("null", <<>>)
        ELSE IF next.pos \in {EOS, Len(data)} THEN Ends("mask", Masked(mask, line1, line2))
        ELSE Compared(data, next.pos, line2, Masked(mask, line1, line2))

\* The first line gives the mask its length. Where a newline ends the second line
\* and the file, it is returned as it is. Where the first line is the only one and
\* has no newline, the second is read from the place EOS, in front of the contents.
create_mask_from_file(data) ==
    LET first == str_getline(data, 0)
        line1 == str_explode(first.line, <<Space>>)
        mask == [i \in DOMAIN line1 |-> "x"]
    IN  IF line1 = NullQueue THEN Ends("crash", <<>>)
        ELSE IF first.pos = EOS THEN Ends("overrun", <<>>)
        ELSE IF str_getline(data, first.pos).pos = Len(data) THEN Ends("mask", mask)
        ELSE Compared(data, first.pos, line1, mask)
===============================================================================
