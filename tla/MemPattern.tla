------------------------------ MODULE MemPattern ------------------------------
(* The search of a pattern in a buffer: a pattern is a record [bytes, mask], its   *)
(* mask has "x" where the byte counts and "?" where it does not. Offsets count    *)
(* from 0, as in the code (Win32Tools.c, Scanner.c, MemProc.c).                   *)
EXTENDS Integers, Sequences, FiniteSetsExt

\* The C loop reads on behind the buffer's size as far as the mask goes.
compare_pattern(buffer, at, p) ==
    \A k \in 1 .. Len(p.mask) : p.mask[k] = "x" => buffer[at + k] = p.bytes[k]

\* Mutated: one position too many.
find_pattern_far(buffer, from, size, p) ==
    LET hits == {i \in 0 .. size : compare_pattern(buffer, from + i, p)}
    IN  IF hits = {} THEN -1 ELSE Min(hits)

find_pattern(buffer, from, size, p) ==
    LET hits == {i \in 0 .. (size - 1) : compare_pattern(buffer, from + i, p)}
    IN  IF hits = {} THEN -1 ELSE Min(hits)

\* Mutated: the search goes on with the next byte, not behind the match.
ScanOverlapping(buffer, size, p) ==
    LET found[total \in 0 .. size] ==
            LET offset == find_pattern(buffer, total, size - total, p)
            IN  IF total >= size \/ offset = -1 THEN <<>>
                ELSE <<total + offset>> \o found[total + offset + 1]
    IN  found[0]

\* The offsets that memproc_search finds in a buffer of that size.
Scan(buffer, size, p) ==
    LET len == Len(p.mask)
        found[total \in 0 .. (size + len)] ==
            LET offset == find_pattern(buffer, total, size - total, p)
            IN  IF total >= size \/ offset = -1 THEN <<>>
                ELSE <<total + offset>> \o found[total + offset + len]
    IN  found[0]

\* The runs of '?' in a mask, each with the bytes there.
scan_search(data, mask) ==
    LET Runs == {run \in (1 .. Len(mask)) \X (1 .. Len(mask)) :
                    /\ run[1] <= run[2]
                    /\ \A k \in run[1] .. run[2] : mask[k] = "?"
                    /\ run[1] = 1 \/ mask[run[1] - 1] # "?"
                    /\ run[2] = Len(mask) \/ mask[run[2] + 1] # "?"}
        Nth(n) == CHOOSE run \in Runs : Cardinality({r \in Runs : r[1] < run[1]}) = n - 1
    IN  [n \in 1 .. Cardinality(Runs) |-> SubSeq(data, Nth(n)[1], Nth(n)[2])]

\* The address of the first match in the bytes at start, 0 if there is none.
mem_search(buffer, start, size, p) ==
    LET offset == find_pattern(buffer, 0, size, p)
    IN  IF offset = -1 THEN 0 ELSE start + offset

\* The address of the first match, and the bytes under the last run of '?' in res_mask,
\* which mem_scanner returns as a number; without a run it returns the address.
mem_scanner(buffer, start, size, p, res_mask) ==
    LET address == mem_search(buffer, start, size, p)
        at == address - start
        groups == scan_search(SubSeq(buffer, at + 1, at + Len(res_mask)), res_mask)
    IN  [address |-> address,
         bytes |-> IF address = 0 \/ groups = <<>> THEN <<>> ELSE groups[Len(groups)]]

\* 0 where the memory could not be copied, but also for a match at start; start - 1
\* for none: find_pattern's offset is tested as if it were an address.
find_pattern_process(buffer, start, size, p, copied) ==
    LET offset == find_pattern(buffer, 0, size, p)
    IN  IF ~ copied \/ offset = 0 THEN 0 ELSE start + offset
===============================================================================
