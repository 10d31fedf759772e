------------------------------- MODULE MemSearch ------------------------------
(* MemProc with Scanner on top: the memory of another process is copied region by *)
(* region into chunks, the chunks are searched for patterns, and the matches      *)
(* become blocks, which can be read again from the process later. The process     *)
(* runs all the while. Offsets count from 0, as in the code.                      *)
EXTENDS MemPattern

CONSTANTS
    Byte,
    Region,         \* the process's regions, [addr, size], in ascending order
    Pattern,        \* [bytes, mask]; a mask has "x" where the byte counts, else "?"
    Behind,         \* what may lie behind a buffer on the heap
    Image,          \* the process's memory at first, one of these
    NULL,
    MaxSearches,    \* bound: searches between two memproc_get_res
    MaxWrites       \* bound: how often the process changes its memory

\* The addresses of the regions.
Addresses == UNION {Region[r].addr .. (Region[r].addr + Region[r].size - 1) :
                        r \in 1 .. Len(Region)}

\* A copy of a region, whether it could be read, and the offsets found in it.
Chunk == [addr : Nat, buffer : Seq(Byte), matches : Seq(Nat), read : BOOLEAN]

\* Where a buffer ends, the heap goes on for at least as long as a pattern is.
ASSUME MemoryAssumption ==
    /\ 0 \in Byte /\ NULL \notin Byte /\ NULL \notin Seq(Seq(Byte)) /\ NULL \notin Seq(Chunk)
    /\ Region \in Seq([addr : Nat, size : Nat \ {0}])
    /\ Image \subseteq [Addresses -> Byte]
    /\ Behind \subseteq Seq(Byte)
    /\ \A p \in Pattern :
        /\ p.bytes \in Seq(Byte) /\ p.mask \in Seq({"x", "?"})
        /\ Len(p.bytes) = Len(p.mask) /\ p.mask # <<>>
        /\ \A b \in Behind : Len(b) >= Len(p.mask)
    /\ MaxSearches \in Nat /\ MaxWrites \in Nat

VARIABLES
    mem,            \* the process's memory
    writes,         \* how often it was written
    proc,           \* a handle of the process is open
    memchunks,      \* NULL, or the chunks
    freed,          \* memproc_clear has freed them
    mask_len,
    busy,           \* the call in progress
    next,           \* the region or block it comes to next
    blocks,         \* the result of memproc_get_res: [data, addr, read]
    answer,         \* what memscan_search_cond was asked and returned, if it
                    \* was the last call
    asked,          \* the searches whose matches are still in the chunks
    of,             \* those that blocks were taken from
    changed,        \* memory was written after the dump began
    fresh,          \* the blocks that hold what memory holds
    crash

procVars == <<mem, writes, changed, fresh>>
chunkVars == <<memchunks, freed, mask_len, asked>>
dumpVars == <<busy, next>>
vars == <<procVars, proc, chunkVars, dumpVars, blocks, answer, of, crash>>

TypeOK ==
    /\ mem \in [Addresses -> Byte]
    /\ writes \in 0 .. MaxWrites
    /\ proc \in BOOLEAN /\ freed \in BOOLEAN /\ changed \in BOOLEAN
    /\ memchunks # NULL =>
        /\ memchunks \in Seq(Chunk)
        /\ Len(memchunks) <= Len(Region)
        /\ \A i \in 1 .. Len(memchunks) :
            LET c == memchunks[i]
            IN  \A m \in 1 .. Len(c.matches) : c.matches[m] \in 0 .. (Len(c.buffer) - 1)
    /\ mask_len \in {0} \cup {Len(p.mask) : p \in Pattern}
    /\ busy \in {"idle", "dump", "update"}
    /\ next \in 1 .. (Len(blocks) + Len(Region) + 1)
    /\ Len(asked) <= MaxSearches + 1
    /\ fresh \subseteq 1 .. Len(blocks)
    /\ crash \in {"none", "null_chunks", "freed_chunks", "overrun"}

Init ==
    /\ mem \in Image
    /\ writes = 0 /\ proc = FALSE
    /\ memchunks = NULL /\ freed = FALSE /\ mask_len = 0
    /\ busy = "idle" /\ next = 1
    /\ blocks = <<>> /\ answer = NULL
    /\ asked = <<>> /\ of = <<>>
    /\ changed = FALSE /\ fresh = {}
    /\ crash = "none"

Idle == busy = "idle" /\ crash = "none"

-------------------------------------------------------------------------------
(* The process.                                                                  *)

Write(a, b) ==
    /\ crash = "none"
    /\ writes < MaxWrites
    /\ mem[a] # b
    /\ mem' = [mem EXCEPT ![a] = b]
    /\ writes' = writes + 1
    /\ changed' = TRUE
    /\ fresh' = {}
    /\ UNCHANGED <<proc, chunkVars, dumpVars, blocks, answer, of, crash>>

\* The bytes of the process's memory from addr on; a read may fail, as a whole.
Read(addr, size) == [k \in 1 .. size |-> mem[addr + k - 1]]

-------------------------------------------------------------------------------
(* MemProc.                                                                      *)

memproc_refresh_handle ==
    /\ Idle
    /\ proc' = ~ proc
    /\ answer' = NULL
    /\ UNCHANGED <<procVars, chunkVars, dumpVars, blocks, of, crash>>

\* The caller is done with its blocks when it starts anew.
Forget == blocks' = <<>> /\ of' = <<>> /\ fresh' = {}

\* The chunks of an earlier dump are forgotten, not freed.
memproc_dump_details(from) ==
    /\ Idle
    /\ proc
    /\ memchunks' = <<>>
    /\ freed' = FALSE
    /\ busy' = "dump" /\ next' = from
    /\ asked' = <<>>
    /\ changed' = FALSE
    /\ answer' = NULL
    /\ Forget
    /\ UNCHANGED <<mem, writes, proc, mask_len, crash>>

memchunk_new(addr, size, ok) ==
    [addr |-> addr, matches |-> <<>>, read |-> ok,
     buffer |-> IF ok THEN Read(addr, size) ELSE [k \in 1 .. size |-> 0]]

\* boolean_function takes the region, and a chunk is made of it.
DumpRegion ==
    /\ busy = "dump" /\ crash = "none"
    /\ next <= Len(Region)
    /\ \E ok \in BOOLEAN :
         memchunks' = Append(memchunks, memchunk_new(Region[next].addr, Region[next].size, ok))
    /\ next' = next + 1
    /\ UNCHANGED <<procVars, proc, freed, mask_len, asked, busy, blocks, answer, of, crash>>

\* boolean_function leaves the region out, as a caller's own may: the one that
\* memproc_dump and memproc_dump_sections pass takes them all.
PassRegion ==
    /\ busy = "dump" /\ crash = "none"
    /\ next <= Len(Region)
    /\ next' = next + 1
    /\ UNCHANGED <<procVars, proc, chunkVars, busy, blocks, answer, of, crash>>

\* The end address or the number of sections is reached, or VirtualQueryEx fails.
DumpEnds ==
    /\ busy = "dump" /\ crash = "none"
    /\ busy' = "idle" /\ next' = 1
    /\ UNCHANGED <<procVars, proc, chunkVars, blocks, answer, of, crash>>

\* A match that the end of a buffer cuts off lets size - total wrap around, and the
\* search goes on through the address space until it faults.
Overruns(c, found, p) ==
    found # <<>> /\ found[Len(found)] + Len(p.mask) > Len(c.buffer)

FoundIn(chunks, behind, p) ==
    [i \in DOMAIN chunks |-> Scan(chunks[i].buffer \o behind[i], Len(chunks[i].buffer), p)]

WithMatches(chunks, found) ==
    [i \in DOMAIN chunks |-> [chunks[i] EXCEPT !.matches = @ \o found[i]]]

Live == memchunks # NULL /\ ~ freed

\* Mutated: the length of the mask is not kept.
memproc_search_unsized(p) ==
    /\ Idle
    /\ Live
    /\ Len(asked) < MaxSearches
    /\ \E behind \in [DOMAIN memchunks -> Behind] :
         LET found == FoundIn(memchunks, behind, p)
         IN  IF \E i \in DOMAIN memchunks : Overruns(memchunks[i], found[i], p)
             THEN crash' = "overrun" /\ UNCHANGED memchunks
             ELSE memchunks' = WithMatches(memchunks, found) /\ UNCHANGED crash
    /\ asked' = Append(asked, p)
    /\ answer' = NULL
    /\ Forget
    /\ UNCHANGED <<mem, writes, changed, proc, freed, mask_len, dumpVars>>

\* Mutated: the mask's length counts its end mark.
memproc_search_sizeof(p) ==
    /\ Idle
    /\ Live
    /\ Len(asked) < MaxSearches
    /\ \E behind \in [DOMAIN memchunks -> Behind] :
         LET found == FoundIn(memchunks, behind, p)
         IN  IF \E i \in DOMAIN memchunks : Overruns(memchunks[i], found[i], p)
             THEN crash' = "overrun" /\ UNCHANGED memchunks
             ELSE memchunks' = WithMatches(memchunks, found) /\ UNCHANGED crash
    /\ mask_len' = Len(p.mask) + 1
    /\ asked' = Append(asked, p)
    /\ answer' = NULL
    /\ Forget
    /\ UNCHANGED <<mem, writes, changed, proc, freed, dumpVars>>

\* memproc_search. Without a dump it warns and returns.
memproc_search(p) ==
    /\ Idle
    /\ Live
    /\ Len(asked) < MaxSearches
    /\ \E behind \in [DOMAIN memchunks -> Behind] :
         LET found == FoundIn(memchunks, behind, p)
         IN  IF \E i \in DOMAIN memchunks : Overruns(memchunks[i], found[i], p)
             THEN crash' = "overrun" /\ UNCHANGED memchunks
             ELSE memchunks' = WithMatches(memchunks, found) /\ UNCHANGED crash
    /\ mask_len' = Len(p.mask)
    /\ asked' = Append(asked, p)
    /\ answer' = NULL
    /\ Forget
    /\ UNCHANGED <<mem, writes, changed, proc, freed, dumpVars>>

Reversed(s) == [k \in 1 .. Len(s) |-> s[Len(s) + 1 - k]]

\* Mutated: the offset in the chunk for the address.
BlocksAtOffset(chunks, behind, len) ==
    LET BlocksIn(i) ==
            LET c == chunks[i]
                Block(o) == [data |-> SubSeq(c.buffer \o behind[i], o + 1, o + len),
                             addr |-> o, read |-> c.read]
            IN  [k \in 1 .. Len(c.matches) |-> Block(Reversed(c.matches)[k])]
        upto[i \in 0 .. Len(chunks)] ==
            IF i = 0 THEN <<>> ELSE upto[i - 1] \o BlocksIn(i)
    IN  upto[Len(chunks)]

\* The blocks of the chunks in turn, each chunk's matches popped from the end.
BlocksOf(chunks, behind, len) ==
    LET BlocksIn(i) ==
            LET c == chunks[i]
                Block(o) == [data |-> SubSeq(c.buffer \o behind[i], o + 1, o + len),
                             addr |-> c.addr + o, read |-> c.read]
            IN  [k \in 1 .. Len(c.matches) |-> Block(Reversed(c.matches)[k])]
        upto[i \in 0 .. Len(chunks)] ==
            IF i = 0 THEN <<>> ELSE upto[i - 1] \o BlocksIn(i)
    IN  upto[Len(chunks)]

Emptied(chunks) == [i \in DOMAIN chunks |-> [chunks[i] EXCEPT !.matches = <<>>]]

memproc_get_res ==
    /\ Idle
    /\ Live
    /\ \E behind \in [DOMAIN memchunks -> Behind] :
         blocks' = BlocksOf(memchunks, behind, mask_len)
    /\ memchunks' = Emptied(memchunks)
    /\ asked' = <<>>
    /\ of' = asked
    /\ fresh' = IF changed THEN {} ELSE {i \in DOMAIN blocks' : blocks'[i].read}
    /\ answer' = NULL
    /\ UNCHANGED <<mem, writes, changed, proc, freed, mask_len, dumpVars, crash>>

\* memproc_update reads the blocks again, one after the other.
memproc_update ==
    /\ Idle
    /\ blocks # <<>>
    /\ busy' = "update" /\ next' = 1
    /\ UNCHANGED <<procVars, proc, chunkVars, blocks, answer, of, crash>>
UpdateBlock ==
    /\ busy = "update" /\ crash = "none"
    /\ next <= Len(blocks)
    /\ LET b == blocks[next]
           there == proc /\ b.addr .. (b.addr + Len(b.data) - 1) \subseteq Addresses
       IN  \/ /\ there
              /\ blocks' = [blocks EXCEPT ![next].data = Read(b.addr, Len(b.data))]
              /\ fresh' = fresh \cup {next}
           \/ UNCHANGED <<blocks, fresh>>       \* the read fails
    /\ next' = next + 1
    /\ answer' = NULL
    /\ UNCHANGED <<mem, writes, changed, proc, chunkVars, busy, of, crash>>

UpdateEnds ==
    /\ busy = "update" /\ crash = "none"
    /\ next > Len(blocks)
    /\ busy' = "idle" /\ next' = 1
    /\ UNCHANGED <<procVars, proc, chunkVars, blocks, answer, of, crash>>

\* memproc_clear frees the chunks and keeps the pointer to them.
memproc_clear ==
    /\ Idle
    /\ Live
    /\ freed' = TRUE
    /\ memchunks' = <<>> /\ asked' = <<>>
    /\ answer' = NULL
    /\ Forget
    /\ UNCHANGED <<mem, writes, changed, proc, mask_len, dumpVars, crash>>

\* memproc_get_res and memproc_clear follow the pointer as it is.
NoChunks ==
    /\ Idle
    /\ ~ Live
    /\ crash' = IF memchunks = NULL THEN "null_chunks" ELSE "freed_chunks"
    /\ UNCHANGED <<procVars, proc, chunkVars, dumpVars, blocks, answer, of>>

-------------------------------------------------------------------------------
(* Scanner. memscan_search_all is memproc_search and memproc_get_res, one after    *)
(* the other. memscan_search_buffer, and memscan_search_string on it, are left out: *)
(* the mask they make has no NUL at its end (Scanner.c:177-180), and memproc_search *)
(* takes strlen of it: what they search for is up to the heap.                    *)

\* A caller's condition on the bytes found: none, or on the first of them.
Accepts(v, groups) == v = NULL \/ (groups # <<>> /\ groups[1][1] = v)

\* Mutated: the condition is asked of the first result only.
OnlyFirst(v, groups) ==
    IF groups # <<>> /\ Accepts(v, groups[1]) THEN groups[1] ELSE NULL

\* The first result the condition accepts, in the order of the blocks.
FirstAccepted(v, groups) ==
    LET good == {i \in DOMAIN groups : Accepts(v, groups[i])}
    IN  IF good = {} THEN NULL ELSE groups[Min(good)]

memscan_search_cond(p, v) ==
    /\ Idle
    /\ Live
    /\ \E behind \in [DOMAIN memchunks -> Behind] :
         LET found == FoundIn(memchunks, behind, p)
             results == BlocksOf(WithMatches(memchunks, found), behind, Len(p.mask))
             groups == [i \in DOMAIN results |-> scan_search(results[i].data, p.mask)]
         IN  IF \E i \in DOMAIN memchunks : Overruns(memchunks[i], found[i], p)
             THEN /\ crash' = "overrun"
                  /\ asked' = Append(asked, p)
                  /\ UNCHANGED <<memchunks, answer>>
             ELSE /\ memchunks' = Emptied(memchunks)
                  /\ answer' = [p |-> p, v |-> v, alone |-> asked = <<>>,
                                groups |-> FirstAccepted(v, groups)]
                  /\ asked' = <<>>
                  /\ UNCHANGED crash
    /\ mask_len' = Len(p.mask)
    /\ Forget
    /\ UNCHANGED <<mem, writes, changed, proc, freed, dumpVars>>

Next ==
    \/ \E a \in Addresses, b \in Byte : Write(a, b)
    \/ memproc_refresh_handle
    \/ \E from \in DOMAIN Region : memproc_dump_details(from)
    \/ DumpRegion \/ PassRegion \/ DumpEnds
    \/ \E p \in Pattern : memproc_search(p)
    \/ memproc_get_res
    \/ memproc_update \/ UpdateBlock \/ UpdateEnds
    \/ memproc_clear \/ NoChunks
    \/ \E p \in Pattern, v \in Byte \cup {NULL} : memscan_search_cond(p, v)

Spec == Init /\ [][Next]_vars

-------------------------------------------------------------------------------
(* What must hold.                                                               *)

\* An occurrence of p in a chunk, from offset o on.
Occurs(c, p, o) ==
    /\ o + Len(p.mask) <= Len(c.buffer)
    /\ compare_pattern(c.buffer, o, p)

Cover(o, p) == o .. (o + Len(p.mask) - 1)

\* S is what a search from left to right without overlaps has to find.
Leftmost(S, c, p) ==
    /\ \A o \in S : Occurs(c, p, o)
    /\ \A o, q \in S : o # q => Cover(o, p) \cap Cover(q, p) = {}
    /\ \A o \in 0 .. Len(c.buffer) :
         Occurs(c, p, o) => \E q \in S : q <= o /\ o \in Cover(q, p)

\* After one search the matches of each chunk are the leftmost occurrences that do
\* not overlap, each once and in order (memproc_search).
MatchesLeftmost ==
    Live /\ Len(asked) = 1 /\ crash = "none" =>
        \A i \in DOMAIN memchunks :
            LET m == memchunks[i].matches
            IN  /\ Leftmost({m[k] : k \in DOMAIN m}, memchunks[i], asked[1])
                /\ \A k \in 1 .. (Len(m) - 1) : m[k] < m[k + 1]

OneLength(searches) ==
    \A k, l \in DOMAIN searches : Len(searches[k].mask) = Len(searches[l].mask)

InRegion(b) ==
    \E r \in DOMAIN Region :
        /\ Region[r].addr <= b.addr
        /\ b.addr + Len(b.data) <= Region[r].addr + Region[r].size

\* Unless searches of different lengths were mixed, each block lies in one region and
\* has the length of what was searched (memproc_get_res takes it from the last one).
BlocksInside ==
    OneLength(of) =>
        \A i \in DOMAIN blocks :
            InRegion(blocks[i]) /\ Len(blocks[i].data) = Len(of[1].mask)

\* As long as the process has not written since the dump, and again after an update,
\* a block that could be read holds what the process's memory holds at its address.
BlocksTellMemory ==
    OneLength(of) =>
        \A i \in fresh : blocks[i].data = Read(blocks[i].addr, Len(blocks[i].data))

\* A search runs beyond a buffer only if the pattern begins in its last bytes, cut off.
OverrunOnlyAtTheEnd ==
    crash = "overrun" =>
        \E i \in DOMAIN memchunks :
            LET c == memchunks[i]
                p == asked[Len(asked)]
            IN  \E o \in 0 .. (Len(c.buffer) - 1) :
                    /\ o + Len(p.mask) > Len(c.buffer)
                    /\ \A k \in 1 .. (Len(c.buffer) - o) :
                         p.mask[k] = "x" => c.buffer[o + k] = p.bytes[k]

\* memscan_search_cond, with no matches left over from before, returns the groups of
\* an occurrence that its condition accepts, and NULL only if there is none.
CondAnswered ==
    answer # NULL /\ answer.alone /\ Live /\ crash = "none" =>
        LET Sought(c) == CHOOSE S \in SUBSET (0 .. (Len(c.buffer) - 1)) : Leftmost(S, c, answer.p)
            Found == UNION {
                {scan_search(SubSeq(memchunks[i].buffer, o + 1, o + Len(answer.p.mask)),
                             answer.p.mask) : o \in Sought(memchunks[i])}
                : i \in DOMAIN memchunks}
            Good == {g \in Found : Accepts(answer.v, g)}
        IN  IF answer.groups = NULL THEN Good = {} ELSE answer.groups \in Good
===============================================================================
