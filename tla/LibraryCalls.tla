----------------------------- MODULE LibraryCalls -----------------------------
(* A caller of the string, file and pattern functions: it holds one text, passes it *)
(* to one function after the other, and may keep what it is given as the next text. *)
(* The text serves as a string, as the contents of a file and as the memory of a   *)
(* process alike.                                                                *)
EXTENDS PatternFile, MemPattern

CONSTANTS
    Text,           \* the texts the caller starts with
    Needle,         \* search strings and delimiters
    Replacement,
    Pattern,        \* patterns of bytes, [bytes, mask], res the mask of the bytes wanted
    Behind,         \* what may lie behind the memory that is searched
    Leftover,       \* what the heap may hold up to a NUL where none was written
    Start,          \* the address of the memory that is searched
    MaxRepeat,      \* bound: repetitions that str_repeat is asked for
    MaxKept         \* bound: the length of a result that is kept

ASSUME LibraryAssumption ==
    /\ \A t \in Text \cup Needle \cup Replacement \cup Leftover : \A i \in DOMAIN t : t[i] \in 0 .. 255
    /\ \A n \in Needle : n # <<>>
    /\ Start \in Nat \ {0}
    /\ \A p \in Pattern : Len(p.res) = Len(p.mask) /\ \A b \in Behind : Len(b) >= Len(p.mask)

VARIABLES
    text,
    reader,         \* the function that reads its lines, if one does
    place,          \* where the next line begins, EOS behind the last one
    lines,          \* history: the lines read
    result          \* the last call, its arguments, the text it was given, its value

vars == <<text, reader, place, lines, result>>
NoResult == [call |-> "none"]
Damaged == [call |-> "damaged"]     \* the heap is damaged: anything may follow

Init ==
    /\ text \in Text
    /\ reader = "none" /\ place = 0 /\ lines = <<>>
    /\ result = NoResult

Fresh == reader = "none" /\ result = NoResult

\* A call that leaves the text alone, one that damages the heap meanwhile, and one
\* that changes the text in place.
Calls(call, arg, value) ==
    /\ Fresh
    /\ result' = [call |-> call, arg |-> arg, of |-> text, value |-> value]
    /\ UNCHANGED <<text, reader, place, lines>>

Damages ==
    /\ Fresh
    /\ result' = Damaged
    /\ UNCHANGED <<text, reader, place, lines>>

Changes(call, value) ==
    /\ Fresh
    /\ text' = value
    /\ result' = [call |-> call, arg |-> <<>>, of |-> text, value |-> value]
    /\ UNCHANGED <<reader, place, lines>>

Search(p) ==
    \/ Calls("str_pos", p, str_pos(text, p))
    \/ Calls("str_pos_after", p, str_pos_after(text, p))
    \/ Calls("str_pos_reverse", p, str_pos_reverse(text, p))

\* The NUL behind a part may hit what the heap keeps there, or nothing.
Explode(p) ==
    \/ Calls("str_explode", p, str_explode(text, p))
    \/ str_explode(text, p) # NullQueue /\ Damages

Bet(p, q) == Calls("str_bet", <<p, q>>, str_bet(text, p, q))
Replace(p, r) == Calls("str_replace", <<p, r>>, str_replace(p, r, text))
Word == Calls("str_get_word", <<>>, str_get_word(text))
Repeat(n, heap) == Calls("str_repeat", n, str_repeat(text, n, heap))
Encode(heap) == Calls("str_b64_encode", heap, str_b64_encode(text, heap))
Decode == Calls("str_b64_decode", <<>>, str_b64_decode(text))
Trim == Changes("str_trim", str_trim(text))
ToLower == Changes("str_to_lower", str_to_lower(text))
CountLines == Calls("file_get_lines_count", <<>>, file_get_lines_count(text))
ContentsLine == Calls("file_get_contents_line", <<>>, file_get_contents_line(text))

\* Its lines go through str_explode.
MaskFromFile ==
    \/ Calls("create_mask_from_file", <<>>, create_mask_from_file(text))
    \/ str_explode(str_getline(text, 0).line, <<Space>>) # NullQueue /\ Damages

\* The memory is copied into a buffer first, which may fail in malloc or in the read.
FindInProcess(p, behind, copied) ==
    Calls("find_pattern_process", [pattern |-> p, copied |-> copied],
          find_pattern_process(text \o behind, Start, Len(text), p, copied))

SearchOwnMemory(p, behind) ==
    Calls("mem_search", p, mem_search(text \o behind, Start, Len(text), p))
ScanOwnMemory(p, behind) ==
    Calls("mem_scanner", p, mem_scanner(text \o behind, Start, Len(text), p, p.res))

\* The lines of the text, one after the other.
ReadLine(by, next) ==
    /\ result = NoResult
    /\ reader \in {"none", by}
    /\ reader' = by
    /\ lines' = Append(lines, next.line)
    /\ place' = next.pos
    /\ UNCHANGED <<text, result>>

GetLine == place # EOS /\ ReadLine("string", str_getline(text, place))
FileGetLine == place < Len(text) /\ ReadLine("file", file_getline(text, place))

\* The caller goes on with the string it was given, or with the text it had.
Keep ==
    /\ result.call \in {"str_bet", "str_replace", "str_get_word", "str_repeat",
                        "str_b64_encode", "str_b64_decode"}
    /\ result.value # Null
    /\ Len(Terminated(result.value)) <= MaxKept
    /\ text' = Terminated(result.value)
    /\ result' = NoResult
    /\ UNCHANGED <<reader, place, lines>>

Again ==
    /\ ~ Fresh
    /\ result # Damaged
    /\ reader' = "none" /\ place' = 0 /\ lines' = <<>>
    /\ result' = NoResult
    /\ UNCHANGED text

Next ==
    \/ \E p \in Needle : Search(p) \/ Explode(p)
    \/ \E p \in Needle \cup {NoStart}, q \in Needle \cup {ToTheEnd} : Bet(p, q)
    \/ \E p \in Needle, r \in Replacement : Replace(p, r)
    \/ \E n \in 0 .. MaxRepeat, heap \in Leftover : Repeat(n, heap)
    \/ \E heap \in Leftover : Encode(heap)
    \/ Word \/ Decode \/ Trim \/ ToLower
    \/ CountLines \/ ContentsLine \/ MaskFromFile
    \/ \E p \in Pattern, b \in Behind :
         \/ \E copied \in BOOLEAN : FindInProcess(p, b, copied)
         \/ SearchOwnMemory(p, b) \/ ScanOwnMemory(p, b)
    \/ GetLine \/ FileGetLine \/ Keep \/ Again

Spec == Init /\ [][Next]_vars
-------------------------------------------------------------------------------
(* What the answers of the last call say of the text it was given.               *)

Occurs(search, str, i) == i \in 0 .. (Len(str) - Len(search)) /\ IsPrefix(search, From(str, i))
Parted(search) == 1 .. (Len(search) - 1)

\* str_pos and its relatives answer with occurrences only, and pass one by only if
\* the letters in front of it (behind it, for str_pos_reverse) are a partial match
\* that it breaks.
PosSound ==
    LET s == result.of  p == result.arg  v == result.value
        at == IF result.call = "str_pos_after" /\ v # -1 THEN v - Len(p) ELSE v
    IN  /\ result.call \in {"str_pos", "str_pos_after", "str_pos_reverse"} =>
            at = -1 \/ Occurs(p, s, at)
        /\ result.call \in {"str_pos", "str_pos_after"} =>
            \A i \in 0 .. Len(s) :
                Occurs(p, s, i) /\ (at = -1 \/ i < at) =>
                    \E j \in Parted(p) : i >= j /\ Cut(s, i - j, i) = Cut(p, 0, j)
        /\ result.call = "str_pos_reverse" =>
            \A i \in 0 .. Len(s) :
                Occurs(p, s, i) /\ i > at =>
                    \E j \in Parted(p) : IsPrefix(From(p, Len(p) - j), From(s, i + Len(p)))

\* mem_search answers with the first place where the pattern matches, 0 if there is none,
\* and so does find_pattern_process, except that it tells none by the address in front
\* of the memory, and 0 stands for a match at its start and for memory that could not be
\* copied. A match counts as far as it is inside.
ProcessAnswers ==
    LET p == IF result.call = "mem_search" THEN result.arg ELSE result.arg.pattern
        Matches(i) == \A k \in 1 .. Len(p.mask) :
            p.mask[k] = "x" /\ i + k <= Len(result.of) => result.of[i + k] = p.bytes[k]
        whole == {i \in 0 .. (Len(result.of) - Len(p.mask)) : Matches(i)}
        at == result.value - Start
        AtFirst == /\ at \in 0 .. (Len(result.of) - 1) /\ Matches(at)
                   /\ \A i \in whole : at <= i
    IN  /\ result.call = "mem_search" =>
            IF result.value = 0 THEN whole = {} ELSE AtFirst
        /\ result.call = "find_pattern_process" =>
            IF ~ result.arg.copied THEN result.value = 0
            ELSE IF result.value = 0 THEN Matches(0)
            ELSE IF at = -1 THEN whole = {} ELSE AtFirst

\* mem_scanner answers with the last bytes wanted of the first match.
ScannerAnswers ==
    LET p == result.arg  v == result.value
        wanted == {k \in DOMAIN p.res : p.res[k] = "?"}
        first == {k \in wanted : k .. Max(wanted) \subseteq wanted}
        from == v.address - Start + Min(first)
    IN  result.call = "mem_scanner" =>
        /\ v.address = mem_search(result.of \o [k \in DOMAIN p.mask |-> EOS], Start,
                                  Len(result.of), p)
             \/ v.address > Start + Len(result.of) - Len(p.mask)
        /\ v.address # 0 /\ v.address + Len(p.mask) <= Start + Len(result.of) =>
            v.bytes = (IF wanted = {} THEN <<>>
                       ELSE SubSeq(result.of, from, from + Cardinality(first) - 1))

\* A search answers with a place where the thing is, on the side it promises.
SearchesSound == PosSound /\ ProcessAnswers /\ ScannerAnswers

\* The parts of str_explode, joined with the delimiter, are the string again, and none
\* but the last is empty. A delimiter is left in a part only where the letters in front
\* of it are a partial match that it breaks, or where the last part starts with one:
\* everything from there on is left together.
ExplodeJoins ==
    LET v == IF result.value = NullQueue THEN <<result.of>> ELSE result.value
        d == result.arg
        LeftTogether(i) == i = Len(v) /\ IsPrefix(d, v[i])
    IN  result.call = "str_explode" =>
        /\ FlattenSeq([i \in DOMAIN v |-> IF i = Len(v) THEN v[i] ELSE v[i] \o d]) = result.of
        /\ \A i \in 1 .. (Len(v) - 1) : v[i] # <<>>
        /\ \A i \in DOMAIN v : \A at \in 0 .. Len(v[i]) :
             Occurs(d, v[i], at) =>
                 \/ LeftTogether(i)
                 \/ \E j \in Parted(d) : at >= j /\ Cut(v[i], at - j, at) = Cut(d, 0, j)

\* str_bet answers with the text between the first start and the next end behind it,
\* with NULL where either is missing, although a missing end is computed with.
BetDelimited ==
    LET str == result.of  start == result.arg[1]  end == result.arg[2]
        from == IF start = NoStart THEN 0 ELSE str_pos_after(str, start)
        rest == From(str, from)
    IN  result.call = "str_bet" =>
        IF result.value = Null
        THEN from = -1 \/ (end # ToTheEnd /\ str_pos(rest, end) = -1)
        ELSE /\ from # -1
             /\ IF end = ToTheEnd THEN result.value = rest
                ELSE /\ IsPrefix(result.value \o end, rest)
                     /\ str_pos(result.value, end) = -1

PartsDelimited == ExplodeJoins /\ BetDelimited

RECURSIVE ReplacedByPos(_, _, _)
ReplacedByPos(search, replace, str) ==
    LET pos == str_pos(str, search)
    IN  IF pos = -1 THEN str
        ELSE Cut(str, 0, pos) \o replace
             \o ReplacedByPos(search, replace, From(str, pos + Len(search)))

Words(str) ==
    LET starts == {i \in DOMAIN str : str[i] # Space /\ (i = 1 \/ str[i - 1] = Space)}
        Word1(i) == str_get_word(From(str, i - 1))
    IN  [n \in 1 .. Cardinality(starts) |->
            Word1(CHOOSE i \in starts : Cardinality({j \in starts : j < i}) = n - 1)]

\* str_replace computes all places and the new length beforehand, and fills exactly the
\* buffer of that length with what finding and replacing one occurrence after the other
\* gives. str_trim leaves the words, in their order, with one space between them. What
\* str_b64_encode makes of any bytes, str_b64_decode makes into those bytes, followed by
\* what it makes of the letters that the heap holds behind them: nothing ends the code.
RewritesFaithful ==
    /\ result.call = "str_replace" =>
        result.value = ReplacedByPos(result.arg[1], result.arg[2], result.of) \o <<0>>
    /\ result.call = "str_trim" =>
        /\ Words(result.value) = Words(result.of)
        /\ Len(result.value) = Len(FlattenSeq(Words(result.of)))
                               + Max({0, Len(Words(result.of)) - 1})
    /\ result.call = "str_b64_encode" =>
        str_b64_decode(result.value) = result.of \o str_b64_decode(result.arg)

\* However far a reader has come, it has given out every byte up to its place once
\* and in order, cut at the newlines (for a file, also at the bytes that a char takes
\* for EOF), and a last line without one.
LinesRead ==
    LET stops == IF reader = "file" THEN {Newline, EofByte} ELSE {Newline}
        done == IF place = EOS THEN text ELSE Cut(text, 0, place)
        Stopping(c) == c \in stops
        Kept(c) == c \notin stops
        ended == place # EOS /\ (reader = "file" => Last(done) \in stops)
    IN  reader # "none" =>
        /\ place <= Len(text)
        /\ FlattenSeq(lines) = SelectSeq(done, Kept)
        /\ Len(lines) = Len(SelectSeq(done, Stopping)) + (IF ended THEN 0 ELSE 1)

\* The numbers on the lines of a file, a newline at its end left aside.
Rows(file) ==
    LET ends == {i \in DOMAIN file : file[i] = Newline} \cup {Len(file) + 1}
        Start1(i) == Max({0} \cup {j \in ends : j < i})
        lines1 == {Cut(file, Start1(i), i - 1) : i \in ends} \ {<<>>}
        Items(l) == str_explode(l, <<Space>>)
    IN  {[n \in DOMAIN Items(l) |-> hex_to_dec(Items(l)[n])] : l \in lines1}

\* A mask speaks of one byte too late: its letter at a place tells whether the lines
\* agree on the next byte, its last two letters of the last byte, none of the first.
\* Two lines with a newline after the second are not compared at all.
MaskOneByteLate ==
    LET m == result.value.mask
        compared == Newlines(result.of) # 2 \/ Last(result.of) # Newline
        Differ(n) == \E r, q \in Rows(result.of) : r[n] # q[n]
    IN  result.call = "create_mask_from_file" /\ result.value.outcome = "mask" =>
        \A n \in DOMAIN m :
            (m[n] = "?") <=> (compared /\ Differ(Min({n + 1, Len(m)})))
===============================================================================
