-------------------------------- MODULE Ztring --------------------------------
(* The string and file functions of Ztring.c. A string is the sequence of its     *)
(* bytes without the final NUL, a file that of its contents; positions count from *)
(* 0 and may be -1, as in the code. Search strings and delimiters are not empty.  *)
EXTENDS Integers, SequencesExt, FiniteSetsExt

Newline == 10
Space == 32
EOS == -1
Null == <<-1>>              \* the NULL pointer, which is no string
NullQueue == <<Null>>
EofByte == 255              \* the byte that a char takes for EOF
Unset == -1                 \* what malloc leaves in a buffer
Digits == 48 .. 57
Upper == 65 .. 90
Lower == 97 .. 122

\* The bytes str[from] to str[to - 1].
Cut(str, from, to) == SubSeq(str, from + 1, to)
From(str, from) == Cut(str, from, Len(str))

-------------------------------------------------------------------------------
(* Search.                                                                       *)

\* Mutated: another letter does not set the count back.
CountedOn(str, search) ==
    LET count[i \in 0 .. Len(str)] ==
          IF i = 0 THEN 0
          ELSE LET n == count[i - 1] % Len(search)
               IN  IF str[i] = search[n + 1] THEN n + 1 ELSE n
    IN  count

\* The letters of search counted after each letter of str. A letter that ends a
\* partial match is not compared with the first letter of search.
Counted(str, search) ==
    LET count[i \in 0 .. Len(str)] ==
          IF i = 0 THEN 0
          ELSE LET n == count[i - 1] % Len(search)
               IN  IF str[i] = search[n + 1] THEN n + 1 ELSE 0
    IN  count

str_n_pos(str, search, len_str) ==
    LET ends == {i \in 1 .. len_str : Counted(str, search)[i] = Len(search)}
    IN  IF ends = {} THEN -1 ELSE Min(ends) - Len(search)

str_pos(str, search) == str_n_pos(str, search, Len(str))

str_pos_after(str, search) ==
    LET res == str_pos(str, search)
    IN  IF res = -1 THEN -1 ELSE res + Len(search)

\* The same scan from the end.
str_pos_reverse(str, search) ==
    LET res == str_pos(Reverse(str), Reverse(search))
    IN  IF res = -1 THEN -1 ELSE Len(str) - res - Len(search)

char_pos(str, character) ==
    LET places == {i \in 1 .. Len(str) : str[i] = character}
    IN  IF places = {} THEN -1 ELSE Min(places) - 1

-------------------------------------------------------------------------------
(* Parts.                                                                        *)

\* The parts of str between its delimiters: a part is taken while a delimiter is
\* found, and not at the start of what is left.
RECURSIVE Parts(_, _)
Parts(str, delimiter) ==
    LET pos == str_pos(str, delimiter)
    IN  IF pos \in {-1, 0} THEN <<str>>
        ELSE <<Cut(str, 0, pos)>> \o Parts(From(str, pos + Len(delimiter)), delimiter)

\* Each part but the last has a buffer of its length: its NUL is written behind it.
str_explode(str, delimiter) ==
    LET parts == Parts(str, delimiter)
    IN  IF Len(parts) = 1 THEN NullQueue ELSE parts

str_substring(str, start, end) == IF start <= end THEN Cut(str, start, end) ELSE Null

\* What a NULL start, and (void *) -1 for the end, mean.
NoStart == Null
ToTheEnd == <<-1, -1>>

\* Mutated: the end is looked for from the start of the string.
BetweenFirsts(str, start, end) ==
    LET from == IF start = NoStart THEN 0 ELSE str_pos_after(str, start)
        to == IF end = ToTheEnd THEN Len(str) ELSE str_pos(str, end)
    IN  IF from = -1 \/ to = -1 THEN Null ELSE str_substring(str, from, to)

\* Where end is not found, pos_end is the place in front of pos_start + start_len:
\* -1, or a place that str_substring refuses.
str_bet(str, start, end) ==
    LET from == IF start = NoStart THEN 0 ELSE str_pos_after(str, start)
        to == IF end = ToTheEnd THEN Len(str) ELSE str_pos(From(str, from), end) + from
    IN  IF from = -1 \/ to = -1 THEN Null ELSE str_substring(str, from, to)

\* A line, and the place behind it, EOS for a line that no newline ends.
str_getline(str, pos) ==
    LET i == char_pos(From(str, pos), Newline) + pos
    IN  IF i < pos THEN [line |-> From(str, pos), pos |-> EOS]
        ELSE [line |-> Cut(str, pos, i), pos |-> i + 1]

str_get_word(str) ==
    LET i == char_pos(str, Space)
    IN  IF i = -1 THEN str ELSE Cut(str, 0, i)

-------------------------------------------------------------------------------
(* Changes.                                                                      *)

\* Spaces at the start are skipped, later ones taken once, and one at the end is
\* taken off again.
str_trim(str) ==
    LET out == FoldLeft(LAMBDA o, c : IF c = Space /\ (o = <<>> \/ Last(o) = Space)
                                      THEN o ELSE Append(o, c), <<>>, str)
    IN  IF out # <<>> /\ Last(out) = Space THEN Front(out) ELSE out

\* The places that the scan finds, in order.
Places(search, str) ==
    LET count == Counted(str, search)
    IN  SelectSeq([i \in DOMAIN str |-> i - Len(search)],
                  LAMBDA at : count[at + Len(search)] = Len(search))

\* A buffer of malloc, and bytes written to it from a place on: beyond its end, too.
Malloc(size) == [i \in 1 .. size |-> Unset]
Written(dest, at, bytes) == Cut(dest, 0, at) \o bytes \o From(dest, at + Len(bytes))

\* The place of the NUL that ends a string in memory, and the string.
StrLen(dest) == char_pos(dest, 0)
Terminated(dest) == IF StrLen(dest) = -1 THEN dest ELSE Cut(dest, 0, StrLen(dest))

\* Mutated: the string is taken from where it would be behind one replacement.
FilledUnshifted(search, replace, str, done, r) ==
    LET offset == IF done.count = 0 THEN 0 ELSE Len(search) - Len(replace)
        stop == Max({done.start, r - offset})
        copied == Written(done.dest, done.start,
                          Cut(str, done.start + offset, stop + offset) \o <<0>>)
    IN  [dest |-> Written(copied, StrLen(copied), replace \o <<0>>),
         start |-> stop + Len(replace),
         count |-> done.count + 1]

\* The string up to the occurrence at r, and the replacement behind it. The places in
\* dest are offset behind those in the string by then.
Filled(search, replace, str, done, r) ==
    LET offset == (Len(search) - Len(replace)) * done.count
        stop == Max({done.start, r - offset})
        copied == Written(done.dest, done.start,
                          Cut(str, done.start + offset, stop + offset) \o <<0>>)
    IN  [dest |-> Written(copied, StrLen(copied), replace \o <<0>>),
         start |-> stop + Len(replace),
         count |-> done.count + 1]

\* All places and the length are computed first, and then the buffer is filled: the
\* rest of the string last, from its end. Its value is the buffer, of len_dest + 1.
str_replace(search, replace, str) ==
    LET places == Places(search, str)
        len_dest == Len(str) + Len(places) * (Len(replace) - Len(search))
        filled == FoldLeft(LAMBDA done, r : Filled(search, replace, str, done, r),
                           [dest |-> Malloc(len_dest + 1), start |-> 0, count |-> 0], places)
        rest == From(str, Last(places) + Len(search))
    IN  IF places = <<>> THEN str \o <<0>>
        ELSE Written(Written(filled.dest, len_dest - Len(rest), rest), len_dest, <<0>>)

str_to_lower(str) == [i \in DOMAIN str |-> IF str[i] \in Upper THEN str[i] + 32 ELSE str[i]]

\* No repetition writes no NUL: what the heap holds there is returned.
str_repeat(repeat_pattern, n, heap) ==
    IF n = 0 THEN heap ELSE FlattenSeq([i \in 1 .. n |-> repeat_pattern])

-------------------------------------------------------------------------------
(* Base 64.                                                                      *)
b64_encode(u) ==
    CASE u < 26 -> 65 + u
      [] u \in 26 .. 51 -> 97 + (u - 26)
      [] u \in 52 .. 61 -> 48 + (u - 52)
      [] u = 62 -> 43
      [] OTHER -> 47

b64_decode(c) ==
    CASE c \in Upper -> c - 65
      [] c \in Lower -> c - 97 + 26
      [] c \in Digits -> c - 48 + 52
      [] c = 43 -> 62
      [] OTHER -> 63

Pad == 61
is_base64(c) == c \in Upper \cup Lower \cup Digits \cup {43, 47, Pad}

\* Three bytes become four letters, those of missing bytes "=". No NUL is written: the
\* string goes on with what the heap holds behind the letters.
str_b64_encode(src, heap) ==
    LET b(i) == IF i <= Len(src) THEN src[i] ELSE 0
        Group(i) == <<b64_encode(b(i) \div 4),
                      b64_encode((b(i) % 4) * 16 + b(i + 1) \div 16),
                      IF i + 1 <= Len(src)
                      THEN b64_encode((b(i + 1) % 16) * 4 + b(i + 2) \div 64) ELSE Pad,
                      IF i + 2 <= Len(src) THEN b64_encode(b(i + 2) % 64) ELSE Pad>>
    IN  FlattenSeq([g \in 1 .. ((Len(src) + 2) \div 3) |-> Group(3 * g - 2)]) \o heap

\* Bytes that are no letters are skipped, letters that are missing count as "A".
str_b64_decode(src) ==
    LET buf == SelectSeq(src, is_base64)
        c(k) == IF k <= Len(buf) THEN buf[k] ELSE 65
        b(k) == b64_decode(c(k))
        Group(k) == <<(b(k) * 4 + b(k + 1) \div 16) % 256>>
            \o (IF c(k + 2) = Pad THEN <<>> ELSE <<(b(k + 1) % 16) * 16 + b(k + 2) \div 4>>)
            \o (IF c(k + 3) = Pad THEN <<>> ELSE <<((b(k + 2) % 4) * 64 + b(k + 3)) % 256>>)
    IN  FlattenSeq([g \in 1 .. ((Len(buf) + 3) \div 4) |-> Group(4 * g - 3)])

-------------------------------------------------------------------------------
(* Files.                                                                        *)

\* Mutated: a line that the end of the file ends is read with one byte more.
file_getline_far(file, pos) ==
    LET stops == {i \in (pos + 1) .. Len(file) : file[i] \in {Newline, EofByte}}
        i == IF stops = {} THEN Len(file) + 1 ELSE Min(stops)
    IN  [line |-> Cut(file, pos, i - 1), pos |-> i]

\* The line at pos and the place behind the byte that ended it.
file_getline(file, pos) ==
    LET stops == {i \in (pos + 1) .. Len(file) : file[i] \in {Newline, EofByte}}
        i == IF stops = {} THEN Len(file) + 1 ELSE Min(stops)
    IN  [line |-> Cut(file, pos, i - 1), pos |-> Min({i, Len(file)})]

Newlines(str) == Cardinality({i \in DOMAIN str : str[i] = Newline})

\* A file without a newline counts none, any other one more than its newlines.
file_get_lines_count(file) == IF Newlines(file) = 0 THEN 0 ELSE Newlines(file) + 1

\* The contents up to a byte taken for EOF, and the line that it is on.
file_get_contents_line(file) ==
    LET i == char_pos(file, EofByte)
        text == IF i = -1 THEN file ELSE Cut(file, 0, i)
    IN  [text |-> text, line |-> Newlines(text) + 1]
===============================================================================
