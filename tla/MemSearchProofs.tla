---------------------------- MODULE MemSearchProofs ---------------------------
(* Theorems about MemSearch, for any regions, contents of memory, patterns and    *)
(* number of searches and writes.                                                *)
EXTENDS MemSearch, WalkLemmas

-------------------------------------------------------------------------------
(* What a search finds.                                                          *)

\* find_pattern returns the least offset at which the pattern is, or -1.
LEMMA FindFacts ==
    ASSUME NEW buffer, NEW from, NEW size, NEW p
    PROVE  LET offset == find_pattern(buffer, from, size, p)
           IN  /\ offset = -1 =>
                    \A i \in 0 .. (size - 1) : ~ compare_pattern(buffer, from + i, p)
               /\ offset # -1 =>
                    /\ offset \in 0 .. (size - 1)
                    /\ compare_pattern(buffer, from + offset, p)
                    /\ \A i \in 0 .. (size - 1) :
                         compare_pattern(buffer, from + i, p) => offset <= i
<1> DEFINE hits == {i \in 0 .. (size - 1) : compare_pattern(buffer, from + i, p)}
<1>1. find_pattern(buffer, from, size, p) = IF hits = {} THEN -1 ELSE Min(hits)
  BY DEF find_pattern
<1>2. \A i \in hits : i # -1
  BY SMT
<1>3. ASSUME hits # {} PROVE Min(hits) \in hits /\ \A i \in hits : Min(hits) <= i
  <2>1. hits \subseteq Nat
    BY SMT
  <2>2. \E i \in hits : \A j \in hits : i <= j
    <3> HIDE DEF hits
    <3> QED  BY <1>3, <2>1, LeastNatural
  <2> HIDE DEF hits
  <2> QED  BY <2>2 DEF Min
<1>4. CASE hits = {}
  BY <1>1, <1>4
<1>5. CASE hits # {}
  <2>1. find_pattern(buffer, from, size, p) = Min(hits)
    BY <1>1, <1>5
  <2>2. Min(hits) \in hits /\ Min(hits) # -1 /\ \A i \in hits : Min(hits) <= i
    BY <1>2, <1>3, <1>5
  <2> QED  BY <2>1, <2>2
<1> QED  BY <1>4, <1>5

\* What Scan's function is from an offset on.
IsSearch(f, from, buffer, size, p) ==
    f = [total \in from .. (size + Len(p.mask)) |->
            LET offset == find_pattern(buffer, total, size - total, p)
            IN  IF total >= size \/ offset = -1 THEN <<>>
                ELSE <<total + offset>> \o f[total + offset + Len(p.mask)]]

\* A search goes on behind the match, within its function's domain.
LEMMA GoesOn ==
    ASSUME NEW size \in Nat, NEW len \in Nat \ {0}, NEW total \in 0 .. (size + len),
           NEW offset \in 0 .. (size - total - 1)
    PROVE  /\ total + offset + len \in (total + 1) .. (size + len)
           /\ total + offset \in total .. (size - 1)
           /\ total < size
           /\ total + offset + len = (total + offset) + len
BY SMT

\* There is such a function.
LEMMA SearchExists ==
    ASSUME NEW buffer, NEW size \in Nat, NEW p, Len(p.mask) \in Nat \ {0}
    PROVE  \E f : IsSearch(f, 0, buffer, size, p)
<1> DEFINE m == size + Len(p.mask)
           S == {n \in Nat : n <= m => \E f : IsSearch(f, m - n, buffer, size, p)}
           Body(f, total) ==
              LET offset == find_pattern(buffer, total, size - total, p)
              IN  IF total >= size \/ offset = -1 THEN <<>>
                  ELSE <<total + offset>> \o f[total + offset + Len(p.mask)]
<1>m. m \in Nat
  BY SMT
<1>1. 0 \in S
  <2> DEFINE f == [total \in (m - 0) .. m |-> <<>>]
  <2>1. \A total \in (m - 0) .. m : total >= size
    BY SMT
  <2>2. IsSearch(f, m - 0, buffer, size, p)
    BY <2>1 DEF IsSearch
  <2> QED  BY <2>2
<1>2. ASSUME NEW n \in 0 .. (m - 1), n \in S PROVE n + 1 \in S
  <2>1. PICK f : IsSearch(f, m - n, buffer, size, p)
    BY <1>2, <1>m, SMT
  <2> DEFINE t == m - (n + 1)
             e == Body(f, t)
             g == [total \in t .. m |-> IF total = t THEN e ELSE f[total]]
  <2>2. t \in 0 .. m /\ \A total \in t .. m : total # t => total \in (m - n) .. m
    BY <1>m, SMT
  <2>3. \A total \in (m - n) .. m : f[total] = Body(f, total)
    BY <2>1 DEF IsSearch
  <2>4. ASSUME NEW total \in t .. m PROVE Body(g, total) = Body(f, total)
    <3> DEFINE offset == find_pattern(buffer, total, size - total, p)
    <3>1. CASE total >= size \/ offset = -1
      BY <3>1
    <3>2. CASE ~ (total >= size \/ offset = -1)
      <4>1. offset \in 0 .. (size - total - 1) /\ total \in 0 .. (size + Len(p.mask))
        <5>1. offset \in 0 .. ((size - total) - 1)
          BY <3>2, FindFacts
        <5>2. total \in 0 .. (size + Len(p.mask)) /\ (size - total) - 1 = size - total - 1
          BY <2>2, <1>m, SMT
        <5> QED  BY <5>1, <5>2
      <4> HIDE DEF offset
      <4>2. total + offset + Len(p.mask) \in (total + 1) .. (size + Len(p.mask))
        BY <4>1, GoesOn
      <4>3. total + offset + Len(p.mask) \in t .. m /\ total + offset + Len(p.mask) # t
        <5>1. t \in Int /\ m \in Int
          BY <2>2, <1>m, SMT
        <5> HIDE DEF t
        <5>2. \A x \in (total + 1) .. m : x \in t .. m /\ x # t
          BY <5>1, SMT
        <5> QED  BY <4>2, <5>2
      <4>4. g[total + offset + Len(p.mask)] = f[total + offset + Len(p.mask)]
        BY <4>3
      <4> QED  BY <4>4 DEF offset
    <3> QED  BY <3>1, <3>2
  <2>5. \A total \in t .. m : g[total] = Body(g, total)
    <3>1. ASSUME NEW total \in t .. m PROVE g[total] = Body(f, total)
      <4>1. g[total] = IF total = t THEN e ELSE f[total]
        OBVIOUS
      <4> HIDE DEF g
      <4> QED  BY <2>2, <2>3, <4>1
    <3> HIDE DEF g, Body
    <3> QED  BY <2>4, <3>1
  <2>6. IsSearch(g, t, buffer, size, p)
    <3>1. g = [total \in t .. m |-> g[total]]
      OBVIOUS
    <3> HIDE DEF g
    <3> QED  BY <2>5, <3>1 DEF IsSearch
  <2>7. n + 1 \in Nat
    BY SMT
  <2> QED  BY <2>6, <2>7
<1>3. 0 .. m \subseteq S
  <2> HIDE DEF S, m
  <2> QED  BY <1>1, <1>2, <1>m, UpTo
<1>4. m \in S /\ m <= m /\ m - m = 0
  BY <1>3, <1>m, SMT
<1> HIDE DEF m
<1> QED  BY <1>4

\* s is what a search from left to right finds from an offset on: the pattern is at
\* each place, no two of them overlap, and every other place where it is lies under one.
FindsAll(s, from, buffer, size, p) ==
    /\ s \in Seq(from .. (size - 1))
    /\ \A k \in 1 .. Len(s) : compare_pattern(buffer, s[k], p)
    /\ \A k, l \in 1 .. Len(s) : k < l => s[k] + Len(p.mask) <= s[l]
    /\ \A o \in from .. (size - 1) :
         compare_pattern(buffer, o, p) =>
             \E k \in 1 .. Len(s) : s[k] <= o /\ o < s[k] + Len(p.mask)

\* One sequence after another one of a single element.
LEMMA ConsFacts ==
    ASSUME NEW S, NEW h \in S, NEW s \in Seq(S)
    PROVE  /\ <<h>> \o s \in Seq(S)
           /\ Len(<<h>> \o s) = Len(s) + 1
           /\ Len(s) \in Nat
           /\ (<<h>> \o s)[1] = h
           /\ \A k \in 1 .. Len(s) : (<<h>> \o s)[k + 1] = s[k]
<1>1. <<h>> \in Seq(S) /\ Len(<<h>>) = 1 /\ Len(s) \in Nat /\ <<h>>[1] = h
  BY LenProperties
<1>2. /\ <<h>> \o s \in Seq(S)
      /\ Len(<<h>> \o s) = Len(<<h>>) + Len(s)
      /\ \A i \in 1 .. Len(<<h>>) + Len(s) : (<<h>> \o s)[i] =
           IF i <= Len(<<h>>) THEN <<h>>[i] ELSE s[i - Len(<<h>>)]
  BY <1>1, ConcatProperties
<1> DEFINE c == <<h>> \o s
           n == Len(s)
<1>3. /\ 1 \in 1 .. 1 + n /\ 1 + n = n + 1
      /\ \A k \in 1 .. n : k + 1 \in 1 .. 1 + n /\ ~ (k + 1 <= 1) /\ (k + 1) - 1 = k
  BY <1>1, SMT
<1>4. /\ Len(c) = 1 + n
      /\ \A i \in 1 .. 1 + n : c[i] = IF i <= 1 THEN h ELSE s[i - 1]
  <2>1. \A i \in 1 .. 1 + n : i <= 1 => i = 1
    BY SMT
  <2> QED  BY <1>1, <1>2, <2>1
<1> HIDE DEF c, n
<1>5. c[1] = h /\ \A k \in 1 .. n : c[k + 1] = s[k]
  BY <1>3, <1>4
<1> QED  BY <1>1, <1>2, <1>3, <1>4, <1>5 DEF c, n

\* What is found behind a match, and the match before it.
LEMMA FindsAllCons ==
    ASSUME NEW buffer, NEW size \in Nat, NEW p, Len(p.mask) \in Nat \ {0},
           NEW total \in Nat, NEW h \in total .. (size - 1), compare_pattern(buffer, h, p),
           \A o \in total .. (size - 1) : compare_pattern(buffer, o, p) => h <= o,
           NEW s, FindsAll(s, h + Len(p.mask), buffer, size, p)
    PROVE  FindsAll(<<h>> \o s, total, buffer, size, p)
<1> DEFINE len == Len(p.mask)
           R == (h + len) .. (size - 1)
           S == total .. (size - 1)
           c == <<h>> \o s
<1>1. /\ s \in Seq(R)
      /\ \A k \in 1 .. Len(s) : compare_pattern(buffer, s[k], p)
      /\ \A k, l \in 1 .. Len(s) : k < l => s[k] + len <= s[l]
      /\ \A o \in R : compare_pattern(buffer, o, p) =>
             \E k \in 1 .. Len(s) : s[k] <= o /\ o < s[k] + len
  BY DEF FindsAll
<1>2. R \subseteq S /\ h \in S /\ len \in Nat \ {0} /\ h \in Int
  BY SMT
<1> HIDE DEF len, R, S
<1>3. s \in Seq(S)
  BY <1>1, <1>2, SeqMonotonic
<1>4. /\ c \in Seq(S) /\ Len(c) = Len(s) + 1 /\ Len(s) \in Nat
      /\ c[1] = h
      /\ \A k \in 1 .. Len(s) : c[k + 1] = s[k]
  BY <1>2, <1>3, ConsFacts
<1>5. \A k \in 1 .. Len(s) : s[k] \in R
  BY <1>1, ElementOfSeq
<1> HIDE DEF c
<1>6. \A k \in 1 .. Len(c) : k = 1 \/ (k - 1 \in 1 .. Len(s) /\ c[k] = s[k - 1])
  <2>1. \A k \in 1 .. Len(c) : k = 1 \/ (k - 1 \in 1 .. Len(s) /\ (k - 1) + 1 = k)
    BY <1>4, SMT
  <2> QED  BY <1>4, <2>1
<1>7. \A k \in 1 .. Len(c) : compare_pattern(buffer, c[k], p)
  BY <1>1, <1>4, <1>6
<1>8. \A k, l \in 1 .. Len(c) : k < l => c[k] + len <= c[l]
  <2> SUFFICES ASSUME NEW k \in 1 .. Len(c), NEW l \in 1 .. Len(c), k < l
               PROVE  c[k] + len <= c[l]
    OBVIOUS
  <2>1. l # 1 /\ (k # 1 => k - 1 < l - 1)
    BY <1>4, SMT
  <2>2. l - 1 \in 1 .. Len(s) /\ c[l] = s[l - 1]
    BY <1>6, <2>1
  <2>3. CASE k = 1
    <3>1. s[l - 1] \in R
      BY <1>5, <2>2
    <3>2. h + len <= s[l - 1]
      BY <1>2, <3>1, SMT DEF R
    <3> QED  BY <1>4, <2>2, <2>3, <3>2
  <2>4. CASE k # 1
    BY <1>1, <1>6, <2>1, <2>2, <2>4
  <2> QED  BY <2>3, <2>4
<1>9. \A o \in S : compare_pattern(buffer, o, p) =>
          \E k \in 1 .. Len(c) : c[k] <= o /\ o < c[k] + len
  <2> SUFFICES ASSUME NEW o \in S, compare_pattern(buffer, o, p)
               PROVE  \E k \in 1 .. Len(c) : c[k] <= o /\ o < c[k] + len
    OBVIOUS
  <2>1. h <= o
    BY DEF S
  <2>2. CASE o < h + len
    <3>1. 1 \in 1 .. Len(c)
      BY <1>4, SMT
    <3> QED  BY <1>4, <2>1, <2>2, <3>1
  <2>3. CASE ~ (o < h + len)
    <3>1. o \in R
      BY <1>2, <2>3, SMT DEF R, S
    <3>2. PICK k \in 1 .. Len(s) : s[k] <= o /\ o < s[k] + len
      BY <1>1, <3>1
    <3>3. k + 1 \in 1 .. Len(c)
      BY <1>4, SMT
    <3> QED  BY <1>4, <3>2, <3>3
  <2> QED  BY <2>2, <2>3
<1> QED  BY <1>4, <1>7, <1>8, <1>9 DEF FindsAll, len, S, c

\* Where nothing is left to find, nothing is found.
LEMMA FindsAllNone ==
    ASSUME NEW buffer, NEW size, NEW p, NEW total,
           \A o \in total .. (size - 1) : ~ compare_pattern(buffer, o, p)
    PROVE  FindsAll(<<>>, total, buffer, size, p)
<1>1. <<>> \in Seq(total .. (size - 1)) /\ Len(<<>>) = 0
  BY EmptySeq
<1>2. 1 .. 0 = {}
  BY SMT
<1> QED  BY <1>1, <1>2 DEF FindsAll

\* memproc_search finds in a buffer what a search from left to right has to find.
LEMMA ScanFacts ==
    ASSUME NEW buffer, NEW size \in Nat, NEW p, Len(p.mask) \in Nat \ {0}
    PROVE  FindsAll(Scan(buffer, size, p), 0, buffer, size, p)
<1> DEFINE m == size + Len(p.mask)
<1>m. m \in Nat
  BY SMT
<1>1. PICK f : IsSearch(f, 0, buffer, size, p) /\ Scan(buffer, size, p) = f[0]
  <2> DEFINE g == CHOOSE f : IsSearch(f, 0, buffer, size, p)
  <2>1. IsSearch(g, 0, buffer, size, p)
    BY SearchExists
  <2>2. Scan(buffer, size, p) = g[0]
    BY DEF Scan, IsSearch
  <2> QED  BY <2>1, <2>2
<1>2. \A total \in 0 .. m : f[total] =
          LET offset == find_pattern(buffer, total, size - total, p)
          IN  IF total >= size \/ offset = -1 THEN <<>>
              ELSE <<total + offset>> \o f[total + offset + Len(p.mask)]
  BY <1>1 DEF IsSearch
<1> DEFINE S == {n \in Nat : n <= m =>
                    \A total \in (m - n) .. m : FindsAll(f[total], total, buffer, size, p)}
<1>3. ASSUME NEW total \in 0 .. m,
             \A t \in (total + 1) .. m : FindsAll(f[t], t, buffer, size, p)
      PROVE  FindsAll(f[total], total, buffer, size, p)
  <2> DEFINE offset == find_pattern(buffer, total, size - total, p)
  <2>0. /\ total \in Nat /\ total \in 0 .. (size + Len(p.mask))
        /\ (size - total) - 1 = size - total - 1
        /\ \A o \in total .. (size - 1) :
             o - total \in 0 .. (size - total - 1) /\ total + (o - total) = o
    BY <1>m, SMT
  <2>1. CASE total >= size
    <3>1. f[total] = <<>> /\ total .. (size - 1) = {}
      <4>1. total .. (size - 1) = {}
        BY <2>0, <2>1, SMT
      <4> QED  BY <1>2, <2>1, <4>1
    <3> QED  BY <3>1, FindsAllNone
  <2>2. CASE offset = -1
    <3>1. f[total] = <<>>
      BY <1>2, <2>2
    <3>2. \A i \in 0 .. (size - total - 1) : ~ compare_pattern(buffer, total + i, p)
      BY <2>0, <2>2, FindFacts
    <3>3. \A o \in total .. (size - 1) : ~ compare_pattern(buffer, o, p)
      <4> SUFFICES ASSUME NEW o \in total .. (size - 1)
                   PROVE  ~ compare_pattern(buffer, o, p)
        OBVIOUS
      <4>1. ~ compare_pattern(buffer, total + (o - total), p)
        BY <2>0, <3>2
      <4> QED  BY <2>0, <4>1
    <3> QED  BY <3>1, <3>3, FindsAllNone
  <2>3. CASE ~ (total >= size) /\ offset # -1
    <3> DEFINE h == total + offset
    <3>1. f[total] = <<h>> \o f[h + Len(p.mask)]
      BY <1>2, <2>3
    <3>2. /\ offset \in 0 .. (size - total - 1)
          /\ compare_pattern(buffer, h, p)
          /\ \A i \in 0 .. (size - total - 1) :
               compare_pattern(buffer, total + i, p) => offset <= i
      BY <2>0, <2>3, FindFacts
    <3> HIDE DEF offset
    <3>3. h \in total .. (size - 1) /\ h + Len(p.mask) \in (total + 1) .. m
      BY <2>0, <3>2, GoesOn
    <3>4. \A o \in total .. (size - 1) : compare_pattern(buffer, o, p) => h <= o
      <4> SUFFICES ASSUME NEW o \in total .. (size - 1), compare_pattern(buffer, o, p)
                   PROVE  h <= o
        OBVIOUS
      <4>1. offset <= o - total
        BY <2>0, <3>2
      <4> QED  BY <2>0, <3>2, <4>1, SMT
    <3>5. FindsAll(f[h + Len(p.mask)], h + Len(p.mask), buffer, size, p)
      BY <1>3, <3>3
    <3> HIDE DEF h
    <3>6. compare_pattern(buffer, h, p)
      BY <3>2 DEF h
    <3>7. FindsAll(<<h>> \o f[h + Len(p.mask)], total, buffer, size, p)
      BY <2>0, <3>3, <3>4, <3>5, <3>6, FindsAllCons
    <3> QED  BY <3>1, <3>7
  <2> QED  BY <2>1, <2>2, <2>3
<1>4. 0 \in S
  <2>1. m - 0 = m /\ \A total \in m .. m : total \in 0 .. m /\ (total + 1) .. m = {}
    BY <1>m, SMT
  <2> HIDE DEF m
  <2> QED  BY <1>3, <2>1
<1>5. ASSUME NEW n \in 0 .. (m - 1), n \in S PROVE n + 1 \in S
  <2>1. /\ n <= m /\ n + 1 \in Nat /\ m - (n + 1) \in 0 .. m
        /\ \A total \in (m - (n + 1)) .. m :
             total \in 0 .. m /\ (total + 1) .. m \subseteq (m - n) .. m
    BY <1>m, SMT
  <2> HIDE DEF m
  <2>2. \A total \in (m - n) .. m : FindsAll(f[total], total, buffer, size, p)
    BY <1>5, <2>1
  <2> QED  BY <1>3, <2>1, <2>2
<1>6. 0 .. m \subseteq S
  <2> HIDE DEF S, m
  <2> QED  BY <1>m, <1>4, <1>5, UpTo
<1>7. m \in S /\ m <= m /\ 0 \in (m - m) .. m
  <2>1. m \in 0 .. m /\ m <= m /\ 0 \in (m - m) .. m
    <3> HIDE DEF m
    <3> QED  BY <1>m, SMT
  <2> QED  BY <1>6, <2>1
<1> HIDE DEF m
<1>8. FindsAll(f[0], 0, buffer, size, p)
  BY <1>7
<1> QED  BY <1>1, <1>8

-------------------------------------------------------------------------------
(* The blocks of the matches.                                                    *)

\* f[i] is the first i parts, all of D, one after the other.
IsJoin(f, parts, m, D) ==
    /\ \A i \in 1 .. m : parts[i] \in Seq(D)
    /\ \A i \in 0 .. m : f[i] = IF i = 0 THEN <<>> ELSE f[i - 1] \o parts[i]

\* r consists of what is in the parts.
Consists(r, parts, m, D) ==
    /\ r \in Seq(D)
    /\ \A j \in 1 .. Len(r) : \E i \in 1 .. m : \E k \in 1 .. Len(parts[i]) :
         r[j] = parts[i][k]
    /\ \A i \in 1 .. m : \A k \in 1 .. Len(parts[i]) : \E j \in 1 .. Len(r) :
         r[j] = parts[i][k]

\* Sequences can be joined, and what is joined is what was in them.
LEMMA JoinFacts ==
    ASSUME NEW D, NEW m \in Nat, NEW parts, NEW f, IsJoin(f, parts, m, D)
    PROVE  Consists(f[m], parts, m, D)
<1> DEFINE Joined(n) == Consists(f[n], parts, n, D)
           S == {n \in Nat : n <= m => Joined(n)}
<1>1. 0 \in S
  <2>1. f[0] = <<>>
    BY SMT DEF IsJoin
  <2>2. <<>> \in Seq(D) /\ Len(<<>>) = 0 /\ 1 .. 0 = {}
    BY EmptySeq, SMT
  <2> QED  BY <2>1, <2>2 DEF Consists
<1>2. ASSUME NEW n \in 0 .. (m - 1), n \in S PROVE n + 1 \in S
  <2>1. /\ n + 1 \in Nat /\ n + 1 \in 1 .. m /\ n + 1 \in 0 .. m /\ n + 1 # 0 /\ (n + 1) - 1 = n
        /\ n <= m /\ \A i \in 1 .. (n + 1) : i # n + 1 => i \in 1 .. n
        /\ \A i \in 1 .. n : i \in 1 .. (n + 1)
        /\ n + 1 \in 1 .. (n + 1)
    BY SMT
  <2>2. Joined(n)
    <3> HIDE DEF Joined
    <3> QED  BY <1>2, <2>1
  <2> DEFINE a == f[n]
             b == parts[n + 1]
             c == f[n + 1]
  <2>3. c = a \o b
    BY <2>1 DEF IsJoin
  <2>4. a \in Seq(D) /\ b \in Seq(D)
    BY <2>1, <2>2 DEF Consists, IsJoin
  <2> HIDE DEF c, a, b
  <2>5. /\ c \in Seq(D)
        /\ Len(c) = Len(a) + Len(b)
        /\ \A i \in 1 .. Len(a) + Len(b) : c[i] = IF i <= Len(a) THEN a[i] ELSE b[i - Len(a)]
        /\ Len(a) \in Nat /\ Len(b) \in Nat
    BY <2>3, <2>4, ConcatProperties, LenProperties
  <2>6. /\ \A j \in 1 .. Len(a) : j \in 1 .. Len(c) /\ j <= Len(a)
        /\ \A j \in 1 .. Len(b) : /\ Len(a) + j \in 1 .. Len(c) /\ ~ (Len(a) + j <= Len(a))
                                  /\ (Len(a) + j) - Len(a) = j
        /\ \A j \in 1 .. Len(c) : IF j <= Len(a) THEN j \in 1 .. Len(a)
                                                 ELSE j - Len(a) \in 1 .. Len(b)
    BY <2>5, SMT
  <2>7. /\ \A j \in 1 .. Len(a) : c[j] = a[j]
        /\ \A j \in 1 .. Len(b) : c[Len(a) + j] = b[j]
    BY <2>5, <2>6
  <2>8. ASSUME NEW j \in 1 .. Len(c)
        PROVE  \E i \in 1 .. (n + 1) : \E k \in 1 .. Len(parts[i]) : c[j] = parts[i][k]
    <3>1. CASE j <= Len(a)
      <4>1. j \in 1 .. Len(a) /\ c[j] = a[j]
        BY <2>6, <2>7, <3>1
      <4>2. PICK i \in 1 .. n : \E k \in 1 .. Len(parts[i]) : a[j] = parts[i][k]
        BY <2>2, <4>1 DEF a, Consists
      <4> QED  BY <2>1, <4>1, <4>2
    <3>2. CASE ~ (j <= Len(a))
      <4>1. j - Len(a) \in 1 .. Len(b) /\ c[j] = b[j - Len(a)]
        BY <2>5, <2>6, <3>2
      <4> QED  BY <2>1, <4>1 DEF b
    <3> QED  BY <3>1, <3>2
  <2>9. ASSUME NEW i \in 1 .. (n + 1), NEW k \in 1 .. Len(parts[i])
        PROVE  \E j \in 1 .. Len(c) : c[j] = parts[i][k]
    <3>1. CASE i = n + 1
      <4>1. k \in 1 .. Len(b) /\ b[k] = parts[i][k]
        BY <3>1 DEF b
      <4> QED  BY <2>6, <2>7, <4>1
    <3>2. CASE i # n + 1
      <4>1. PICK j \in 1 .. Len(a) : a[j] = parts[i][k]
        BY <2>1, <2>2, <3>2 DEF a, Consists
      <4> QED  BY <2>6, <2>7, <4>1
    <3> QED  BY <3>1, <3>2
  <2>10. Joined(n + 1)
    BY <2>5, <2>8, <2>9 DEF c, Consists
  <2> HIDE DEF Joined
  <2> QED  BY <2>1, <2>10
<1>3. 0 .. m \subseteq S
  <2> HIDE DEF S
  <2> QED  BY <1>1, <1>2, UpTo
<1>4. m \in S /\ m <= m
  BY <1>3, SMT
<1>5. Joined(m)
  <2> HIDE DEF Joined
  <2> QED  BY <1>4
<1> QED  BY <1>5

\* A block, and the blocks of one chunk.
Block(c, behind, len, o) ==
    [data |-> SubSeq(c.buffer \o behind, o + 1, o + len), addr |-> c.addr + o, read |-> c.read]
BlocksIn(c, behind, len) ==
    [k \in 1 .. Len(c.matches) |-> Block(c, behind, len, Reversed(c.matches)[k])]

Blockable(D, chunks, behind, len) ==
    /\ Len(chunks) \in Nat
    /\ \A i \in 1 .. Len(chunks) :
         /\ Len(chunks[i].matches) \in Nat
         /\ \A k \in 1 .. Len(chunks[i].matches) :
              Block(chunks[i], behind[i], len, chunks[i].matches[k]) \in D

MadeOf(D, found, chunks, behind, len) ==
    /\ found \in Seq(D)
    /\ \A j \in 1 .. Len(found) :
         \E i \in 1 .. Len(chunks) : \E k \in 1 .. Len(chunks[i].matches) :
           found[j] = Block(chunks[i], behind[i], len, chunks[i].matches[k])
    /\ \A i \in 1 .. Len(chunks) : \A k \in 1 .. Len(chunks[i].matches) :
         \E j \in 1 .. Len(found) :
           found[j] = Block(chunks[i], behind[i], len, chunks[i].matches[k])

\* memproc_get_res makes a block of each match, and no other block.
LEMMA BlocksOfFacts ==
    ASSUME NEW D, NEW chunks, NEW behind, NEW len, Blockable(D, chunks, behind, len)
    PROVE  MadeOf(D, BlocksOf(chunks, behind, len), chunks, behind, len)
<1>0. /\ Len(chunks) \in Nat
      /\ \A i \in 1 .. Len(chunks) :
           /\ Len(chunks[i].matches) \in Nat
           /\ \A k \in 1 .. Len(chunks[i].matches) :
                Block(chunks[i], behind[i], len, chunks[i].matches[k]) \in D
  BY DEF Blockable
<1> USE <1>0
<1> DEFINE m == Len(chunks)
           parts == [i \in 1 .. m |-> BlocksIn(chunks[i], behind[i], len)]
<1>1. ASSUME NEW i \in 1 .. m
      PROVE  /\ parts[i] \in Seq(D)
             /\ Len(parts[i]) = Len(chunks[i].matches)
             /\ \A k \in 1 .. Len(parts[i]) : \E l \in 1 .. Len(chunks[i].matches) :
                  parts[i][k] = Block(chunks[i], behind[i], len, chunks[i].matches[l])
             /\ \A l \in 1 .. Len(chunks[i].matches) : \E k \in 1 .. Len(parts[i]) :
                  parts[i][k] = Block(chunks[i], behind[i], len, chunks[i].matches[l])
  <2> DEFINE n == Len(chunks[i].matches)
             B(l) == Block(chunks[i], behind[i], len, chunks[i].matches[l])
             p == parts[i]
  <2>1. n \in Nat /\ \A l \in 1 .. n : B(l) \in D
    OBVIOUS
  <2>2. \A k \in 1 .. n : n + 1 - k \in 1 .. n /\ n + 1 - (n + 1 - k) = k
    BY <2>1, SMT
  <2>3. p = [k \in 1 .. n |-> B(n + 1 - k)]
    BY DEF BlocksIn, Reversed
  <2> HIDE DEF n, B, p
  <2>4. p \in [1 .. n -> D]
    BY <2>1, <2>2, <2>3
  <2>5. p \in Seq(D)
    BY <2>1, <2>4, SeqDef
  <2>6. Len(p) = n
    BY <2>1, <2>4, <2>5, SMT
  <2>7. \A k \in 1 .. n : p[k] = B(n + 1 - k)
    BY <2>3
  <2>8. \A l \in 1 .. n : p[n + 1 - l] = B(l)
    BY <2>2, <2>7
  <2> QED  BY <2>2, <2>5, <2>6, <2>7, <2>8 DEF n, B, p
<1> DEFINE step == [i \in 1 .. m |-> [s \in Seq(D) |-> s \o parts[i]]]
<1>2. PICK f \in [0 .. m -> Seq(D)] : IsIteration(f, m, <<>>, step)
  <2>1. step \in [1 .. m -> [Seq(D) -> Seq(D)]]
    <3> HIDE DEF parts
    <3>1. \A i \in 1 .. m, s \in Seq(D) : s \o parts[i] \in Seq(D)
      BY <1>1, ConcatProperties
    <3> QED  BY <3>1
  <2>2. <<>> \in Seq(D)
    BY EmptySeq
  <2> HIDE DEF step, m
  <2>3. m \in Nat
    BY DEF m
  <2> QED  BY <2>1, <2>2, <2>3, IterationExists
<1> DEFINE IsUpTo(g) == g = [i \in 0 .. Len(chunks) |->
              IF i = 0 THEN <<>> ELSE g[i - 1] \o BlocksIn(chunks[i], behind[i], len)]
<1>3. IsUpTo(f)
  <2>1. ASSUME NEW i \in 0 .. m
        PROVE  f[i] = IF i = 0 THEN <<>> ELSE f[i - 1] \o BlocksIn(chunks[i], behind[i], len)
    <3>1. CASE i = 0
      BY <1>2, <3>1 DEF IsIteration
    <3>2. CASE i # 0
      <4>1. i \in 1 .. m /\ i - 1 \in 0 .. m
        BY <3>2, SMT
      <4>2. f[i] = step[i][f[i - 1]]
        BY <1>2, <3>2 DEF IsIteration
      <4>3. f[i - 1] \in Seq(D)
        BY <1>2, <4>1
      <4>4. step[i][f[i - 1]] = f[i - 1] \o parts[i]
        <5> HIDE DEF parts
        <5> QED  BY <4>1, <4>3
      <4> QED  BY <3>2, <4>1, <4>2, <4>4
    <3> QED  BY <3>1, <3>2
  <2>2. f = [i \in 0 .. m |-> f[i]]
    BY <1>2
  <2> QED  BY <2>1, <2>2
<1>4. PICK g : IsUpTo(g) /\ BlocksOf(chunks, behind, len) = g[m]
  <2> DEFINE g == CHOOSE g : IsUpTo(g)
  <2>1. IsUpTo(g)
    <3> HIDE DEF IsUpTo
    <3> QED  BY <1>3
  <2>2. BlocksOf(chunks, behind, len) = g[m]
    BY DEF BlocksOf, BlocksIn, Block
  <2> QED  BY <2>1, <2>2
<1>5. IsJoin(g, parts, m, D)
  <2>1. \A i \in 0 .. m : i # 0 => i \in 1 .. m
    BY SMT
  <2>2. \A i \in 0 .. m : g[i] = IF i = 0 THEN <<>> ELSE g[i - 1] \o parts[i]
    BY <1>4, <2>1
  <2>3. \A i \in 1 .. m : parts[i] \in Seq(D)
    BY <1>1
  <2> QED  BY <2>2, <2>3 DEF IsJoin
<1> HIDE DEF parts
<1>6. /\ g[m] \in Seq(D)
      /\ \A j \in 1 .. Len(g[m]) : \E i \in 1 .. m : \E k \in 1 .. Len(parts[i]) :
           g[m][j] = parts[i][k]
      /\ \A i \in 1 .. m : \A k \in 1 .. Len(parts[i]) : \E j \in 1 .. Len(g[m]) :
           g[m][j] = parts[i][k]
  <2>1. m \in Nat
    OBVIOUS
  <2> HIDE DEF m, IsUpTo
  <2>2. Consists(g[m], parts, m, D)
    BY <1>5, <2>1, JoinFacts
  <2> QED  BY <2>2 DEF Consists
<1> DEFINE found == BlocksOf(chunks, behind, len)
<1>7. found = g[m]
  BY <1>4
<1> HIDE DEF found, IsUpTo, step
<1>8. ASSUME NEW j \in 1 .. Len(found)
      PROVE  \E i \in 1 .. Len(chunks) : \E k \in 1 .. Len(chunks[i].matches) :
               found[j] = Block(chunks[i], behind[i], len, chunks[i].matches[k])
  <2>1. \E i \in 1 .. m : \E k \in 1 .. Len(parts[i]) : found[j] = parts[i][k]
    BY <1>6, <1>7
  <2>2. PICK i \in 1 .. m : \E k \in 1 .. Len(parts[i]) : found[j] = parts[i][k]
    BY <2>1
  <2>3. PICK k \in 1 .. Len(parts[i]) : found[j] = parts[i][k]
    BY <2>2
  <2>4. \E l \in 1 .. Len(chunks[i].matches) :
           parts[i][k] = Block(chunks[i], behind[i], len, chunks[i].matches[l])
    BY <1>1
  <2> QED  BY <2>3, <2>4
<1>9. \A i \in 1 .. Len(chunks) : \A k \in 1 .. Len(chunks[i].matches) :
           \E j \in 1 .. Len(found) :
             found[j] = Block(chunks[i], behind[i], len, chunks[i].matches[k])
  <2> TAKE i \in 1 .. Len(chunks)
  <2> TAKE l \in 1 .. Len(chunks[i].matches)
  <2>1. PICK k \in 1 .. Len(parts[i]) :
           parts[i][k] = Block(chunks[i], behind[i], len, chunks[i].matches[l])
    BY <1>1
  <2> QED  BY <1>6, <1>7, <2>1
<1>10. found \in Seq(D)
  BY <1>6, <1>7
<1>11. MadeOf(D, found, chunks, behind, len)
  BY <1>8, <1>9, <1>10 DEF MadeOf
<1> QED  BY <1>11 DEF found

-------------------------------------------------------------------------------
(* What each step preserves.                                                     *)

BlockData == [data : Seq(Byte), addr : Nat, read : BOOLEAN]

\* A chunk is the copy of a region.
ChunksTyped ==
    memchunks # NULL =>
        \A i \in 1 .. Len(memchunks) : \E r \in 1 .. Len(Region) :
            /\ memchunks[i].addr = Region[r].addr
            /\ Len(memchunks[i].buffer) = Region[r].size

ListsTyped ==
    /\ blocks \in Seq(BlockData)
    /\ asked \in Seq(Pattern) /\ of \in Seq(Pattern)
    /\ crash = "none" => Len(asked) <= MaxSearches

\* A dump has come as far as its chunks, and nothing is asked of it before it ends.
InCall ==
    /\ busy = "idle" => next = 1
    /\ busy = "dump" =>
        /\ memchunks # NULL /\ Len(memchunks) < next /\ next <= Len(Region) + 1
        /\ blocks = <<>> /\ asked = <<>> /\ answer = NULL
    /\ busy = "update" => next <= Len(blocks) + 1

\* The matches in the chunks are whole occurrences of what was searched, the last
\* time for a pattern as long as mask_len.
MatchesFit ==
    /\ asked # <<>> => mask_len = Len(asked[Len(asked)].mask)
    /\ memchunks # NULL =>
        \A i \in 1 .. Len(memchunks) : \A k \in 1 .. Len(memchunks[i].matches) :
            \E s \in 1 .. Len(asked) :
                memchunks[i].matches[k] + Len(asked[s].mask) <= Len(memchunks[i].buffer)

Typed == TypeOK /\ ChunksTyped /\ ListsTyped /\ InCall /\ MatchesFit

\* A chunk that could be read holds what the process's memory still holds, if the process
\* has not written since.
ChunksTell ==
    ~ changed /\ memchunks # NULL =>
        \A i \in 1 .. Len(memchunks) : memchunks[i].read =>
            \A k \in 1 .. Len(memchunks[i].buffer) :
                memchunks[i].buffer[k] = mem[memchunks[i].addr + k - 1]

LEMMA ChunkFacts ==
    ASSUME NEW c \in Chunk
    PROVE  /\ c.addr \in Nat /\ c.read \in BOOLEAN
           /\ c.buffer \in Seq(Byte) /\ Len(c.buffer) \in Nat
           /\ c.matches \in Seq(Nat) /\ Len(c.matches) \in Nat
           /\ \A k \in 1 .. Len(c.matches) : c.matches[k] \in Nat
<1>1. c.addr \in Nat /\ c.read \in BOOLEAN /\ c.buffer \in Seq(Byte) /\ c.matches \in Seq(Nat)
  BY DEF Chunk
<1> QED  BY <1>1, LenProperties, ElementOfSeq

LEMMA PatternFacts ==
    ASSUME NEW p \in Pattern
    PROVE  /\ Len(p.mask) \in Nat \ {0}
           /\ p.mask \in Seq({"x", "?"}) /\ p.bytes \in Seq(Byte)
           /\ \A b \in Behind : b \in Seq(Byte) /\ Len(b) \in Nat /\ Len(p.mask) <= Len(b)
<1>1. /\ p.mask \in Seq({"x", "?"}) /\ p.mask # <<>> /\ p.bytes \in Seq(Byte)
      /\ \A b \in Behind : b \in Seq(Byte) /\ Len(b) >= Len(p.mask)
  BY MemoryAssumption
<1>2. Len(p.mask) \in Nat \ {0} /\ \A b \in Behind : Len(b) \in Nat
  BY <1>1, EmptySeq, LenProperties
<1> QED  BY <1>1, <1>2, SMT

LEMMA RegionFacts ==
    /\ Len(Region) \in Nat
    /\ \A r \in 1 .. Len(Region) :
         /\ Region[r].addr \in Nat /\ Region[r].size \in Nat
         /\ Region[r].addr .. (Region[r].addr + Region[r].size - 1) \subseteq Addresses
<1>1. Len(Region) \in Nat
  BY MemoryAssumption, LenProperties
<1>2. ASSUME NEW r \in 1 .. Len(Region)
      PROVE  Region[r] \in [addr : Nat, size : Nat \ {0}]
  BY MemoryAssumption, ElementOfSeq
<1> QED  BY <1>1, <1>2 DEF Addresses

\* What lies behind a buffer goes on where the buffer ends.
LEMMA BufferFacts ==
    ASSUME NEW s \in Seq(Byte), NEW b \in Seq(Byte)
    PROVE  /\ s \o b \in Seq(Byte)
           /\ Len(s \o b) = Len(s) + Len(b)
           /\ \A i \in 1 .. Len(s) : (s \o b)[i] = s[i]
           /\ \A i \in 1 .. (Len(s) + Len(b)) : (s \o b)[i] \in Byte
<1>1. /\ s \o b \in Seq(Byte)
      /\ Len(s \o b) = Len(s) + Len(b)
      /\ \A i \in 1 .. Len(s) + Len(b) : (s \o b)[i] = IF i <= Len(s) THEN s[i] ELSE b[i - Len(s)]
      /\ Len(s) \in Nat /\ Len(b) \in Nat
  BY ConcatProperties, LenProperties
<1>2. \A i \in 1 .. Len(s) : i \in 1 .. Len(s) + Len(b) /\ i <= Len(s)
  BY <1>1, SMT
<1>3. \A i \in 1 .. Len(s \o b) : (s \o b)[i] \in Byte
  BY <1>1, ElementOfSeq
<1> QED  BY <1>1, <1>2, <1>3

\* A sequence given place by place.
LEMMA IsSeq ==
    ASSUME NEW S, NEW n \in Nat, NEW f \in [1 .. n -> S]
    PROVE  f \in Seq(S) /\ Len(f) = n
<1>1. f \in Seq(S)
  BY SeqDef
<1>2. Len(f) = n
  BY <1>1, SMT
<1> QED  BY <1>1, <1>2

LEMMA ReadFacts ==
    ASSUME mem \in [Addresses -> Byte], NEW a \in Nat, NEW n \in Nat,
           a .. (a + n - 1) \subseteq Addresses
    PROVE  /\ Read(a, n) \in Seq(Byte)
           /\ Len(Read(a, n)) = n
           /\ \A k \in 1 .. n : Read(a, n)[k] = mem[a + k - 1]
<1>1. \A k \in 1 .. n : a + k - 1 \in a .. (a + n - 1)
  BY SMT
<1>2. Read(a, n) \in [1 .. n -> Byte]
  BY <1>1 DEF Read
<1> QED  BY <1>2, IsSeq DEF Read

\* The data of a block is inside its chunk if the match is whole.
LEMMA BlockFacts ==
    ASSUME NEW c \in Chunk, NEW b \in Seq(Byte), NEW len \in Nat \ {0}, len <= Len(b),
           NEW o \in 0 .. (Len(c.buffer) - 1)
    PROVE  /\ Block(c, b, len, o) \in BlockData
           /\ Len(Block(c, b, len, o).data) = len
           /\ Block(c, b, len, o).addr = c.addr + o
           /\ Block(c, b, len, o).read = c.read
           /\ o + len <= Len(c.buffer) =>
                /\ Block(c, b, len, o).data = SubSeq(c.buffer, o + 1, o + len)
                /\ \A k \in 1 .. len : Block(c, b, len, o).data[k] = c.buffer[o + k]
<1> DEFINE s == c.buffer \o b
           d == SubSeq(s, o + 1, o + len)
<1>1. /\ c.buffer \in Seq(Byte) /\ Len(c.buffer) \in Nat /\ Len(b) \in Nat /\ c.addr \in Nat
      /\ c.read \in BOOLEAN
  BY ChunkFacts, LenProperties
<1>2. /\ \A i \in 1 .. Len(c.buffer) : s[i] = c.buffer[i]
      /\ \A i \in 1 .. (Len(c.buffer) + Len(b)) : s[i] \in Byte
  BY <1>1, BufferFacts
<1>3. /\ o + 1 \in Int /\ o + len \in Int /\ o + 1 <= o + len /\ o + len - (o + 1) + 1 = len
      /\ \A i \in (o + 1) .. (o + len) : i \in 1 .. (Len(c.buffer) + Len(b))
      /\ \A k \in 1 .. len : (o + 1) + k - 1 = o + k
      /\ o + len <= Len(c.buffer) => \A i \in (o + 1) .. (o + len) : i \in 1 .. Len(c.buffer)
      /\ \A k \in 1 .. len : o + k \in (o + 1) .. (o + len)
      /\ c.addr + o \in Nat
  BY <1>1, SMT
<1> HIDE DEF s
<1>4. d \in Seq(Byte) /\ Len(d) = len /\ \A k \in 1 .. len : d[k] = s[o + k]
  <2>1. \A i \in (o + 1) .. (o + len) : s[i] \in Byte
    BY <1>2, <1>3
  <2>2. /\ d \in Seq(Byte)
        /\ Len(d) = IF o + 1 <= o + len THEN o + len - (o + 1) + 1 ELSE 0
        /\ \A i \in 1 .. o + len - (o + 1) + 1 : d[i] = s[(o + 1) + i - 1]
    BY <1>3, <2>1, SubSeqProperties
  <2> QED  BY <1>3, <2>2
<1>5. ASSUME o + len <= Len(c.buffer)
      PROVE  d = SubSeq(c.buffer, o + 1, o + len) /\ \A k \in 1 .. len : d[k] = c.buffer[o + k]
  <2> DEFINE e == SubSeq(c.buffer, o + 1, o + len)
  <2>1. \A i \in (o + 1) .. (o + len) : c.buffer[i] \in Byte /\ s[i] = c.buffer[i]
    BY <1>1, <1>2, <1>3, <1>5, ElementOfSeq
  <2>2. /\ e \in Seq(Byte)
        /\ Len(e) = IF o + 1 <= o + len THEN o + len - (o + 1) + 1 ELSE 0
        /\ \A i \in 1 .. o + len - (o + 1) + 1 : e[i] = c.buffer[(o + 1) + i - 1]
    BY <1>3, <2>1, SubSeqProperties
  <2>3. Len(e) = len /\ \A k \in 1 .. len : e[k] = c.buffer[o + k] /\ d[k] = c.buffer[o + k]
    BY <1>3, <1>4, <2>1, <2>2
  <2> HIDE DEF e, d
  <2>4. d = e
    BY <1>4, <2>2, <2>3, SeqEqual
  <2> QED  BY <2>3, <2>4 DEF e
<1>6. Block(c, b, len, o) = [data |-> d, addr |-> c.addr + o, read |-> c.read]
  BY DEF Block, s
<1> HIDE DEF d
<1>7. /\ Block(c, b, len, o) \in BlockData
      /\ Block(c, b, len, o).data = d
      /\ Block(c, b, len, o).addr = c.addr + o
      /\ Block(c, b, len, o).read = c.read
  BY <1>1, <1>3, <1>4, <1>6 DEF BlockData
<1> HIDE DEF Block
<1> QED  BY <1>4, <1>5, <1>7

\* new has the chunks of old with other matches.
SameChunks(new, old) ==
    /\ new \in Seq(Chunk) /\ Len(new) = Len(old)
    /\ \A i \in 1 .. Len(old) :
         new[i].addr = old[i].addr /\ new[i].buffer = old[i].buffer /\ new[i].read = old[i].read

\* What a search finds in the chunks, none of it cut off by the end of one.
Searched(chunks, behind, p, found) ==
    \A i \in 1 .. Len(chunks) :
        /\ FindsAll(found[i], 0, chunks[i].buffer \o behind[i], Len(chunks[i].buffer), p)
        /\ \A k \in 1 .. Len(found[i]) : found[i][k] + Len(p.mask) <= Len(chunks[i].buffer)

LEMMA FoundFacts ==
    ASSUME NEW chunks \in Seq(Chunk), NEW p \in Pattern, NEW behind \in [DOMAIN chunks -> Behind]
    PROVE  /\ DOMAIN chunks = 1 .. Len(chunks) /\ Len(chunks) \in Nat
           /\ \A i \in 1 .. Len(chunks) : chunks[i] \in Chunk /\ behind[i] \in Behind
           /\ \A i \in 1 .. Len(chunks) :
                FindsAll(FoundIn(chunks, behind, p)[i], 0, chunks[i].buffer \o behind[i],
                         Len(chunks[i].buffer), p)
<1>1. DOMAIN chunks = 1 .. Len(chunks) /\ Len(chunks) \in Nat
  BY LenProperties
<1>2. \A i \in 1 .. Len(chunks) : chunks[i] \in Chunk /\ behind[i] \in Behind
  BY <1>1, ElementOfSeq
<1>3. ASSUME NEW i \in 1 .. Len(chunks)
      PROVE  FindsAll(FoundIn(chunks, behind, p)[i], 0, chunks[i].buffer \o behind[i],
                      Len(chunks[i].buffer), p)
  <2>1. FoundIn(chunks, behind, p)[i]
          = Scan(chunks[i].buffer \o behind[i], Len(chunks[i].buffer), p)
    BY <1>1 DEF FoundIn
  <2>2. Len(chunks[i].buffer) \in Nat /\ Len(p.mask) \in Nat \ {0}
    BY <1>2, ChunkFacts, PatternFacts
  <2> QED  BY <2>1, <2>2, ScanFacts
<1> QED  BY <1>1, <1>2, <1>3

\* A search that overruns no chunk has found whole occurrences only: if one were cut
\* off, so would be the last one.
LEMMA SearchFits ==
    ASSUME NEW chunks \in Seq(Chunk), NEW p \in Pattern, NEW behind \in [DOMAIN chunks -> Behind],
           ~ \E i \in DOMAIN chunks :
               Overruns(chunks[i], FoundIn(chunks, behind, p)[i], p)
    PROVE  Searched(chunks, behind, p, FoundIn(chunks, behind, p))
<1> DEFINE found == FoundIn(chunks, behind, p)
<1> SUFFICES ASSUME NEW i \in 1 .. Len(chunks), NEW k \in 1 .. Len(found[i])
             PROVE  found[i][k] + Len(p.mask) <= Len(chunks[i].buffer)
  BY FoundFacts DEF Searched
<1> DEFINE s == found[i]
           size == Len(chunks[i].buffer)
<1>1. i \in DOMAIN chunks /\ FindsAll(s, 0, chunks[i].buffer \o behind[i], size, p)
  BY FoundFacts
<1>2. /\ s \in Seq(0 .. (size - 1))
      /\ \A j, l \in 1 .. Len(s) : j < l => s[j] + Len(p.mask) <= s[l]
  BY <1>1 DEF FindsAll
<1>3. s # <<>> => s[Len(s)] + Len(p.mask) <= size
  <2>1. ~ Overruns(chunks[i], s, p)
    BY <1>1
  <2>2. s # <<>> => ~ (s[Len(s)] + Len(p.mask) > size)
    BY <2>1 DEF Overruns
  <2>3. s # <<>> => Len(s) \in 1 .. Len(s)
    BY <1>2, EmptySeq, SMT
  <2>4. size \in Nat /\ Len(p.mask) \in Nat
    BY FoundFacts, ChunkFacts, PatternFacts
  <2>5. s # <<>> => s[Len(s)] \in 0 .. (size - 1)
    BY <1>2, <2>3, ElementOfSeq
  <2> HIDE DEF s, size
  <2> QED  BY <2>2, <2>4, <2>5, SMT
<1>4. size \in Nat /\ Len(p.mask) \in Nat \ {0} /\ Len(s) \in Nat
  BY <1>2, FoundFacts, ChunkFacts, PatternFacts, LenProperties
<1>5. s # <<>> /\ Len(s) \in 1 .. Len(s)
  <2>1. Len(s) # 0 /\ Len(s) \in 1 .. Len(s)
    BY <1>4, SMT
  <2> QED  BY <2>1, EmptySeq
<1>6. s[k] \in Nat /\ s[Len(s)] \in Nat
  <2>1. s[k] \in 0 .. (size - 1) /\ s[Len(s)] \in 0 .. (size - 1)
    BY <1>2, <1>5, ElementOfSeq
  <2> QED  BY <2>1, SMT
<1>7. CASE k = Len(s)
  BY <1>3, <1>5, <1>7
<1>8. CASE k # Len(s)
  <2>1. k < Len(s)
    BY <1>4, <1>8, SMT
  <2>2. s[k] + Len(p.mask) <= s[Len(s)]
    BY <1>2, <1>5, <2>1
  <2>3. s[Len(s)] + Len(p.mask) <= size
    BY <1>3, <1>5
  <2> HIDE DEF s, size
  <2> QED  BY <1>4, <1>6, <2>2, <2>3, SMT DEF s, size
<1> QED  BY <1>7, <1>8

LEMMA WithMatchesFacts ==
    ASSUME NEW chunks \in Seq(Chunk), NEW found,
           \A i \in 1 .. Len(chunks) : found[i] \in Seq(Nat)
    PROVE  /\ SameChunks(WithMatches(chunks, found), chunks)
           /\ \A i \in 1 .. Len(chunks) :
                WithMatches(chunks, found)[i].matches = chunks[i].matches \o found[i]
<1>1. DOMAIN chunks = 1 .. Len(chunks) /\ Len(chunks) \in Nat
  BY LenProperties
<1> DEFINE w == WithMatches(chunks, found)
<1>2. ASSUME NEW i \in 1 .. Len(chunks)
      PROVE  /\ w[i] \in Chunk
             /\ w[i].addr = chunks[i].addr /\ w[i].buffer = chunks[i].buffer
             /\ w[i].read = chunks[i].read
             /\ w[i].matches = chunks[i].matches \o found[i]
  <2>1. w[i] = [chunks[i] EXCEPT !.matches = chunks[i].matches \o found[i]]
    BY <1>1 DEF WithMatches
  <2>2. chunks[i] \in Chunk
    BY ElementOfSeq
  <2>3. chunks[i].matches \o found[i] \in Seq(Nat)
    BY <2>2, ChunkFacts, ConcatProperties
  <2> HIDE DEF w
  <2> QED  BY <2>1, <2>2, <2>3 DEF Chunk
<1>3. w = [i \in 1 .. Len(chunks) |-> w[i]]
  BY <1>1 DEF WithMatches
<1> HIDE DEF w
<1>4. w \in [1 .. Len(chunks) -> Chunk]
  BY <1>2, <1>3
<1>5. w \in Seq(Chunk) /\ Len(w) = Len(chunks)
  BY <1>1, <1>4, IsSeq
<1> QED  BY <1>2, <1>5 DEF SameChunks, w

LEMMA EmptiedFacts ==
    ASSUME NEW chunks \in Seq(Chunk)
    PROVE  /\ SameChunks(Emptied(chunks), chunks)
           /\ \A i \in 1 .. Len(chunks) : Emptied(chunks)[i].matches = <<>>
<1>1. DOMAIN chunks = 1 .. Len(chunks) /\ Len(chunks) \in Nat
  BY LenProperties
<1> DEFINE w == Emptied(chunks)
<1>2. ASSUME NEW i \in 1 .. Len(chunks)
      PROVE  /\ w[i] \in Chunk
             /\ w[i].addr = chunks[i].addr /\ w[i].buffer = chunks[i].buffer
             /\ w[i].read = chunks[i].read
             /\ w[i].matches = <<>>
  <2>1. w[i] = [chunks[i] EXCEPT !.matches = <<>>]
    BY <1>1 DEF Emptied
  <2>2. chunks[i] \in Chunk
    BY ElementOfSeq
  <2>3. <<>> \in Seq(Nat)
    BY EmptySeq
  <2> HIDE DEF w
  <2> QED  BY <2>1, <2>2, <2>3 DEF Chunk
<1>3. w = [i \in 1 .. Len(chunks) |-> w[i]]
  BY <1>1 DEF Emptied
<1> HIDE DEF w
<1>4. w \in [1 .. Len(chunks) -> Chunk]
  BY <1>2, <1>3
<1>5. w \in Seq(Chunk) /\ Len(w) = Len(chunks)
  BY <1>1, <1>4, IsSeq
<1> QED  BY <1>2, <1>5 DEF SameChunks, w

\* What was found is put behind the matches that were there.
LEMMA MatchesAfter ==
    ASSUME NEW m \in Seq(Nat), NEW f \in Seq(Nat), NEW k \in 1 .. Len(m \o f)
    PROVE  \/ k \in 1 .. Len(m) /\ (m \o f)[k] = m[k]
           \/ \E j \in 1 .. Len(f) : (m \o f)[k] = f[j]
<1>1. /\ Len(m \o f) = Len(m) + Len(f) /\ Len(m) \in Nat /\ Len(f) \in Nat
      /\ \A i \in 1 .. Len(m) + Len(f) : (m \o f)[i] = IF i <= Len(m) THEN m[i] ELSE f[i - Len(m)]
  BY ConcatProperties, LenProperties
<1>2. IF k <= Len(m) THEN k \in 1 .. Len(m) ELSE k - Len(m) \in 1 .. Len(f)
  BY <1>1, SMT
<1> QED  BY <1>1, <1>2

\* What was found are offsets.
LEMMA SearchedFacts ==
    ASSUME NEW chunks \in Seq(Chunk), NEW behind, NEW p, NEW found,
           Searched(chunks, behind, p, found), NEW i \in 1 .. Len(chunks)
    PROVE  /\ found[i] \in Seq(Nat)
           /\ \A k \in 1 .. Len(found[i]) :
                /\ found[i][k] \in 0 .. (Len(chunks[i].buffer) - 1)
                /\ found[i][k] + Len(p.mask) <= Len(chunks[i].buffer)
<1> DEFINE S == 0 .. (Len(chunks[i].buffer) - 1)
<1>1. found[i] \in Seq(S)
  BY DEF Searched, FindsAll
<1>2. S \subseteq Nat
  BY SMT
<1>3. \A k \in 1 .. Len(found[i]) : found[i][k] \in S
  <2> HIDE DEF S
  <2> QED  BY <1>1, ElementOfSeq
<1>4. found[i] \in Seq(Nat)
  <2> HIDE DEF S
  <2> QED  BY <1>1, <1>2, SeqMonotonic
<1> QED  BY <1>3, <1>4 DEF Searched

\* memproc_get_res makes blocks of the matches.
LEMMA ResultFacts ==
    ASSUME Typed, Live, NEW behind \in [DOMAIN memchunks -> Behind]
    PROVE  LET found == BlocksOf(memchunks, behind, mask_len)
           IN  /\ found \in Seq(BlockData)
               /\ \A j \in 1 .. Len(found) :
                    \E i \in 1 .. Len(memchunks) : \E k \in 1 .. Len(memchunks[i].matches) :
                      found[j] = Block(memchunks[i], behind[i], mask_len, memchunks[i].matches[k])
<1>1. memchunks \in Seq(Chunk) /\ memchunks # NULL
  BY DEF Typed, TypeOK, Live
<1>2. DOMAIN memchunks = 1 .. Len(memchunks) /\ Len(memchunks) \in Nat
  BY <1>1, LenProperties
<1>3. ASSUME NEW i \in 1 .. Len(memchunks), NEW k \in 1 .. Len(memchunks[i].matches)
      PROVE  Block(memchunks[i], behind[i], mask_len, memchunks[i].matches[k]) \in BlockData
  <2>1. memchunks[i] \in Chunk /\ behind[i] \in Behind
    BY <1>1, <1>2, ElementOfSeq
  <2>2. memchunks[i].matches[k] \in 0 .. (Len(memchunks[i].buffer) - 1)
    BY <1>1 DEF Typed, TypeOK
  <2>3. PICK p \in Pattern : mask_len = Len(p.mask)
    <3>1. \E s \in 1 .. Len(asked) : TRUE
      BY <1>1 DEF Typed, MatchesFit
    <3>2. asked \in Seq(Pattern)
      BY DEF Typed, ListsTyped
    <3>3. asked # <<>> /\ Len(asked) \in 1 .. Len(asked)
      <4>1. Len(asked) \in Nat
        BY <3>2, LenProperties
      <4>2. Len(asked) # 0 /\ Len(asked) \in 1 .. Len(asked)
        BY <3>1, <4>1, SMT
      <4> QED  BY <4>2, EmptySeq
    <3>4. asked[Len(asked)] \in Pattern
      BY <3>2, <3>3, ElementOfSeq
    <3> QED  BY <3>3, <3>4 DEF Typed, MatchesFit
  <2>4. behind[i] \in Seq(Byte) /\ mask_len \in Nat \ {0} /\ mask_len <= Len(behind[i])
    BY <2>1, <2>3, PatternFacts
  <2> QED  BY <2>1, <2>2, <2>4, BlockFacts
<1>4. \A i \in 1 .. Len(memchunks) :
        /\ Len(memchunks[i].matches) \in Nat
        /\ \A k \in 1 .. Len(memchunks[i].matches) :
             Block(memchunks[i], behind[i], mask_len, memchunks[i].matches[k]) \in BlockData
  <2>1. \A i \in 1 .. Len(memchunks) : Len(memchunks[i].matches) \in Nat
    BY <1>1, ElementOfSeq, ChunkFacts
  <2> QED  BY <1>3, <2>1
<1>5. MadeOf(BlockData, BlocksOf(memchunks, behind, mask_len), memchunks, behind, mask_len)
  <2>1. Blockable(BlockData, memchunks, behind, mask_len)
    BY <1>2, <1>4 DEF Blockable
  <2> QED  BY <2>1, BlocksOfFacts
<1> QED  BY <1>5 DEF MadeOf

-------------------------------------------------------------------------------
(* Type correctness.                                                             *)

LEMMA InitTyped == Init => Typed
<1> SUFFICES ASSUME Init PROVE Typed
  OBVIOUS
<1>1. mem \in [Addresses -> Byte] /\ MaxWrites \in Nat /\ MaxSearches \in Nat
  BY MemoryAssumption DEF Init
<1>2. <<>> \in Seq(BlockData) /\ <<>> \in Seq(Pattern) /\ Len(<<>>) = 0
  BY EmptySeq
<1>3. 0 \in 0 .. MaxWrites /\ 0 <= MaxSearches + 1 /\ 0 <= MaxSearches
      /\ 1 \in 1 .. (0 + Len(Region) + 1)
  BY <1>1, RegionFacts, SMT
<1>4. TypeOK
  BY <1>1, <1>2, <1>3 DEF Init, TypeOK
<1> QED  BY <1>2, <1>3, <1>4 DEF Init, Typed, ChunksTyped, ListsTyped, InCall, MatchesFit

\* The steps that change neither the chunks nor the lists of blocks and searches.
LEMMA TypedSame ==
    ASSUME Typed, UNCHANGED <<memchunks, blocks, asked, of, mask_len, fresh>>,
           mem' \in [Addresses -> Byte] /\ writes' \in 0 .. MaxWrites,
           proc' \in BOOLEAN /\ freed' \in BOOLEAN /\ changed' \in BOOLEAN,
           crash' \in {"none", "null_chunks", "freed_chunks"} \/ crash' = crash,
           crash' = "none" => crash = "none",
           busy' \in {"idle", "dump", "update"},
           next' \in 1 .. (Len(blocks) + Len(Region) + 1),
           InCall'
    PROVE  Typed'
BY DEF Typed, TypeOK, ChunksTyped, ListsTyped, MatchesFit

LEMMA OtherStepsTyped ==
    ASSUME Typed,
           \/ \E a \in Addresses, b \in Byte : Write(a, b)
           \/ memproc_refresh_handle \/ PassRegion \/ DumpEnds \/ memproc_update \/ UpdateEnds \/ NoChunks
    PROVE  Typed'
<1>0. /\ TypeOK /\ InCall
      /\ Len(blocks) \in Nat /\ Len(Region) \in Nat
      /\ 1 \in 1 .. (Len(blocks) + Len(Region) + 1) /\ 1 <= Len(blocks) + 1
  <2>1. Len(blocks) \in Nat
    BY LenProperties DEF Typed, ListsTyped
  <2> QED  BY <2>1, RegionFacts, SMT DEF Typed
<1>1. ASSUME NEW a \in Addresses, NEW b \in Byte, Write(a, b) PROVE Typed'
  <2>1. mem' \in [Addresses -> Byte]
    BY <1>0, <1>1 DEF TypeOK, Write
  <2>2. writes' \in 0 .. MaxWrites
    <3>1. writes \in 0 .. MaxWrites /\ writes < MaxWrites /\ writes' = writes + 1
      BY <1>0, <1>1 DEF TypeOK, Write
    <3> QED  BY <3>1, MemoryAssumption, SMT
  <2>3. {} \subseteq 1 .. Len(blocks)
    OBVIOUS
  <2> QED  BY <1>0, <1>1, <2>1, <2>2, <2>3 DEF Write, Typed, TypeOK, ChunksTyped, ListsTyped, InCall, MatchesFit,
              chunkVars, dumpVars
<1>2. CASE memproc_refresh_handle
  BY <1>0, <1>2, TypedSame DEF memproc_refresh_handle, Idle, procVars, chunkVars, dumpVars, TypeOK, InCall
<1>3. CASE DumpEnds
  BY <1>0, <1>3, TypedSame DEF DumpEnds, procVars, chunkVars, dumpVars, TypeOK, InCall
<1>4. CASE memproc_update
  BY <1>0, <1>4, TypedSame DEF memproc_update, Idle, procVars, chunkVars, dumpVars, TypeOK, InCall
<1>5. CASE UpdateEnds
  BY <1>0, <1>5, TypedSame DEF UpdateEnds, procVars, chunkVars, dumpVars, TypeOK, InCall
<1>6. CASE NoChunks
  BY <1>0, <1>6, TypedSame DEF NoChunks, Idle, procVars, chunkVars, dumpVars, TypeOK, InCall
<1>7. CASE PassRegion
  <2>1. /\ busy = "dump" /\ next <= Len(Region) /\ next' = next + 1
        /\ UNCHANGED <<procVars, proc, chunkVars, busy, blocks, answer, of, crash>>
    BY <1>7 DEF PassRegion
  <2>2. memchunks # NULL /\ blocks = <<>> /\ asked = <<>> /\ answer = NULL
    BY <1>0, <2>1 DEF InCall
  <2>3. next \in Nat /\ 1 <= next
    BY <1>0, SMT DEF TypeOK
  <2>4. next' \in 1 .. (Len(blocks) + Len(Region) + 1) /\ next' <= Len(Region) + 1
    BY <1>0, <2>1, <2>3, SMT
  <2>5. Len(memchunks) < next'
    <3>1. memchunks \in Seq(Chunk) /\ Len(memchunks) < next
      BY <1>0, <2>1, <2>2 DEF TypeOK, InCall
    <3>2. Len(memchunks) \in Nat
      BY <3>1, LenProperties
    <3> QED  BY <2>1, <2>3, <3>1, <3>2, SMT
  <2>6. InCall'
    BY <2>1, <2>2, <2>4, <2>5 DEF InCall, chunkVars
  <2> QED  BY <1>0, <2>1, <2>4, <2>6, TypedSame DEF procVars, chunkVars, TypeOK
<1> QED  BY <1>1, <1>2, <1>3, <1>4, <1>5, <1>6, <1>7

\* A dump begins with no chunk, and the chunks are forgotten by memproc_clear.
LEMMA NoneTyped ==
    ASSUME Typed, (\E from \in DOMAIN Region : memproc_dump_details(from)) \/ memproc_clear
    PROVE  Typed'
<1>1. /\ <<>> \in Seq(BlockData) /\ <<>> \in Seq(Pattern) /\ <<>> \in Seq(Chunk) /\ Len(<<>>) = 0
      /\ \A x : 1 .. 0 = {} /\ {} \subseteq 1 .. x
  <2>1. 1 .. 0 = {}
    BY SMT
  <2> QED  BY <2>1, EmptySeq
<1>2. /\ Len(Region) \in Nat /\ 0 <= Len(Region) /\ MaxSearches \in Nat /\ 0 <= MaxSearches
      /\ 0 <= MaxSearches + 1 /\ DOMAIN Region = 1 .. Len(Region)
      /\ 1 \in 1 .. (0 + Len(Region) + 1)
  BY RegionFacts, MemoryAssumption, LenProperties, SMT
<1>3. ASSUME NEW from \in DOMAIN Region, memproc_dump_details(from) PROVE Typed'
  <2>1. /\ from \in 1 .. (0 + Len(Region) + 1) /\ 0 < from /\ from <= Len(Region) + 1
    BY <1>2, SMT
  <2>2. /\ memchunks' = <<>> /\ freed' = FALSE /\ busy' = "dump" /\ next' = from
        /\ asked' = <<>> /\ changed' = FALSE /\ answer' = NULL
        /\ blocks' = <<>> /\ of' = <<>> /\ fresh' = {}
        /\ UNCHANGED <<mem, writes, proc, mask_len, crash>>
    BY <1>3 DEF memproc_dump_details, Forget
  <2>3. TypeOK'
    BY <1>1, <1>2, <2>1, <2>2 DEF Typed, TypeOK
  <2>4. CASE <<>> # NULL
    BY <1>1, <1>2, <2>1, <2>2, <2>3, <2>4 DEF Typed, ChunksTyped, ListsTyped, InCall, MatchesFit
  <2>5. CASE <<>> = NULL
    <3>1. <<>> \in Seq(Seq(Byte))
      BY EmptySeq
    <3> QED  BY <2>5, <3>1, MemoryAssumption
  <2> QED  BY <2>4, <2>5
<1>4. CASE memproc_clear
  <2>1. /\ memchunks' = <<>> /\ freed' = TRUE /\ asked' = <<>>
        /\ blocks' = <<>> /\ of' = <<>> /\ fresh' = {}
        /\ UNCHANGED <<mem, writes, changed, proc, mask_len, busy, next, crash>>
        /\ busy = "idle"
    BY <1>4 DEF memproc_clear, Forget, Idle, dumpVars
  <2>2. next = 1
    BY <2>1 DEF Typed, InCall
  <2>3. TypeOK'
    BY <1>1, <1>2, <2>1, <2>2 DEF Typed, TypeOK
  <2> QED  BY <1>1, <1>2, <2>1, <2>2, <2>3 DEF Typed, ChunksTyped, ListsTyped, InCall, MatchesFit
<1> QED  BY <1>3, <1>4

LEMMA DumpRegionTyped == ASSUME Typed, DumpRegion PROVE Typed'
<1>1. /\ memchunks \in Seq(Chunk) /\ memchunks # NULL /\ busy = "dump"
      /\ next \in 1 .. Len(Region) /\ Len(memchunks) < next
      /\ blocks = <<>> /\ asked = <<>> /\ answer = NULL
      /\ Len(memchunks) \in Nat
  <2>1. /\ busy = "dump" /\ next <= Len(Region)
    BY DEF DumpRegion
  <2>2. /\ memchunks # NULL /\ Len(memchunks) < next
        /\ blocks = <<>> /\ asked = <<>> /\ answer = NULL
    BY <2>1 DEF Typed, InCall
  <2>3. memchunks \in Seq(Chunk)
    BY <2>2 DEF Typed, TypeOK
  <2>4. next \in 1 .. Len(Region)
    <3>1. next \in 1 .. (Len(blocks) + Len(Region) + 1) /\ Len(blocks) = 0
      BY <2>2, EmptySeq DEF Typed, TypeOK
    <3> QED  BY <2>1, <3>1, RegionFacts, SMT
  <2> QED  BY <2>1, <2>2, <2>3, <2>4, LenProperties
<1>2. PICK ok \in BOOLEAN :
        memchunks' = Append(memchunks, memchunk_new(Region[next].addr, Region[next].size, ok))
  BY DEF DumpRegion
<1> DEFINE c == memchunk_new(Region[next].addr, Region[next].size, ok)
<1>3. c \in Chunk /\ c.addr = Region[next].addr /\ Len(c.buffer) = Region[next].size /\ c.matches = <<>>
  <2> DEFINE size == Region[next].size
  <2>1. size \in Nat /\ Region[next].addr \in Nat
        /\ Region[next].addr .. (Region[next].addr + size - 1) \subseteq Addresses
    BY <1>1, RegionFacts
  <2>2. Read(Region[next].addr, size) \in Seq(Byte) /\ Len(Read(Region[next].addr, size)) = size
    BY <2>1, ReadFacts DEF Typed, TypeOK
  <2> DEFINE zeros == [k \in 1 .. size |-> 0]
  <2>3. zeros \in Seq(Byte) /\ Len(zeros) = size
    <3>1. zeros \in [1 .. size -> Byte]
      BY MemoryAssumption
    <3> HIDE DEF zeros, size
    <3> QED  BY <2>1, <3>1, IsSeq
  <2>4. c = [addr |-> Region[next].addr, matches |-> <<>>, read |-> ok,
             buffer |-> IF ok THEN Read(Region[next].addr, size) ELSE zeros]
    BY DEF memchunk_new
  <2>5. <<>> \in Seq(Nat)
    BY EmptySeq
  <2> HIDE DEF c, zeros
  <2> QED  BY <2>1, <2>2, <2>3, <2>4, <2>5 DEF Chunk
<1> HIDE DEF c
<1> DEFINE n == Len(memchunks)
<1>4. /\ memchunks' \in Seq(Chunk) /\ Len(memchunks') = n + 1
      /\ \A i \in 1 .. n : memchunks'[i] = memchunks[i]
      /\ memchunks'[n + 1] = c
      /\ memchunks' # <<>>
  BY <1>1, <1>2, <1>3, AppendProperties DEF c
<1>5. \A i \in 1 .. (n + 1) : i = n + 1 \/ i \in 1 .. n
  BY <1>1, SMT
<1>6. /\ n + 1 <= Len(Region) /\ n + 1 < next + 1 /\ next + 1 <= Len(Region) + 1
      /\ next + 1 \in 1 .. (0 + Len(Region) + 1)
  BY <1>1, RegionFacts, SMT
<1>7. /\ next' = next + 1 /\ busy' = "dump" /\ blocks' = <<>> /\ asked' = <<>> /\ answer' = NULL
      /\ UNCHANGED <<mem, writes, changed, fresh, proc, freed, mask_len, of, crash>>
  BY <1>1 DEF DumpRegion, procVars
<1>8. Len(<<>>) = 0 /\ 1 .. 0 = {} /\ Len(c.matches) = 0
  <2>1. 1 .. 0 = {}
    BY SMT
  <2> QED  BY <1>3, <2>1, EmptySeq
<1>9. memchunks' # NULL
  BY <1>4, MemoryAssumption
<1>10. \A i \in 1 .. (n + 1) : \E r \in 1 .. Len(Region) :
         memchunks'[i].addr = Region[r].addr /\ Len(memchunks'[i].buffer) = Region[r].size
  BY <1>1, <1>3, <1>4, <1>5 DEF Typed, ChunksTyped
<1>11. \A i \in 1 .. (n + 1) : \A m \in 1 .. Len(memchunks'[i].matches) : FALSE
  <2> SUFFICES ASSUME NEW i \in 1 .. (n + 1), NEW m \in 1 .. Len(memchunks'[i].matches)
               PROVE  FALSE
    OBVIOUS
  <2>1. CASE i = n + 1
    BY <1>4, <1>8, <2>1
  <2>2. CASE i # n + 1
    <3>1. i \in 1 .. n /\ m \in 1 .. Len(memchunks[i].matches)
      BY <1>4, <1>5, <2>2
    <3>2. \E s \in 1 .. Len(asked) : TRUE
      BY <1>1, <3>1 DEF Typed, MatchesFit
    <3> QED  BY <1>1, <1>8, <3>2
  <2> QED  BY <2>1, <2>2
<1>12. TypeOK'
  BY <1>1, <1>4, <1>6, <1>7, <1>8, <1>11 DEF Typed, TypeOK
<1>13. ChunksTyped' /\ MatchesFit'
  BY <1>4, <1>7, <1>10, <1>11 DEF ChunksTyped, MatchesFit
<1>14. ListsTyped' /\ InCall'
  BY <1>1, <1>4, <1>6, <1>7, <1>9 DEF Typed, ListsTyped, InCall
<1> QED  BY <1>12, <1>13, <1>14 DEF Typed

\* A search overruns a chunk, or puts what it found behind the matches there.
LEMMA SearchTyped == ASSUME Typed, NEW p \in Pattern, memproc_search(p) PROVE Typed'
<1>1. /\ busy = "idle" /\ crash = "none" /\ memchunks # NULL /\ memchunks \in Seq(Chunk)
      /\ Len(asked) < MaxSearches
      /\ mask_len' = Len(p.mask) /\ asked' = Append(asked, p) /\ answer' = NULL
      /\ blocks' = <<>> /\ of' = <<>> /\ fresh' = {}
      /\ UNCHANGED <<mem, writes, changed, proc, freed, busy, next>>
  BY DEF memproc_search, Idle, Live, Forget, dumpVars, Typed, TypeOK
<1>2. /\ asked \in Seq(Pattern) /\ Len(asked) \in Nat
      /\ asked' \in Seq(Pattern) /\ Len(asked') = Len(asked) + 1 /\ asked' # <<>>
      /\ \A s \in 1 .. Len(asked) : asked'[s] = asked[s]
      /\ asked'[Len(asked')] = p
  BY <1>1, AppendProperties, LenProperties DEF Typed, ListsTyped
<1>3. /\ <<>> \in Seq(BlockData) /\ <<>> \in Seq(Pattern) /\ Len(<<>>) = 0
      /\ {} \subseteq 1 .. 0
      /\ next = 1 /\ 1 \in 1 .. (0 + Len(Region) + 1)
      /\ Len(asked) + 1 <= MaxSearches /\ Len(asked) + 1 <= MaxSearches + 1
  <2>1. next = 1
    BY <1>1 DEF Typed, InCall
  <2> QED  BY <1>1, <1>2, <2>1, EmptySeq, RegionFacts, MemoryAssumption, SMT
<1>4. ListsTyped' /\ InCall'
  BY <1>1, <1>2, <1>3 DEF ListsTyped, InCall
<1>5. \A s \in 1 .. Len(asked) : s \in 1 .. Len(asked')
  BY <1>2, SMT
<1>6. CASE UNCHANGED memchunks /\ crash' = "overrun"
  <2>1. TypeOK'
    BY <1>1, <1>2, <1>3, <1>6 DEF Typed, TypeOK
  <2>2. ChunksTyped'
    BY <1>6 DEF Typed, ChunksTyped
  <2>3. ASSUME NEW i \in 1 .. Len(memchunks), NEW k \in 1 .. Len(memchunks[i].matches)
        PROVE  \E s \in 1 .. Len(asked') :
                 memchunks[i].matches[k] + Len(asked'[s].mask) <= Len(memchunks[i].buffer)
    <3>1. PICK s \in 1 .. Len(asked) :
             memchunks[i].matches[k] + Len(asked[s].mask) <= Len(memchunks[i].buffer)
      BY <1>1 DEF Typed, MatchesFit
    <3> QED  BY <1>2, <1>5, <3>1
  <2>4. MatchesFit'
    BY <1>1, <1>2, <1>6, <2>3 DEF MatchesFit
  <2> QED  BY <1>4, <2>1, <2>2, <2>4 DEF Typed
<1>7. ASSUME NEW behind \in [DOMAIN memchunks -> Behind],
             Searched(memchunks, behind, p, FoundIn(memchunks, behind, p)),
             memchunks' = WithMatches(memchunks, FoundIn(memchunks, behind, p)),
             UNCHANGED crash
      PROVE  Typed'
  <2> DEFINE found == FoundIn(memchunks, behind, p)
  <2>1. \A i \in 1 .. Len(memchunks) :
          /\ found[i] \in Seq(Nat)
          /\ \A k \in 1 .. Len(found[i]) :
               /\ found[i][k] \in 0 .. (Len(memchunks[i].buffer) - 1)
               /\ found[i][k] + Len(p.mask) <= Len(memchunks[i].buffer)
    BY <1>1, <1>7, SearchedFacts
  <2>2. memchunks' = WithMatches(memchunks, found)
    BY <1>7
  <2> HIDE DEF found
  <2>3. /\ SameChunks(memchunks', memchunks)
        /\ \A i \in 1 .. Len(memchunks) : memchunks'[i].matches = memchunks[i].matches \o found[i]
    BY <1>1, <2>1, <2>2, WithMatchesFacts
  <2>4. /\ memchunks' \in Seq(Chunk) /\ Len(memchunks') = Len(memchunks)
        /\ \A i \in 1 .. Len(memchunks) :
             /\ memchunks'[i].addr = memchunks[i].addr /\ memchunks'[i].buffer = memchunks[i].buffer
    BY <2>3 DEF SameChunks
  <2>5. ASSUME NEW i \in 1 .. Len(memchunks), NEW k \in 1 .. Len(memchunks'[i].matches)
        PROVE  /\ memchunks'[i].matches[k] \in 0 .. (Len(memchunks'[i].buffer) - 1)
               /\ \E s \in 1 .. Len(asked') :
                    memchunks'[i].matches[k] + Len(asked'[s].mask) <= Len(memchunks'[i].buffer)
    <3> DEFINE m == memchunks[i].matches
    <3>1. memchunks[i] \in Chunk /\ m \in Seq(Nat)
      BY <1>1, ElementOfSeq, ChunkFacts
    <3>2. \/ k \in 1 .. Len(m) /\ memchunks'[i].matches[k] = m[k]
          \/ \E j \in 1 .. Len(found[i]) : memchunks'[i].matches[k] = found[i][j]
      <4> DEFINE f == found[i]
                 all == memchunks'[i].matches
      <4>1. f \in Seq(Nat) /\ all = m \o f
        BY <2>1, <2>3
      <4>2. m \in Seq(Nat) /\ k \in 1 .. Len(all)
        BY <3>1
      <4> HIDE DEF m, f, all
      <4>3. k \in 1 .. Len(m \o f)
        BY <4>1, <4>2
      <4>4. \/ k \in 1 .. Len(m) /\ (m \o f)[k] = m[k]
            \/ \E j \in 1 .. Len(f) : (m \o f)[k] = f[j]
        BY <4>1, <4>2, <4>3, MatchesAfter
      <4>5. \/ k \in 1 .. Len(m) /\ all[k] = m[k]
            \/ \E j \in 1 .. Len(f) : all[k] = f[j]
        BY <4>1, <4>4
      <4> QED  BY <4>5 DEF f, all
    <3>3. CASE k \in 1 .. Len(m) /\ memchunks'[i].matches[k] = m[k]
      <4>1. m[k] \in 0 .. (Len(memchunks[i].buffer) - 1)
        BY <1>1, <3>3 DEF Typed, TypeOK
      <4>2. PICK s \in 1 .. Len(asked) : m[k] + Len(asked[s].mask) <= Len(memchunks[i].buffer)
        BY <1>1, <3>3 DEF Typed, MatchesFit
      <4> QED  BY <1>2, <1>5, <2>4, <3>3, <4>1, <4>2
    <3>4. CASE \E j \in 1 .. Len(found[i]) : memchunks'[i].matches[k] = found[i][j]
      <4>1. Len(asked') \in 1 .. Len(asked')
        BY <1>2, SMT
      <4> QED  BY <1>2, <2>1, <2>4, <3>4, <4>1
    <3> QED  BY <3>2, <3>3, <3>4
  <2>6. MatchesFit'
    BY <1>1, <1>2, <2>4, <2>5 DEF MatchesFit
  <2>7. TypeOK'
    BY <1>1, <1>2, <1>3, <1>7, <2>4, <2>5 DEF Typed, TypeOK
  <2>8. ChunksTyped'
    BY <1>1, <2>4 DEF Typed, ChunksTyped
  <2> QED  BY <1>4, <2>6, <2>7, <2>8 DEF Typed
<1>8. PICK behind \in [DOMAIN memchunks -> Behind] :
        LET found == FoundIn(memchunks, behind, p)
        IN  IF \E i \in DOMAIN memchunks : Overruns(memchunks[i], found[i], p)
            THEN crash' = "overrun" /\ UNCHANGED memchunks
            ELSE memchunks' = WithMatches(memchunks, found) /\ UNCHANGED crash
  BY DEF memproc_search
<1>9. CASE ~ \E i \in DOMAIN memchunks : Overruns(memchunks[i], FoundIn(memchunks, behind, p)[i], p)
  BY <1>1, <1>7, <1>8, <1>9, SearchFits
<1> QED  BY <1>6, <1>8, <1>9

LEMMA GetResTyped == ASSUME Typed, memproc_get_res PROVE Typed'
<1>1. PICK behind \in [DOMAIN memchunks -> Behind] : blocks' = BlocksOf(memchunks, behind, mask_len)
  BY DEF memproc_get_res
<1>2. /\ busy = "idle" /\ crash = "none" /\ memchunks # NULL /\ memchunks \in Seq(Chunk)
      /\ memchunks' = Emptied(memchunks) /\ asked' = <<>> /\ of' = asked
      /\ fresh' \subseteq DOMAIN blocks'
      /\ UNCHANGED <<mem, writes, changed, proc, freed, mask_len, busy, next, crash>>
  BY DEF memproc_get_res, Idle, Live, dumpVars, Typed, TypeOK
<1>3. blocks' \in Seq(BlockData) /\ Len(blocks') \in Nat /\ DOMAIN blocks' = 1 .. Len(blocks')
  <2>1. blocks' \in Seq(BlockData)
    BY <1>1, ResultFacts DEF memproc_get_res
  <2> QED  BY <2>1, LenProperties
<1>4. /\ memchunks' \in Seq(Chunk) /\ Len(memchunks') = Len(memchunks)
      /\ \A i \in 1 .. Len(memchunks) :
           /\ memchunks'[i].addr = memchunks[i].addr /\ memchunks'[i].buffer = memchunks[i].buffer
           /\ memchunks'[i].matches = <<>>
  BY <1>2, EmptiedFacts DEF SameChunks
<1>5. /\ next = 1 /\ 1 \in 1 .. (Len(blocks') + Len(Region) + 1)
      /\ 0 <= MaxSearches /\ 0 <= MaxSearches + 1 /\ 1 .. 0 = {}
  <2>1. next = 1
    BY <1>2 DEF Typed, InCall
  <2> QED  BY <1>3, <2>1, RegionFacts, MemoryAssumption, SMT
<1>6. <<>> \in Seq(Pattern) /\ Len(<<>>) = 0 /\ asked \in Seq(Pattern)
  BY EmptySeq DEF Typed, ListsTyped
<1>7. TypeOK'
  BY <1>2, <1>3, <1>4, <1>5, <1>6 DEF Typed, TypeOK
<1>8. ChunksTyped' /\ MatchesFit'
  <2>1. ChunksTyped'
    BY <1>2, <1>4 DEF Typed, ChunksTyped
  <2>2. \A i \in 1 .. Len(memchunks') : \A k \in 1 .. Len(memchunks'[i].matches) : FALSE
    BY <1>4, <1>5, <1>6
  <2>3. MatchesFit'
    BY <1>2, <2>2 DEF MatchesFit
  <2> QED  BY <2>1, <2>3
<1>9. ListsTyped' /\ InCall'
  BY <1>2, <1>3, <1>5, <1>6 DEF Typed, ListsTyped, InCall
<1> QED  BY <1>7, <1>8, <1>9 DEF Typed

LEMMA CondTyped ==
    ASSUME Typed, NEW p \in Pattern, NEW v \in Byte \cup {NULL}, memscan_search_cond(p, v)
    PROVE  Typed'
<1>1. /\ busy = "idle" /\ crash = "none" /\ memchunks # NULL /\ memchunks \in Seq(Chunk)
      /\ mask_len' = Len(p.mask)
      /\ blocks' = <<>> /\ of' = <<>> /\ fresh' = {}
      /\ UNCHANGED <<mem, writes, changed, proc, freed, busy, next>>
  BY DEF memscan_search_cond, Idle, Live, Forget, dumpVars, Typed, TypeOK
<1>2. /\ asked \in Seq(Pattern) /\ Len(asked) \in Nat /\ Len(asked) <= MaxSearches
      /\ Append(asked, p) \in Seq(Pattern) /\ Len(Append(asked, p)) = Len(asked) + 1
      /\ Append(asked, p) # <<>>
      /\ \A s \in 1 .. Len(asked) : Append(asked, p)[s] = asked[s]
      /\ Append(asked, p)[Len(asked) + 1] = p
  BY <1>1, AppendProperties, LenProperties DEF Typed, ListsTyped
<1>3. /\ <<>> \in Seq(BlockData) /\ <<>> \in Seq(Pattern) /\ Len(<<>>) = 0
      /\ {} \subseteq 1 .. 0 /\ 1 .. 0 = {}
      /\ next = 1 /\ 1 \in 1 .. (0 + Len(Region) + 1)
      /\ Len(asked) + 1 <= MaxSearches + 1 /\ 0 <= MaxSearches /\ 0 <= MaxSearches + 1
  <2>1. next = 1
    BY <1>1 DEF Typed, InCall
  <2> QED  BY <1>1, <1>2, <2>1, EmptySeq, RegionFacts, MemoryAssumption, SMT
<1>4. \/ crash' = "overrun" /\ asked' = Append(asked, p) /\ UNCHANGED memchunks
      \/ memchunks' = Emptied(memchunks) /\ asked' = <<>> /\ UNCHANGED crash
  BY DEF memscan_search_cond
<1>5. InCall'
  BY <1>1, <1>3 DEF InCall
<1>6. CASE crash' = "overrun" /\ asked' = Append(asked, p) /\ UNCHANGED memchunks
  <2>1. TypeOK'
    BY <1>1, <1>2, <1>3, <1>6 DEF Typed, TypeOK
  <2>2. ChunksTyped' /\ ListsTyped'
    BY <1>2, <1>1, <1>3, <1>6 DEF Typed, ChunksTyped, ListsTyped
  <2>3. ASSUME NEW i \in 1 .. Len(memchunks), NEW k \in 1 .. Len(memchunks[i].matches)
        PROVE  \E s \in 1 .. Len(asked') :
                 memchunks[i].matches[k] + Len(asked'[s].mask) <= Len(memchunks[i].buffer)
    <3>1. PICK s \in 1 .. Len(asked) :
             memchunks[i].matches[k] + Len(asked[s].mask) <= Len(memchunks[i].buffer)
      BY <1>1 DEF Typed, MatchesFit
    <3>2. s \in 1 .. Len(asked')
      BY <1>2, <1>6, SMT
    <3> QED  BY <1>2, <1>6, <3>1, <3>2
  <2>4. MatchesFit'
    BY <1>1, <1>2, <1>6, <2>3 DEF MatchesFit
  <2> QED  BY <1>5, <2>1, <2>2, <2>4 DEF Typed
<1>7. CASE memchunks' = Emptied(memchunks) /\ asked' = <<>> /\ UNCHANGED crash
  <2>1. /\ memchunks' \in Seq(Chunk) /\ Len(memchunks') = Len(memchunks)
        /\ \A i \in 1 .. Len(memchunks) :
             /\ memchunks'[i].addr = memchunks[i].addr /\ memchunks'[i].buffer = memchunks[i].buffer
             /\ memchunks'[i].matches = <<>>
    BY <1>1, <1>7, EmptiedFacts DEF SameChunks
  <2>2. TypeOK'
    BY <1>1, <1>3, <1>7, <2>1 DEF Typed, TypeOK
  <2>3. ChunksTyped' /\ ListsTyped' /\ MatchesFit'
    <3>1. ChunksTyped'
      BY <1>1, <2>1 DEF Typed, ChunksTyped
    <3>2. ListsTyped'
      BY <1>1, <1>3, <1>7 DEF ListsTyped
    <3>3. \A i \in 1 .. Len(memchunks') : \A k \in 1 .. Len(memchunks'[i].matches) : FALSE
      BY <1>3, <2>1
    <3>4. MatchesFit'
      BY <1>7, <3>3 DEF MatchesFit
    <3> QED  BY <3>1, <3>2, <3>4
  <2> QED  BY <1>5, <2>2, <2>3 DEF Typed
<1> QED  BY <1>4, <1>6, <1>7

\* What an update changes is the data of the block it has come to, not its length.
LEMMA UpdateFacts ==
    ASSUME Typed, UpdateBlock
    PROVE  /\ next \in 1 .. Len(blocks) /\ blocks' \in Seq(BlockData) /\ Len(blocks') = Len(blocks)
           /\ blocks[next] \in BlockData /\ Len(blocks[next].data) \in Nat
           /\ \A j \in 1 .. Len(blocks) :
                /\ blocks'[j].addr = blocks[j].addr /\ Len(blocks'[j].data) = Len(blocks[j].data)
                /\ j # next => blocks'[j] = blocks[j]
           /\ \/ blocks' = blocks /\ fresh' = fresh
              \/ /\ blocks'[next].data = Read(blocks[next].addr, Len(blocks[next].data))
                 /\ fresh' = fresh \cup {next}
<1>1. /\ blocks \in Seq(BlockData) /\ Len(blocks) \in Nat /\ DOMAIN blocks = 1 .. Len(blocks)
      /\ next \in 1 .. Len(blocks)
  <2>1. blocks \in Seq(BlockData) /\ Len(blocks) \in Nat /\ DOMAIN blocks = 1 .. Len(blocks)
    BY LenProperties DEF Typed, ListsTyped
  <2>2. next \in 1 .. (Len(blocks) + Len(Region) + 1) /\ next <= Len(blocks)
    BY DEF Typed, TypeOK, UpdateBlock
  <2> QED  BY <2>1, <2>2, RegionFacts, SMT
<1>2. blocks[next] \in BlockData
  BY <1>1, ElementOfSeq
<1> DEFINE b == blocks[next]
           d == Read(b.addr, Len(b.data))
<1>3. b.addr \in Nat /\ b.data \in Seq(Byte) /\ Len(b.data) \in Nat
  BY <1>2, LenProperties DEF BlockData
<1>4. CASE blocks' = blocks /\ fresh' = fresh
  BY <1>1, <1>2, <1>3, <1>4
<1>5. CASE /\ b.addr .. (b.addr + Len(b.data) - 1) \subseteq Addresses
           /\ blocks' = [blocks EXCEPT ![next].data = d]
           /\ fresh' = fresh \cup {next}
  <2>1. d \in Seq(Byte) /\ Len(d) = Len(b.data)
    BY <1>3, <1>5, ReadFacts DEF Typed, TypeOK
  <2> DEFINE e == [b EXCEPT !.data = d]
  <2>2. e \in BlockData /\ e.addr = b.addr /\ e.data = d
    <3> HIDE DEF d, b
    <3> QED  BY <1>2, <2>1 DEF BlockData, b
  <2>3. blocks' = [blocks EXCEPT ![next] = e]
    BY <1>5
  <2> HIDE DEF e
  <2>4. /\ blocks' \in Seq(BlockData) /\ Len(blocks') = Len(blocks)
        /\ \A j \in 1 .. Len(blocks) : blocks'[j] = IF j = next THEN e ELSE blocks[j]
    BY <1>1, <2>2, <2>3, ExceptSeq
  <2>5. blocks'[next].data = d
    BY <1>1, <2>2, <2>4
  <2> HIDE DEF d
  <2>6. \A j \in 1 .. Len(blocks) :
          /\ blocks'[j].addr = blocks[j].addr /\ Len(blocks'[j].data) = Len(blocks[j].data)
          /\ j # next => blocks'[j] = blocks[j]
    BY <2>1, <2>2, <2>4
  <2> QED  BY <1>1, <1>2, <1>3, <1>5, <2>4, <2>5, <2>6 DEF d
<1>6. \/ blocks' = blocks /\ fresh' = fresh
      \/ /\ b.addr .. (b.addr + Len(b.data) - 1) \subseteq Addresses
         /\ blocks' = [blocks EXCEPT ![next].data = d]
         /\ fresh' = fresh \cup {next}
  BY DEF UpdateBlock
<1> QED  BY <1>4, <1>5, <1>6

LEMMA UpdateTyped == ASSUME Typed, UpdateBlock PROVE Typed'
<1>1. /\ blocks' \in Seq(BlockData) /\ Len(blocks') = Len(blocks)
      /\ next \in 1 .. Len(blocks) /\ fresh' \subseteq fresh \cup {next}
      /\ busy = "update" /\ next' = next + 1
      /\ UNCHANGED <<mem, writes, changed, proc, memchunks, freed, mask_len, asked, busy, of, crash>>
      /\ Len(blocks) \in Nat
  <2>1. Len(blocks) \in Nat
    BY LenProperties DEF Typed, ListsTyped
  <2> QED  BY <2>1, UpdateFacts DEF UpdateBlock, chunkVars
<1>2. next + 1 \in 1 .. (Len(blocks) + Len(Region) + 1) /\ next + 1 <= Len(blocks) + 1
  BY <1>1, RegionFacts, SMT
<1>3. TypeOK'
  BY <1>1, <1>2 DEF Typed, TypeOK
<1>4. ChunksTyped' /\ MatchesFit' /\ ListsTyped' /\ InCall'
  BY <1>1, <1>2 DEF Typed, ChunksTyped, MatchesFit, ListsTyped, InCall
<1> QED  BY <1>3, <1>4 DEF Typed

LEMMA TypedStep == ASSUME Typed, [Next]_vars PROVE Typed'
<1>1. CASE UNCHANGED vars
  BY <1>1 DEF vars, procVars, chunkVars, dumpVars, Typed, TypeOK, ChunksTyped, ListsTyped,
       InCall, MatchesFit
<1>2. CASE Next
  BY <1>2, OtherStepsTyped, NoneTyped, DumpRegionTyped, SearchTyped, GetResTyped, CondTyped,
     UpdateTyped DEF Next
<1> QED  BY <1>1, <1>2

\* The type invariant, with what it rests on: chunks are copies of regions, and matches are
\* whole occurrences of a pattern searched (memproc_dump_details, memproc_search).
THEOREM TypeCorrect == Spec => []Typed
<1>1. Init => Typed
  BY InitTyped
<1>2. Typed /\ [Next]_vars => Typed'
  BY TypedStep
<1> QED  BY <1>1, <1>2, PTL DEF Spec

\* The type invariant that the run checks, for all values of the constants.
THEOREM TypeOKCorrect == Spec => []TypeOK
BY TypeCorrect, PTL DEF Typed

-------------------------------------------------------------------------------
(* Blocks.                                                                       *)

\* Until a search for a pattern of another length, the match k of chunk i becomes a
\* block of the chunk's bytes, as long as what was asked.
TakenFrom(b, c, o, len) ==
    /\ o \in 0 .. (Len(c.buffer) - 1) /\ o + len <= Len(c.buffer)
    /\ b \in BlockData /\ b.addr = c.addr + o /\ b.read = c.read
    /\ Len(b.data) = len /\ \A k \in 1 .. len : b.data[k] = c.buffer[o + k]

LEMMA ResultTaken ==
    ASSUME Typed, Live, OneLength(asked), NEW behind \in [DOMAIN memchunks -> Behind],
           NEW j \in 1 .. Len(BlocksOf(memchunks, behind, mask_len))
    PROVE  /\ Len(asked[1].mask) \in Nat \ {0}
           /\ \E i \in 1 .. Len(memchunks), o \in Nat :
                TakenFrom(BlocksOf(memchunks, behind, mask_len)[j], memchunks[i], o, Len(asked[1].mask))
<1> DEFINE found == BlocksOf(memchunks, behind, mask_len)
<1>1. memchunks \in Seq(Chunk) /\ memchunks # NULL /\ DOMAIN memchunks = 1 .. Len(memchunks)
  BY LenProperties DEF Typed, TypeOK, Live
<1>2. PICK i \in 1 .. Len(memchunks) : \E k \in 1 .. Len(memchunks[i].matches) :
         found[j] = Block(memchunks[i], behind[i], mask_len, memchunks[i].matches[k])
  BY ResultFacts
<1>3. PICK k \in 1 .. Len(memchunks[i].matches) :
         found[j] = Block(memchunks[i], behind[i], mask_len, memchunks[i].matches[k])
  BY <1>2
<1> DEFINE c == memchunks[i]
           o == c.matches[k]
<1>4. PICK s \in 1 .. Len(asked) : o + Len(asked[s].mask) <= Len(c.buffer)
  BY <1>1 DEF Typed, MatchesFit
<1>5. asked \in Seq(Pattern) /\ DOMAIN asked = 1 .. Len(asked) /\ Len(asked) \in Nat
  BY LenProperties DEF Typed, ListsTyped
<1>6. 1 \in 1 .. Len(asked) /\ Len(asked) \in 1 .. Len(asked) /\ asked # <<>>
  <2>1. 1 \in 1 .. Len(asked) /\ Len(asked) \in 1 .. Len(asked) /\ Len(asked) # 0
    BY <1>5, SMT
  <2> QED  BY <2>1, EmptySeq
<1>7. mask_len = Len(asked[1].mask) /\ mask_len = Len(asked[s].mask)
  <2>1. mask_len = Len(asked[Len(asked)].mask)
    BY <1>6 DEF Typed, MatchesFit
  <2> QED  BY <1>5, <1>6, <2>1 DEF OneLength
<1>8. asked[1] \in Pattern /\ c \in Chunk /\ behind[i] \in Behind
  BY <1>1, <1>5, <1>6, ElementOfSeq
<1>9. o \in 0 .. (Len(c.buffer) - 1)
  BY <1>1 DEF Typed, TypeOK
<1>10. mask_len \in Nat \ {0} /\ behind[i] \in Seq(Byte) /\ mask_len <= Len(behind[i])
  BY <1>7, <1>8, PatternFacts
<1>11. found[j] = Block(c, behind[i], mask_len, o) /\ o + mask_len <= Len(c.buffer) /\ o \in Nat
  BY <1>3, <1>4, <1>7, <1>8, ChunkFacts
<1>12. TakenFrom(found[j], c, o, mask_len)
  <2>1. \A x \in 0 .. (Len(c.buffer) - 1) : x + mask_len <= Len(c.buffer) =>
          TakenFrom(Block(c, behind[i], mask_len, x), c, x, mask_len)
    <3> HIDE DEF c
    <3> SUFFICES ASSUME NEW x \in 0 .. (Len(c.buffer) - 1), x + mask_len <= Len(c.buffer)
                 PROVE  TakenFrom(Block(c, behind[i], mask_len, x), c, x, mask_len)
      OBVIOUS
    <3> DEFINE e == Block(c, behind[i], mask_len, x)
    <3>1. /\ e \in BlockData /\ Len(e.data) = mask_len /\ e.addr = c.addr + x /\ e.read = c.read
          /\ \A l \in 1 .. mask_len : e.data[l] = c.buffer[x + l]
      <4>1. /\ c \in Chunk /\ behind[i] \in Seq(Byte) /\ mask_len \in Nat \ {0}
            /\ mask_len <= Len(behind[i]) /\ x \in 0 .. (Len(c.buffer) - 1)
            /\ x + mask_len <= Len(c.buffer)
        BY <1>8, <1>10
      <4> DEFINE bytes == behind[i]
      <4> HIDE DEF bytes
      <4>2. /\ bytes \in Seq(Byte) /\ mask_len <= Len(bytes)
        BY <4>1 DEF bytes
      <4>3. /\ Block(c, bytes, mask_len, x) \in BlockData
            /\ Len(Block(c, bytes, mask_len, x).data) = mask_len
            /\ Block(c, bytes, mask_len, x).addr = c.addr + x
            /\ Block(c, bytes, mask_len, x).read = c.read
            /\ \A l \in 1 .. mask_len : Block(c, bytes, mask_len, x).data[l] = c.buffer[x + l]
        <5> DEFINE h == Block(c, bytes, mask_len, x)
        <5>1. /\ h \in BlockData /\ Len(h.data) = mask_len /\ h.addr = c.addr + x /\ h.read = c.read
          BY <4>1, <4>2, BlockFacts
        <5>2. x + mask_len <= Len(c.buffer) => \A l \in 1 .. mask_len : h.data[l] = c.buffer[x + l]
          BY <4>1, <4>2, BlockFacts
        <5> QED  BY <4>1, <5>1, <5>2
      <4> QED  BY <4>3 DEF bytes
    <3> HIDE DEF e
    <3>2. TakenFrom(e, c, x, mask_len)
      BY <3>1 DEF TakenFrom
    <3> QED  BY <3>2 DEF e
  <2> HIDE DEF c, o, found
  <2> QED  BY <1>9, <1>11, <2>1
<1> QED  BY <1>7, <1>10, <1>11, <1>12 DEF c, found

\* What is taken from a region lies in it.
LEMMA TakenInside ==
    ASSUME ChunksTyped, memchunks # NULL, memchunks \in Seq(Chunk),
           NEW i \in 1 .. Len(memchunks), NEW o \in Nat, NEW len \in Nat, NEW b,
           TakenFrom(b, memchunks[i], o, len)
    PROVE  /\ InRegion(b)
           /\ b.addr .. (b.addr + len - 1) \subseteq Addresses
<1>1. PICK r \in 1 .. Len(Region) :
        memchunks[i].addr = Region[r].addr /\ Len(memchunks[i].buffer) = Region[r].size
  BY DEF ChunksTyped
<1>2. /\ Region[r].addr \in Nat /\ Region[r].size \in Nat
      /\ Region[r].addr .. (Region[r].addr + Region[r].size - 1) \subseteq Addresses
      /\ DOMAIN Region = 1 .. Len(Region)
  BY RegionFacts, MemoryAssumption, LenProperties
<1>3. b.addr = Region[r].addr + o /\ o + len <= Region[r].size /\ Len(b.data) = len
  BY <1>1 DEF TakenFrom
<1>4. /\ Region[r].addr <= b.addr
      /\ b.addr + Len(b.data) <= Region[r].addr + Region[r].size
      /\ b.addr .. (b.addr + len - 1) \subseteq Region[r].addr .. (Region[r].addr + Region[r].size - 1)
  <2>1. \A a \in Nat, z \in Nat : o + len <= z =>
          a <= a + o /\ a + o + len <= a + z /\ (a + o) .. (a + o + len - 1) \subseteq a .. (a + z - 1)
    BY SMT
  <2> QED  BY <1>2, <1>3, <2>1
<1> QED  BY <1>2, <1>4 DEF InRegion

\* What changes the blocks and the searches they are from.
LEMMA BlockSteps ==
    ASSUME Typed, Next
    PROVE  \/ UNCHANGED <<blocks, of, fresh, mem>>
           \/ UNCHANGED <<blocks, of>> /\ fresh' = {}
           \/ blocks' = <<>> /\ of' = <<>> /\ fresh' = {}
           \/ memproc_get_res
           \/ UpdateBlock
BY DEF Next, Write, memproc_refresh_handle, memproc_dump_details, DumpRegion, PassRegion, DumpEnds, memproc_search,
    memproc_update, UpdateEnds, memproc_clear, NoChunks, memscan_search_cond, procVars, Forget

LEMMA BlocksInsideStep == ASSUME Typed, BlocksInside, Next PROVE BlocksInside'
<1>1. CASE UNCHANGED <<blocks, of>>
  BY <1>1 DEF BlocksInside, InRegion, OneLength
<1>2. CASE blocks' = <<>> /\ of' = <<>>
  BY <1>2 DEF BlocksInside
<1>3. CASE memproc_get_res
  <2>1. PICK behind \in [DOMAIN memchunks -> Behind] : blocks' = BlocksOf(memchunks, behind, mask_len)
    BY <1>3 DEF memproc_get_res
  <2>2. Live /\ of' = asked /\ memchunks # NULL /\ memchunks \in Seq(Chunk) /\ ChunksTyped
    BY <1>3 DEF memproc_get_res, Typed, TypeOK, Live
  <2>3. DOMAIN blocks' = 1 .. Len(blocks')
    BY <2>1, <2>2, ResultFacts, LenProperties
  <2>4. ASSUME OneLength(asked), NEW j \in 1 .. Len(blocks')
        PROVE  InRegion(blocks'[j]) /\ Len(blocks'[j].data) = Len(asked[1].mask)
    <3>1. PICK i \in 1 .. Len(memchunks), o \in Nat :
            TakenFrom(blocks'[j], memchunks[i], o, Len(asked[1].mask))
      BY <2>1, <2>2, <2>4, ResultTaken
    <3>2. Len(asked[1].mask) \in Nat
      BY <2>1, <2>2, <2>4, ResultTaken
    <3> QED  BY <2>2, <3>1, <3>2, TakenInside DEF TakenFrom
  <2> QED  BY <2>2, <2>3, <2>4 DEF BlocksInside, OneLength, InRegion
<1>4. CASE UpdateBlock
  <2>1. /\ of' = of /\ Len(blocks') = Len(blocks)
        /\ \A j \in 1 .. Len(blocks) :
             blocks'[j].addr = blocks[j].addr /\ Len(blocks'[j].data) = Len(blocks[j].data)
        /\ DOMAIN blocks = 1 .. Len(blocks) /\ DOMAIN blocks' = 1 .. Len(blocks)
    BY <1>4, UpdateFacts, LenProperties DEF UpdateBlock, Typed, ListsTyped
  <2> QED  BY <2>1 DEF BlocksInside, OneLength, InRegion
<1> QED  BY <1>1, <1>2, <1>3, <1>4, BlockSteps

\* Unless searches of different lengths are mixed, memproc_get_res gives blocks of the
\* length that was searched, each inside one region, and memproc_update keeps them so.
THEOREM BlocksInsideCorrect == Spec => []BlocksInside
<1>1. Init => BlocksInside
  BY DEF Init, BlocksInside
<1>2. Typed /\ BlocksInside /\ [Next]_vars => BlocksInside'
  <2>1. ASSUME UNCHANGED vars, BlocksInside PROVE BlocksInside'
    BY <2>1 DEF vars, BlocksInside, InRegion, OneLength
  <2> QED  BY <2>1, BlocksInsideStep
<1> QED  BY <1>1, <1>2, TypeCorrect, PTL DEF Spec

-------------------------------------------------------------------------------
(* Blocks and the process's memory.                                              *)

\* A search, and the collection of its results, leave the chunks what they are.
LEMMA ChunksKept ==
    ASSUME Typed,
           \/ memproc_get_res
           \/ \E p \in Pattern : memproc_search(p)
           \/ \E p \in Pattern, v \in Byte \cup {NULL} : memscan_search_cond(p, v)
    PROVE  memchunks # NULL /\ SameChunks(memchunks', memchunks) /\ UNCHANGED <<changed, mem, freed>>
<1>1. memchunks # NULL /\ memchunks \in Seq(Chunk) /\ UNCHANGED <<changed, mem, freed>>
  BY DEF memproc_get_res, memproc_search, memscan_search_cond, Live, Typed, TypeOK
<1>2. SameChunks(memchunks, memchunks) /\ SameChunks(Emptied(memchunks), memchunks)
  BY <1>1, EmptiedFacts DEF SameChunks
<1>3. CASE \/ memproc_get_res
           \/ \E p \in Pattern, v \in Byte \cup {NULL} : memscan_search_cond(p, v)
  <2>1. memchunks' = memchunks \/ memchunks' = Emptied(memchunks)
    BY <1>3 DEF memproc_get_res, memscan_search_cond
  <2> QED  BY <1>1, <1>2, <2>1
<1>4. ASSUME NEW p \in Pattern, memproc_search(p) PROVE SameChunks(memchunks', memchunks)
  <2>1. PICK behind \in [DOMAIN memchunks -> Behind] :
          LET found == FoundIn(memchunks, behind, p)
          IN  IF \E i \in DOMAIN memchunks : Overruns(memchunks[i], found[i], p)
              THEN crash' = "overrun" /\ UNCHANGED memchunks
              ELSE memchunks' = WithMatches(memchunks, found) /\ UNCHANGED crash
    BY <1>4 DEF memproc_search
  <2> DEFINE found == FoundIn(memchunks, behind, p)
  <2>2. CASE memchunks' = WithMatches(memchunks, found)
                /\ ~ \E i \in DOMAIN memchunks : Overruns(memchunks[i], found[i], p)
    <3>1. Searched(memchunks, behind, p, found)
      BY <1>1, <2>2, SearchFits
    <3> HIDE DEF found
    <3>2. \A i \in 1 .. Len(memchunks) : found[i] \in Seq(Nat)
      BY <1>1, <3>1, SearchedFacts
    <3> QED  BY <1>1, <2>2, <3>2, WithMatchesFacts
  <2> QED  BY <1>2, <2>1, <2>2
<1> QED  BY <1>1, <1>3, <1>4

LEMMA ChunksTellStep == ASSUME Typed, ChunksTell, Next PROVE ChunksTell'
<1>1. CASE \E a \in Addresses, b \in Byte : Write(a, b)
  BY <1>1 DEF Write, ChunksTell
<1>2. CASE UNCHANGED <<memchunks, changed, mem>>
  BY <1>2 DEF ChunksTell
<1>3. CASE memchunks' = <<>>
  <2>1. Len(<<>>) = 0 /\ 1 .. 0 = {}
    BY SMT
  <2> QED  BY <1>3, <2>1 DEF ChunksTell
<1>4. CASE \/ memproc_get_res
           \/ \E p \in Pattern : memproc_search(p)
           \/ \E p \in Pattern, v \in Byte \cup {NULL} : memscan_search_cond(p, v)
  BY <1>4, ChunksKept DEF ChunksTell, SameChunks
<1>5. CASE DumpRegion
  <2>1. PICK ok \in BOOLEAN :
          memchunks' = Append(memchunks, memchunk_new(Region[next].addr, Region[next].size, ok))
    BY <1>5 DEF DumpRegion
  <2>2. /\ memchunks # NULL /\ memchunks \in Seq(Chunk) /\ next \in 1 .. Len(Region)
        /\ UNCHANGED <<changed, mem>> /\ Len(memchunks) \in Nat
    <3>1. /\ busy = "dump" /\ next <= Len(Region) /\ UNCHANGED <<changed, mem>>
      BY <1>5 DEF DumpRegion, procVars
    <3>2. memchunks # NULL /\ memchunks \in Seq(Chunk) /\ blocks = <<>>
      BY <3>1 DEF Typed, TypeOK, InCall
    <3>3. next \in 1 .. (Len(blocks) + Len(Region) + 1) /\ Len(blocks) = 0
      BY <3>2, EmptySeq DEF Typed, TypeOK
    <3>4. next \in 1 .. Len(Region)
      BY <3>1, <3>3, RegionFacts, SMT
    <3> QED  BY <3>1, <3>2, <3>4, LenProperties
  <2> DEFINE c == memchunk_new(Region[next].addr, Region[next].size, ok)
             n == Len(memchunks)
  <2>3. ASSUME c.read, NEW k \in 1 .. Len(c.buffer)
        PROVE  c.buffer[k] = mem[c.addr + k - 1]
    <3>1. /\ c.addr = Region[next].addr /\ ok
          /\ c.buffer = Read(Region[next].addr, Region[next].size)
      BY <2>3 DEF memchunk_new
    <3>2. /\ Region[next].addr \in Nat /\ Region[next].size \in Nat
          /\ Region[next].addr .. (Region[next].addr + Region[next].size - 1) \subseteq Addresses
      BY <2>2, RegionFacts
    <3>3. mem \in [Addresses -> Byte]
      BY DEF Typed, TypeOK
    <3>4. /\ Len(Read(Region[next].addr, Region[next].size)) = Region[next].size
          /\ \A l \in 1 .. Region[next].size :
               Read(Region[next].addr, Region[next].size)[l] = mem[Region[next].addr + l - 1]
      BY <3>2, <3>3, ReadFacts
    <3> HIDE DEF c
    <3> QED  BY <2>3, <3>1, <3>4
  <2>4. /\ Len(memchunks') = n + 1
        /\ \A i \in 1 .. n : memchunks'[i] = memchunks[i]
        /\ memchunks'[n + 1] = c
    <3> HIDE DEF c
    <3>1. memchunks' = Append(memchunks, c) /\ memchunks \in Seq(Chunk \cup {c})
      <4>1. memchunks \in Seq(Chunk \cup {c})
        BY <2>2, SeqMonotonic
      <4> QED  BY <2>1, <4>1 DEF c
    <3> QED  BY <3>1, AppendProperties
  <2>5. \A i \in 1 .. Len(memchunks') : i = n + 1 \/ i \in 1 .. n
    BY <2>2, <2>4, SMT
  <2> HIDE DEF c, n
  <2>6. ASSUME ~ changed, NEW i \in 1 .. Len(memchunks'), memchunks'[i].read,
               NEW k \in 1 .. Len(memchunks'[i].buffer)
        PROVE  memchunks'[i].buffer[k] = mem'[memchunks'[i].addr + k - 1]
    <3>1. CASE i = n + 1
      BY <2>2, <2>3, <2>4, <2>6, <3>1
    <3>2. CASE i \in 1 .. n
      BY <2>2, <2>4, <2>6, <3>2 DEF ChunksTell, n
    <3> QED  BY <2>5, <3>1, <3>2
  <2> QED  BY <2>2, <2>6 DEF ChunksTell
<1>6. CASE (\E from \in DOMAIN Region : memproc_dump_details(from)) \/ memproc_clear
  BY <1>3, <1>6 DEF memproc_dump_details, memproc_clear
<1>7. CASE memproc_refresh_handle \/ PassRegion \/ DumpEnds \/ memproc_update \/ UpdateBlock \/ UpdateEnds \/ NoChunks
  BY <1>2, <1>7 DEF memproc_refresh_handle, PassRegion, DumpEnds, memproc_update, UpdateBlock, UpdateEnds, NoChunks,
     procVars, chunkVars
<1> QED  BY <1>1, <1>4, <1>5, <1>6, <1>7 DEF Next

LEMMA BlocksTellStep ==
    ASSUME Typed, ChunksTell, BlocksTellMemory, Next
    PROVE  BlocksTellMemory'
<1>1. CASE UNCHANGED <<blocks, of, fresh, mem>>
  BY <1>1 DEF BlocksTellMemory, OneLength, Read
<1>2. CASE fresh' = {}
  BY <1>2 DEF BlocksTellMemory
<1>3. CASE memproc_get_res
  <2>1. PICK behind \in [DOMAIN memchunks -> Behind] : blocks' = BlocksOf(memchunks, behind, mask_len)
    BY <1>3 DEF memproc_get_res
  <2>2. /\ Live /\ of' = asked /\ memchunks # NULL /\ memchunks \in Seq(Chunk) /\ ChunksTyped
        /\ mem' = mem /\ mem \in [Addresses -> Byte]
        /\ fresh' = IF changed THEN {} ELSE {i \in DOMAIN blocks' : blocks'[i].read}
    BY <1>3 DEF memproc_get_res, Typed, TypeOK, Live
  <2>3. DOMAIN blocks' = 1 .. Len(blocks')
    BY <2>1, <2>2, ResultFacts, LenProperties
  <2>4. ASSUME OneLength(asked), ~ changed, NEW j \in 1 .. Len(blocks'), blocks'[j].read
        PROVE  blocks'[j].data = Read(blocks'[j].addr, Len(blocks'[j].data))
    <3> DEFINE len == Len(asked[1].mask)
               b == blocks'[j]
    <3>1. PICK i \in 1 .. Len(memchunks), o \in Nat : TakenFrom(b, memchunks[i], o, len)
      BY <2>1, <2>2, <2>4, ResultTaken
    <3>2. len \in Nat
      BY <2>1, <2>2, <2>4, ResultTaken
    <3> HIDE DEF len, b
    <3>3. b.addr .. (b.addr + len - 1) \subseteq Addresses
      BY <2>2, <3>1, <3>2, TakenInside
    <3>4. memchunks[i] \in Chunk
      BY <2>2, ElementOfSeq
    <3>5. /\ memchunks[i].addr \in Nat /\ Len(memchunks[i].buffer) \in Nat
          /\ b.addr = memchunks[i].addr + o /\ o + len <= Len(memchunks[i].buffer)
          /\ memchunks[i].read = b.read
          /\ b.data \in Seq(Byte) /\ Len(b.data) = len /\ b.addr \in Nat
          /\ \A k \in 1 .. len : b.data[k] = memchunks[i].buffer[o + k]
      BY <3>1, <3>4, ChunkFacts DEF TakenFrom, BlockData
    <3>6. \A k \in 1 .. len : o + k \in 1 .. Len(memchunks[i].buffer)
                                /\ memchunks[i].addr + (o + k) - 1 = b.addr + k - 1
      <4> DEFINE size == Len(memchunks[i].buffer)
                 a == memchunks[i].addr
                 d == b.addr
      <4>1. a \in Nat /\ size \in Nat /\ o \in Nat /\ len \in Nat /\ d = a + o /\ o + len <= size
        BY <3>2, <3>5
      <4> HIDE DEF size, a, d
      <4>2. \A k \in 1 .. len : o + k \in 1 .. size /\ a + (o + k) - 1 = d + k - 1
        BY <4>1, SMT
      <4> QED  BY <4>2 DEF size, a, d
    <3>7. memchunks[i].read
      BY <2>4, <3>5 DEF b
    <3>8. \A k \in 1 .. len : b.data[k] = mem[b.addr + k - 1]
      <4>1. \A k \in 1 .. Len(memchunks[i].buffer) :
              memchunks[i].buffer[k] = mem[memchunks[i].addr + k - 1]
        BY <2>2, <2>4, <3>7 DEF ChunksTell
      <4> SUFFICES ASSUME NEW k \in 1 .. len PROVE b.data[k] = mem[b.addr + k - 1]
        OBVIOUS
      <4>2. memchunks[i].buffer[o + k] = mem[memchunks[i].addr + (o + k) - 1]
        BY <3>6, <4>1
      <4> QED  BY <3>5, <3>6, <4>2
    <3>9. /\ Read(b.addr, len) \in Seq(Byte) /\ Len(Read(b.addr, len)) = len
          /\ \A k \in 1 .. len : Read(b.addr, len)[k] = mem[b.addr + k - 1]
      BY <2>2, <3>2, <3>3, <3>5, ReadFacts
    <3>10. b.data = Read(b.addr, len)
      <4> DEFINE d == b.data
                 e == Read(b.addr, len)
      <4>1. d \in Seq(Byte) /\ e \in Seq(Byte) /\ Len(d) = Len(e) /\ \A k \in 1 .. Len(d) : d[k] = e[k]
        BY <3>5, <3>8, <3>9
      <4> HIDE DEF d, e
      <4>2. d = e
        BY <4>1, SeqEqual
      <4> QED  BY <4>2 DEF d, e
    <3> QED  BY <3>5, <3>10 DEF b
  <2> QED  BY <2>2, <2>3, <2>4 DEF BlocksTellMemory, OneLength, Read
<1>4. CASE UpdateBlock
  <2>1. /\ of' = of /\ mem' = mem
        /\ next \in 1 .. Len(blocks) /\ fresh \subseteq 1 .. Len(blocks)
        /\ \A j \in 1 .. Len(blocks) :
             /\ blocks'[j].addr = blocks[j].addr /\ Len(blocks'[j].data) = Len(blocks[j].data)
             /\ j # next => blocks'[j] = blocks[j]
        /\ \/ blocks' = blocks /\ fresh' = fresh
           \/ /\ blocks'[next].data = Read(blocks[next].addr, Len(blocks[next].data))
              /\ fresh' = fresh \cup {next}
    BY <1>4, UpdateFacts DEF UpdateBlock, Typed, TypeOK
  <2>2. CASE blocks' = blocks /\ fresh' = fresh
    BY <1>1, <2>1, <2>2
  <2>3. CASE /\ blocks'[next].data = Read(blocks[next].addr, Len(blocks[next].data))
             /\ fresh' = fresh \cup {next}
    <3>1. ASSUME OneLength(of), NEW i \in fresh \cup {next}
          PROVE  blocks'[i].data = Read(blocks'[i].addr, Len(blocks'[i].data))
      <4>1. CASE i = next
        BY <2>1, <2>3, <4>1
      <4>2. CASE i # next
        BY <2>1, <3>1, <4>2 DEF BlocksTellMemory
      <4> QED  BY <4>1, <4>2
    <3>2. \A a, n : Read(a, n)' = Read(a, n)
      BY <2>1 DEF Read
    <3> QED  BY <2>1, <2>3, <3>1, <3>2 DEF BlocksTellMemory, OneLength
  <2> QED  BY <2>1, <2>2, <2>3
<1> QED  BY <1>1, <1>2, <1>3, <1>4, BlockSteps

\* A block that is fresh, that is, taken from a chunk of which nothing was written since, or
\* read again by memproc_update since, holds what memory holds at its address.
THEOREM BlocksTellMemoryCorrect == Spec => []BlocksTellMemory
<1>1. Init => ChunksTell /\ BlocksTellMemory
  BY DEF Init, ChunksTell, BlocksTellMemory
<1>2. Typed /\ ChunksTell /\ BlocksTellMemory /\ [Next]_vars => ChunksTell' /\ BlocksTellMemory'
  <2>1. ASSUME UNCHANGED vars, ChunksTell, BlocksTellMemory PROVE ChunksTell' /\ BlocksTellMemory'
    BY <2>1 DEF vars, procVars, chunkVars, ChunksTell, BlocksTellMemory, OneLength, Read
  <2> QED  BY <2>1, ChunksTellStep, BlocksTellStep
<1> QED  BY <1>1, <1>2, TypeCorrect, PTL DEF Spec

-------------------------------------------------------------------------------
(* Searches.                                                                     *)

LEMMA OverrunStep == ASSUME Typed, OverrunOnlyAtTheEnd, Next PROVE OverrunOnlyAtTheEnd'
<1>1. CASE crash' # "overrun"
  BY <1>1 DEF OverrunOnlyAtTheEnd
<1>2. CASE crash' = "overrun"
  <2>1. crash = "none"
    BY DEF Next, Write, memproc_refresh_handle, memproc_dump_details, DumpRegion, PassRegion, DumpEnds, memproc_search,
        memproc_get_res, memproc_update, UpdateBlock, UpdateEnds, memproc_clear, NoChunks,
        memscan_search_cond, Idle
  <2>2. (\E p \in Pattern : memproc_search(p))
           \/ (\E p \in Pattern, v \in Byte \cup {NULL} : memscan_search_cond(p, v))
    BY <1>2, <2>1 DEF Next, Write, memproc_refresh_handle, memproc_dump_details, DumpRegion, PassRegion, DumpEnds,
        memproc_get_res, memproc_update, UpdateBlock, UpdateEnds, memproc_clear, NoChunks
  <2>3. PICK p \in Pattern : memproc_search(p) \/ \E v \in Byte \cup {NULL} : memscan_search_cond(p, v)
    BY <2>2
  <2>4. /\ memchunks' = memchunks /\ asked' = Append(asked, p)
        /\ \E behind \in [DOMAIN memchunks -> Behind] : \E i \in DOMAIN memchunks :
             Overruns(memchunks[i], FoundIn(memchunks, behind, p)[i], p)
    BY <1>2, <2>1, <2>3 DEF memproc_search, memscan_search_cond
  <2>5. memchunks \in Seq(Chunk) /\ DOMAIN memchunks = 1 .. Len(memchunks) /\ asked \in Seq(Pattern)
    BY <2>3, LenProperties DEF memproc_search, memscan_search_cond, Live, Typed, TypeOK, ListsTyped
  <2>6. asked'[Len(asked')] = p
    BY <2>4, <2>5, AppendProperties
  <2>7. PICK behind \in [DOMAIN memchunks -> Behind] : \E i \in DOMAIN memchunks :
             Overruns(memchunks[i], FoundIn(memchunks, behind, p)[i], p)
    BY <2>4
  <2>8. PICK i \in DOMAIN memchunks : Overruns(memchunks[i], FoundIn(memchunks, behind, p)[i], p)
    BY <2>7
  <2> DEFINE c == memchunks[i]
             size == Len(c.buffer)
             s == FoundIn(memchunks, behind, p)[i]
             buffer == c.buffer \o behind[i]
  <2>9. /\ s \in Seq(0 .. (size - 1)) /\ \A k \in 1 .. Len(s) : compare_pattern(buffer, s[k], p)
        /\ c \in Chunk /\ behind[i] \in Behind
    <3>1. FindsAll(s, 0, buffer, size, p) /\ c \in Chunk /\ behind[i] \in Behind
      BY <2>5, FoundFacts
    <3> QED  BY <3>1 DEF FindsAll
  <2>10. s # <<>> /\ s[Len(s)] + Len(p.mask) > size
    BY <2>8 DEF Overruns
  <2>11. /\ c.buffer \in Seq(Byte) /\ size \in Nat /\ behind[i] \in Seq(Byte)
         /\ \A k \in 1 .. size : buffer[k] = c.buffer[k]
         /\ Len(p.mask) \in Nat
    <3>1. /\ c.buffer \in Seq(Byte) /\ size \in Nat /\ behind[i] \in Seq(Byte) /\ Len(p.mask) \in Nat
      BY <2>9, ChunkFacts, PatternFacts
    <3> QED  BY <3>1, BufferFacts
  <2> DEFINE o == s[Len(s)]
  <2>12. o \in 0 .. (size - 1) /\ compare_pattern(buffer, o, p)
    <3> HIDE DEF s, buffer, size
    <3>1. Len(s) \in 1 .. Len(s)
      <4>1. Len(s) \in Nat /\ Len(s) # 0
        BY <2>9, <2>10, EmptySeq, LenProperties
      <4> QED  BY <4>1, SMT
    <3> QED  BY <2>9, <3>1, ElementOfSeq
  <2>13. o + Len(p.mask) > size
    BY <2>10
  <2> HIDE DEF o, buffer
  <2>14. ASSUME NEW k \in 1 .. (size - o), p.mask[k] = "x" PROVE c.buffer[o + k] = p.bytes[k]
    <3>1. k \in 1 .. Len(p.mask) /\ o + k \in 1 .. size
      <4> HIDE DEF size
      <4> QED  BY <2>11, <2>12, <2>13, SMT
    <3>2. buffer[o + k] = p.bytes[k]
      BY <2>12, <2>14, <3>1 DEF compare_pattern
    <3> QED  BY <2>11, <3>1, <3>2
  <2>15. memchunks[i].buffer = c.buffer /\ Len(memchunks[i].buffer) = size
    BY DEF c, size
  <2>16. \E l \in 0 .. (Len(memchunks[i].buffer) - 1) :
           /\ l + Len(p.mask) > Len(memchunks[i].buffer)
           /\ \A k \in 1 .. (Len(memchunks[i].buffer) - l) :
                p.mask[k] = "x" => memchunks[i].buffer[l + k] = p.bytes[k]
    <3> HIDE DEF c, size
    <3> QED  BY <2>12, <2>13, <2>14, <2>15
  <2> QED  BY <2>4, <2>6, <2>16 DEF OverrunOnlyAtTheEnd
<1> QED  BY <1>1, <1>2

\* memproc_search leaves a buffer only for a match that the buffer's end cuts off.
THEOREM OverrunOnlyAtTheEndCorrect == Spec => []OverrunOnlyAtTheEnd
<1>1. Init => OverrunOnlyAtTheEnd
  BY DEF Init, OverrunOnlyAtTheEnd
<1>2. Typed /\ OverrunOnlyAtTheEnd /\ [Next]_vars => OverrunOnlyAtTheEnd'
  <2>1. ASSUME UNCHANGED vars, OverrunOnlyAtTheEnd PROVE OverrunOnlyAtTheEnd'
    BY <2>1 DEF vars, chunkVars, OverrunOnlyAtTheEnd
  <2> QED  BY <2>1, OverrunStep
<1> QED  BY <1>1, <1>2, TypeCorrect, PTL DEF Spec

\* Whether a pattern is at a place depends on the bytes under it alone.
LEMMA ComparedInside ==
    ASSUME NEW s \in Seq(Byte), NEW b \in Seq(Byte), NEW p \in Pattern, NEW o \in Nat,
           o + Len(p.mask) <= Len(s)
    PROVE  compare_pattern(s \o b, o, p) <=> compare_pattern(s, o, p)
<1>1. Len(p.mask) \in Nat /\ Len(s) \in Nat
  BY PatternFacts, LenProperties
<1>2. \A k \in 1 .. Len(p.mask) : o + k \in 1 .. Len(s)
  BY <1>1, SMT
<1>3. \A k \in 1 .. Len(s) : (s \o b)[k] = s[k]
  BY BufferFacts
<1> QED  BY <1>2, <1>3 DEF compare_pattern

\* What is found without an overrun is what a search has to find.
LEMMA SearchedLeftmost ==
    ASSUME NEW chunks \in Seq(Chunk), NEW p \in Pattern, NEW behind \in [DOMAIN chunks -> Behind],
           NEW found, Searched(chunks, behind, p, found), NEW i \in 1 .. Len(chunks)
    PROVE  /\ Leftmost({found[i][k] : k \in 1 .. Len(found[i])}, chunks[i], p)
           /\ \A k \in 1 .. (Len(found[i]) - 1) : found[i][k] < found[i][k + 1]
           /\ \A k \in 1 .. Len(found[i]) : found[i][k] \in 0 .. (Len(chunks[i].buffer) - 1)
<1> DEFINE c == chunks[i]
           s == found[i]
           size == Len(c.buffer)
           len == Len(p.mask)
           buffer == c.buffer \o behind[i]
           S == {s[k] : k \in 1 .. Len(s)}
<1>1. /\ s \in Seq(Nat) /\ Len(s) \in Nat
      /\ \A k \in 1 .. Len(s) : s[k] \in Nat /\ s[k] \in 0 .. (size - 1) /\ s[k] + len <= size
  BY SearchedFacts, LenProperties, ElementOfSeq
<1>2. /\ c.buffer \in Seq(Byte) /\ size \in Nat /\ behind[i] \in Seq(Byte) /\ len \in Nat \ {0}
  <2>1. c \in Chunk /\ behind[i] \in Behind
    BY ElementOfSeq, LenProperties
  <2> QED  BY <2>1, ChunkFacts, PatternFacts
<1>3. /\ \A k \in 1 .. Len(s) : compare_pattern(buffer, s[k], p)
      /\ \A k, l \in 1 .. Len(s) : k < l => s[k] + len <= s[l]
      /\ \A o \in 0 .. (size - 1) : compare_pattern(buffer, o, p) =>
           \E k \in 1 .. Len(s) : s[k] <= o /\ o < s[k] + len
  BY DEF Searched, FindsAll
<1>4. \A o \in Nat : o + len <= size =>
        (compare_pattern(buffer, o, p) <=> compare_pattern(c.buffer, o, p))
  BY <1>2, ComparedInside
<1> HIDE DEF buffer, s, c, size, len
<1>5. \A k \in 1 .. Len(s) : Occurs(c, p, s[k])
  BY <1>1, <1>3, <1>4 DEF Occurs, size, len
<1>6. \A k, l \in 1 .. Len(s) : k < l => Cover(s[k], p) \cap Cover(s[l], p) = {}
  <2> SUFFICES ASSUME NEW k \in 1 .. Len(s), NEW l \in 1 .. Len(s), k < l
               PROVE  Cover(s[k], p) \cap Cover(s[l], p) = {}
    OBVIOUS
  <2>1. s[k] \in Nat /\ s[l] \in Nat /\ s[k] + len <= s[l]
    BY <1>1, <1>3
  <2>2. (s[k] .. (s[k] + len - 1)) \cap (s[l] .. (s[l] + len - 1)) = {}
    BY <1>2, <2>1, SMT
  <2> QED  BY <2>2 DEF Cover, len
<1>7. \A k, l \in 1 .. Len(s) : s[k] # s[l] => Cover(s[k], p) \cap Cover(s[l], p) = {}
  <2>1. \A k, l \in 1 .. Len(s) : k < l \/ l < k \/ k = l
    BY <1>1, SMT
  <2> QED  BY <1>6, <2>1
<1>8. ASSUME NEW o \in 0 .. size, Occurs(c, p, o) PROVE \E q \in S : q <= o /\ o \in Cover(q, p)
  <2>1. o + len <= size /\ compare_pattern(c.buffer, o, p)
    BY <1>8 DEF Occurs, len, size
  <2>2. o \in 0 .. (size - 1) /\ o \in Nat
    BY <1>2, <2>1, SMT
  <2>3. PICK k \in 1 .. Len(s) : s[k] <= o /\ o < s[k] + len
    BY <1>3, <1>4, <2>1, <2>2
  <2>4. o \in s[k] .. (s[k] + len - 1)
    BY <1>1, <1>2, <2>2, <2>3, SMT
  <2> QED  BY <2>3, <2>4 DEF Cover, len
<1>9. Leftmost(S, c, p)
  <2>1. \A o \in S : Occurs(c, p, o)
    BY <1>5
  <2>2. \A o, q \in S : o # q => Cover(o, p) \cap Cover(q, p) = {}
    BY <1>7
  <2> QED  BY <1>8, <2>1, <2>2 DEF Leftmost, size
<1>10. \A k \in 1 .. (Len(s) - 1) : s[k] < s[k + 1]
  <2> SUFFICES ASSUME NEW k \in 1 .. (Len(s) - 1) PROVE s[k] < s[k + 1]
    OBVIOUS
  <2>1. k \in 1 .. Len(s) /\ k + 1 \in 1 .. Len(s) /\ k < k + 1
    BY <1>1, SMT
  <2>2. s[k] \in Nat /\ s[k + 1] \in Nat /\ s[k] + len <= s[k + 1]
    BY <1>1, <1>3, <2>1
  <2> QED  BY <1>2, <2>2, SMT
<1> QED  BY <1>1, <1>9, <1>10 DEF s, c, size, S

\* Nothing has been found while nothing is asked.
LEMMA NothingAsked ==
    ASSUME Typed, memchunks # NULL, asked = <<>>, NEW i \in 1 .. Len(memchunks)
    PROVE  memchunks[i].matches = <<>>
<1>1. memchunks \in Seq(Chunk)
  BY DEF Typed, TypeOK
<1>2. Len(memchunks[i].matches) \in Nat /\ memchunks[i].matches \in Seq(Nat)
  BY <1>1, ElementOfSeq, ChunkFacts
<1>3. Len(asked) = 0 /\ 1 .. 0 = {}
  <2>1. 1 .. 0 = {}
    BY SMT
  <2> QED  BY <2>1, EmptySeq
<1>4. \A k \in 1 .. Len(memchunks[i].matches) : FALSE
  BY <1>3 DEF Typed, MatchesFit
<1>5. Len(memchunks[i].matches) = 0
  BY <1>2, <1>4, SMT
<1> QED  BY <1>2, <1>5, EmptySeq

\* With nothing found before, what is found is all there is.
LEMMA FirstSearch ==
    ASSUME Typed, memchunks # NULL, asked = <<>>, NEW p \in Pattern,
           NEW behind \in [DOMAIN memchunks -> Behind],
           NEW found, Searched(memchunks, behind, p, found)
    PROVE  LET w == WithMatches(memchunks, found)
           IN  /\ SameChunks(w, memchunks)
               /\ \A i \in 1 .. Len(memchunks) : w[i].matches = found[i] /\ found[i] \in Seq(Nat)
<1>1. memchunks \in Seq(Chunk)
  BY DEF Typed, TypeOK
<1>2. \A i \in 1 .. Len(memchunks) : found[i] \in Seq(Nat)
  BY <1>1, SearchedFacts
<1>3. \A i \in 1 .. Len(memchunks) : <<>> \o found[i] = found[i]
  BY <1>2, ConcatEmptySeq
<1> QED  BY <1>1, <1>2, <1>3, WithMatchesFacts, NothingAsked

LEMMA LeftmostStep == ASSUME Typed, MatchesLeftmost, Next PROVE MatchesLeftmost'
<1>1. CASE UNCHANGED <<memchunks, freed, asked>> /\ (crash = "none" \/ crash' = crash)
  BY <1>1 DEF MatchesLeftmost, Live
<1>2. CASE asked' = <<>> \/ crash' # "none"
  <2>1. Len(<<>>) # 1
    BY EmptySeq
  <2> QED  BY <1>2, <2>1 DEF MatchesLeftmost
<1>3. ASSUME NEW p \in Pattern, memproc_search(p) PROVE MatchesLeftmost'
  <2>1. PICK behind \in [DOMAIN memchunks -> Behind] :
          LET found == FoundIn(memchunks, behind, p)
          IN  IF \E i \in DOMAIN memchunks : Overruns(memchunks[i], found[i], p)
              THEN crash' = "overrun" /\ UNCHANGED memchunks
              ELSE memchunks' = WithMatches(memchunks, found) /\ UNCHANGED crash
    BY <1>3 DEF memproc_search
  <2> DEFINE found == FoundIn(memchunks, behind, p)
  <2>2. /\ memchunks # NULL /\ memchunks \in Seq(Chunk) /\ asked' = Append(asked, p)
        /\ DOMAIN memchunks = 1 .. Len(memchunks) /\ asked \in Seq(Pattern)
    BY <1>3, LenProperties DEF memproc_search, Live, Typed, TypeOK, ListsTyped
  <2>3. CASE \E i \in DOMAIN memchunks : Overruns(memchunks[i], found[i], p)
    <3>1. crash' = "overrun"
      BY <2>1, <2>3
    <3> QED  BY <1>2, <3>1
  <2>4. CASE ~ \E i \in DOMAIN memchunks : Overruns(memchunks[i], found[i], p)
    <3>1. Searched(memchunks, behind, p, found) /\ memchunks' = WithMatches(memchunks, found)
      BY <2>1, <2>2, <2>4, SearchFits
    <3> HIDE DEF found
    <3> SUFFICES ASSUME Len(asked') = 1 PROVE MatchesLeftmost'
      BY DEF MatchesLeftmost
    <3>3. asked = <<>> /\ asked'[1] = p
      <4>1. Len(asked') = Len(asked) + 1 /\ Len(asked) \in Nat /\ asked'[Len(asked) + 1] = p
        BY <2>2, AppendProperties, LenProperties
      <4>2. Len(asked) = 0 /\ 0 + 1 = 1
        <5>1. \A n \in Nat : n + 1 = 1 => n = 0
          BY SMT
        <5> QED  BY <4>1, <5>1
      <4> QED  BY <2>2, <4>1, <4>2, EmptySeq
    <3>4. /\ SameChunks(memchunks', memchunks)
          /\ \A i \in 1 .. Len(memchunks) : memchunks'[i].matches = found[i] /\ found[i] \in Seq(Nat)
      BY <2>2, <3>1, <3>3, FirstSearch
    <3>5. DOMAIN memchunks' = 1 .. Len(memchunks)
      BY <3>4, LenProperties DEF SameChunks
    <3>6. ASSUME NEW i \in 1 .. Len(memchunks)
          PROVE  LET m == memchunks'[i].matches
                 IN  /\ Leftmost({m[k] : k \in DOMAIN m}, memchunks'[i], p)
                     /\ \A k \in 1 .. (Len(m) - 1) : m[k] < m[k + 1]
      <4>1. memchunks'[i].buffer = memchunks[i].buffer /\ memchunks'[i].matches = found[i]
        BY <3>4 DEF SameChunks
      <4>2. DOMAIN found[i] = 1 .. Len(found[i])
        BY <3>4, LenProperties
      <4>3. /\ Leftmost({found[i][k] : k \in 1 .. Len(found[i])}, memchunks[i], p)
            /\ \A k \in 1 .. (Len(found[i]) - 1) : found[i][k] < found[i][k + 1]
        BY <2>2, <3>1, SearchedLeftmost
      <4>4. Leftmost({found[i][k] : k \in 1 .. Len(found[i])}, memchunks'[i], p)
        BY <4>1, <4>3 DEF Leftmost, Occurs
      <4> QED  BY <4>1, <4>2, <4>3, <4>4
    <3> QED  BY <3>3, <3>5, <3>6 DEF MatchesLeftmost
  <2> QED  BY <2>3, <2>4
<1>4. CASE DumpRegion
  BY <1>2, <1>4 DEF Typed, InCall, DumpRegion
<1>5. CASE \/ (\E from \in DOMAIN Region : memproc_dump_details(from)) \/ memproc_clear \/ memproc_get_res
           \/ (\E p \in Pattern, v \in Byte \cup {NULL} : memscan_search_cond(p, v))
  BY <1>2, <1>5 DEF memproc_dump_details, memproc_clear, memproc_get_res, memscan_search_cond
<1>6. CASE \/ (\E a \in Addresses, b \in Byte : Write(a, b))
           \/ memproc_refresh_handle \/ PassRegion \/ DumpEnds \/ memproc_update \/ UpdateBlock \/ UpdateEnds \/ NoChunks
  BY <1>1, <1>6 DEF Write, memproc_refresh_handle, PassRegion, DumpEnds, memproc_update, UpdateBlock, UpdateEnds, NoChunks,
     Idle, chunkVars
<1> QED  BY <1>3, <1>4, <1>5, <1>6 DEF Next

\* After one search, the matches of a chunk are its leftmost occurrences without overlap,
\* each once and in order (memproc_search).
THEOREM MatchesLeftmostCorrect == Spec => []MatchesLeftmost
<1>1. Init => MatchesLeftmost
  BY EmptySeq DEF Init, MatchesLeftmost
<1>2. Typed /\ MatchesLeftmost /\ [Next]_vars => MatchesLeftmost'
  <2>1. ASSUME UNCHANGED vars, MatchesLeftmost PROVE MatchesLeftmost'
    BY <2>1 DEF vars, chunkVars, MatchesLeftmost, Live
  <2> QED  BY <2>1, LeftmostStep
<1> QED  BY <1>1, <1>2, TypeCorrect, PTL DEF Spec

-------------------------------------------------------------------------------
(* The groups under the runs of '?'.                                             *)

\* Of finitely many pairs with different first parts, one has just n before it.
LEMMA PairWithBefore ==
    ASSUME NEW S, IsFiniteSet(S), \A r \in S : r[1] \in Nat,
           \A r, q \in S : r[1] = q[1] => r = q,
           NEW n \in 1 .. Cardinality(S)
    PROVE  \E r \in S : Cardinality({q \in S : q[1] < r[1]}) = n - 1
<1> DEFINE B(r) == {q \in S : q[1] < r[1]}
           T == {i \in Nat : i < Cardinality(S) => \E r \in S : Cardinality(B(r)) = i}
           m == Cardinality(S)
<1>1. m \in Nat /\ \A r \in S : IsFiniteSet(B(r)) /\ Cardinality(B(r)) \in Nat
  <2>1. \A r \in S : B(r) \in SUBSET S
    OBVIOUS
  <2> HIDE DEF B
  <2> QED  BY <2>1, FS_Subset, FS_CardinalityType
<1>2. ASSUME NEW A \in SUBSET S, A # {} PROVE \E r \in A : \A q \in A : r[1] <= q[1]
  <2> DEFINE firsts == {q[1] : q \in A}
  <2>1. firsts \subseteq Nat /\ firsts # {}
    BY <1>2
  <2>2. PICK x \in firsts : \A y \in firsts : x <= y
    <3> HIDE DEF firsts
    <3> QED  BY <2>1, LeastNatural
  <2> QED  BY <2>2
<1>3. 0 \in T
  <2> SUFFICES ASSUME 0 < Cardinality(S) PROVE \E r \in S : Cardinality(B(r)) = 0
    OBVIOUS
  <2>1. S # {}
    BY FS_EmptySet
  <2>2. PICK r \in S : \A q \in S : r[1] <= q[1]
    BY <1>2, <2>1
  <2>3. \A q \in S : ~ (q[1] < r[1])
    BY <2>2
  <2>4. B(r) = {}
    BY <2>3
  <2> QED  BY <2>4, FS_EmptySet
<1>4. ASSUME NEW i \in 0 .. (m - 1), i \in T PROVE i + 1 \in T
  <2> SUFFICES ASSUME i + 1 < m PROVE \E t \in S : Cardinality(B(t)) = i + 1
    BY <1>1
  <2>1. PICK r \in S : Cardinality(B(r)) = i
    <3>1. i \in Nat /\ i < m
      BY <1>1, SMT
    <3> QED  BY <1>4, <3>1
  <2> DEFINE A == {q \in S : r[1] < q[1]}
             U == B(r) \cup {r}
  <2>2. IsFiniteSet(B(r)) /\ r \notin B(r)
    BY <1>1
  <2>3. Cardinality(U) = i + 1
    <3> HIDE DEF B
    <3> QED  BY <2>1, <2>2, FS_AddElement
  <2>4. A # {}
    <3> SUFFICES ASSUME A = {} PROVE FALSE
      OBVIOUS
    <3>1. \A q \in S : q[1] < r[1] \/ q[1] = r[1]
      OBVIOUS
    <3>2. S = U
      BY <3>1
    <3> QED  BY <1>1, <2>3, <3>2
  <2>5. PICK t \in A : \A q \in A : t[1] <= q[1]
    BY <1>2, <2>4
  <2>6. \A q \in S : q[1] < t[1] <=> (q[1] < r[1] \/ q[1] = r[1])
    BY <2>5
  <2>7. B(t) = U
    BY <2>6
  <2> QED  BY <2>3, <2>7
<1>5. 0 .. m \subseteq T
  <2> HIDE DEF T, m
  <2> QED  BY <1>1, <1>3, <1>4, UpTo
<1>6. n - 1 \in 0 .. m /\ n - 1 < m
  BY <1>1, SMT
<1> QED  BY <1>5, <1>6

\* The runs of '?' in a mask.
RunsOf(mask) ==
    {run \in (1 .. Len(mask)) \X (1 .. Len(mask)) :
        /\ run[1] <= run[2]
        /\ \A k \in run[1] .. run[2] : mask[k] = "?"
        /\ run[1] = 1 \/ mask[run[1] - 1] # "?"
        /\ run[2] = Len(mask) \/ mask[run[2] + 1] # "?"}

LEMMA RunsFacts ==
    ASSUME NEW mask, Len(mask) \in Nat
    PROVE  /\ IsFiniteSet(RunsOf(mask)) /\ Cardinality(RunsOf(mask)) \in Nat
           /\ \A r \in RunsOf(mask) :
                r[1] \in 1 .. Len(mask) /\ r[2] \in 1 .. Len(mask) /\ r[1] <= r[2]
           /\ \A r, q \in RunsOf(mask) : r[1] = q[1] => r = q
<1>1. IsFiniteSet(RunsOf(mask)) /\ Cardinality(RunsOf(mask)) \in Nat
  <2> DEFINE I == 1 .. Len(mask)
  <2>1. IsFiniteSet(I)
    BY FS_Interval
  <2>2. RunsOf(mask) \in SUBSET (I \X I)
    BY DEF RunsOf
  <2> HIDE DEF I
  <2> QED  BY <2>1, <2>2, FS_Product, FS_Subset, FS_CardinalityType
<1>2. ASSUME NEW r \in RunsOf(mask)
      PROVE  /\ r[1] \in 1 .. Len(mask) /\ r[2] \in 1 .. Len(mask) /\ r[1] <= r[2]
             /\ r = <<r[1], r[2]>>
             /\ \A k \in r[1] .. r[2] : mask[k] = "?"
             /\ r[2] = Len(mask) \/ mask[r[2] + 1] # "?"
  BY DEF RunsOf
<1>3. ASSUME NEW r \in RunsOf(mask), NEW q \in RunsOf(mask), r[1] = q[1] PROVE ~ (r[2] < q[2])
  <2> SUFFICES ASSUME r[2] < q[2] PROVE FALSE
    OBVIOUS
  <2>1. /\ r[1] \in 1 .. Len(mask) /\ r[2] \in 1 .. Len(mask) /\ q[2] \in 1 .. Len(mask)
        /\ r[1] <= r[2]
    BY <1>2
  <2>2. r[2] # Len(mask) /\ r[2] + 1 \in q[1] .. q[2]
    <3> DEFINE a == r[1]
               b == r[2]
               c == q[2]
    <3>1. a \in 1 .. Len(mask) /\ b \in 1 .. Len(mask) /\ c \in 1 .. Len(mask) /\ a <= b /\ b < c
      BY <2>1
    <3> HIDE DEF a, b, c
    <3>2. b # Len(mask) /\ b + 1 \in a .. c
      BY <3>1, SMT
    <3> QED  BY <1>3, <3>2 DEF a, b, c
  <2>3. mask[r[2] + 1] = "?"
    BY <1>2, <2>2
  <2>4. mask[r[2] + 1] # "?"
    BY <1>2, <2>2
  <2> QED  BY <2>3, <2>4
<1>4. ASSUME NEW r \in RunsOf(mask), NEW q \in RunsOf(mask), r[1] = q[1] PROVE r = q
  <2>1. ~ (r[2] < q[2]) /\ ~ (q[2] < r[2])
    BY <1>3, <1>4
  <2>2. r[2] \in 1 .. Len(mask) /\ q[2] \in 1 .. Len(mask)
    BY <1>2
  <2>3. r[2] = q[2]
    BY <2>1, <2>2, SMT
  <2> QED  BY <1>2, <1>4, <2>3
<1> QED  BY <1>1, <1>2, <1>4

\* scan_search returns a sequence of groups of bytes, one for each run.
LEMMA GroupsFacts ==
    ASSUME NEW mask, Len(mask) \in Nat, NEW data \in Seq(Byte), Len(mask) <= Len(data)
    PROVE  /\ scan_search(data, mask) \in Seq(Seq(Byte))
           /\ Len(scan_search(data, mask)) = Cardinality(RunsOf(mask))
<1> DEFINE m == Cardinality(RunsOf(mask))
           Nth(n) == CHOOSE run \in RunsOf(mask) :
                         Cardinality({r \in RunsOf(mask) : r[1] < run[1]}) = n - 1
           g == [n \in 1 .. m |-> SubSeq(data, Nth(n)[1], Nth(n)[2])]
<1>1. scan_search(data, mask) = g
  BY DEF scan_search, RunsOf
<1>2. m \in Nat /\ Len(data) \in Nat
  BY RunsFacts, LenProperties
<1>3. ASSUME NEW n \in 1 .. m PROVE Nth(n) \in RunsOf(mask)
  <2>1. \E run \in RunsOf(mask) : Cardinality({r \in RunsOf(mask) : r[1] < run[1]}) = n - 1
    <3>1. \A r \in RunsOf(mask) : r[1] \in Nat
      BY RunsFacts
    <3> QED  BY <3>1, RunsFacts, PairWithBefore
  <2> QED  BY <2>1
<1> HIDE DEF Nth
<1>4. ASSUME NEW n \in 1 .. m PROVE SubSeq(data, Nth(n)[1], Nth(n)[2]) \in Seq(Byte)
  <2>1. Nth(n)[1] \in 1 .. Len(mask) /\ Nth(n)[2] \in 1 .. Len(mask)
    BY <1>3, RunsFacts
  <2> DEFINE a == Nth(n)[1]
             b == Nth(n)[2]
  <2> HIDE DEF a, b
  <2>2. a \in 1 .. Len(mask) /\ b \in 1 .. Len(mask)
    BY <2>1 DEF a, b
  <2>3. a \in Int /\ b \in Int /\ \A i \in a .. b : i \in 1 .. Len(data)
    BY <1>2, <2>2, SMT
  <2>4. \A i \in a .. b : data[i] \in Byte
    BY <2>3, ElementOfSeq
  <2>5. SubSeq(data, a, b) \in Seq(Byte)
    BY <2>3, <2>4, SubSeqProperties
  <2> QED  BY <2>5 DEF a, b
<1>5. g \in [1 .. m -> Seq(Byte)]
  BY <1>4
<1> HIDE DEF g, m
<1>6. g \in Seq(Seq(Byte)) /\ Len(g) = m
  BY <1>2, <1>5, IsSeq
<1> QED  BY <1>1, <1>6 DEF m

\* There is but one set of leftmost occurrences: the least offset in which two of them
\* differed would lie under an earlier one of both.
LEMMA LeftmostUnique ==
    ASSUME NEW c, NEW p, Len(p.mask) \in Nat \ {0}, Len(c.buffer) \in Nat,
           NEW S, NEW T, S \subseteq Nat, T \subseteq Nat, Leftmost(S, c, p), Leftmost(T, c, p)
    PROVE  S = T
<1> DEFINE D == (S \ T) \cup (T \ S)
<1> SUFFICES ASSUME D # {} PROVE FALSE
  OBVIOUS
<1>1. PICK o \in D : \A q \in D : o <= q
  <2>1. D \subseteq Nat
    OBVIOUS
  <2> HIDE DEF D
  <2> QED  BY <2>1, LeastNatural
<1>2. ASSUME NEW X \in SUBSET Nat, NEW Y \in SUBSET Nat, Leftmost(X, c, p), Leftmost(Y, c, p),
             o \in X, o \notin Y, \A q \in Y : q \notin X => o <= q
      PROVE  FALSE
  <2>1. Occurs(c, p, o)
    BY <1>2 DEF Leftmost
  <2>2. o \in 0 .. Len(c.buffer)
    <3>1. o + Len(p.mask) <= Len(c.buffer) /\ o \in Nat
      BY <1>2, <2>1 DEF Occurs
    <3> QED  BY <3>1, SMT
  <2>3. PICK q \in Y : q <= o /\ o \in Cover(q, p)
    BY <1>2, <2>1, <2>2 DEF Leftmost
  <2>4. q # o /\ q \in Nat /\ o \in Nat
    BY <1>2
  <2>5. q \in X
    <3>1. ~ (o <= q)
      BY <2>3, <2>4, SMT
    <3> QED  BY <1>2, <3>1
  <2>6. o \in Cover(o, p)
    <3>1. o \in o .. (o + Len(p.mask) - 1)
      BY <2>4, SMT
    <3> QED  BY <3>1 DEF Cover
  <2> QED  BY <1>2, <2>3, <2>4, <2>5, <2>6 DEF Leftmost
<1>3. CASE o \in S \ T
  BY <1>1, <1>2, <1>3
<1>4. CASE o \in T \ S
  BY <1>1, <1>2, <1>4
<1> QED  BY <1>3, <1>4

-------------------------------------------------------------------------------
(* memscan_search_cond.                                                          *)

Sought(c, p) == CHOOSE S \in SUBSET (0 .. (Len(c.buffer) - 1)) : Leftmost(S, c, p)

\* The groups at an offset, and those of all leftmost occurrences in the chunks.
GroupsOf(c, o, p) == scan_search(SubSeq(c.buffer, o + 1, o + Len(p.mask)), p.mask)
GroupsAt(chunks, p) ==
    UNION {{GroupsOf(chunks[i], o, p) : o \in Sought(chunks[i], p)} : i \in DOMAIN chunks}

\* The groups of one of them that the condition accepts, NULL if there is none.
IsAnswer(groups, chunks, p, v) ==
    LET Good == {g \in GroupsAt(chunks, p) : Accepts(v, g)}
    IN  IF groups = NULL THEN Good = {} ELSE groups \in Good

\* The occurrences sought are those found.
LEMMA SoughtFacts ==
    ASSUME NEW chunks \in Seq(Chunk), NEW p \in Pattern, NEW behind \in [DOMAIN chunks -> Behind],
           NEW found, Searched(chunks, behind, p, found), NEW i \in 1 .. Len(chunks),
           NEW c, c.buffer = chunks[i].buffer
    PROVE  Sought(c, p) = {found[i][k] : k \in 1 .. Len(found[i])}
<1> DEFINE S == {found[i][k] : k \in 1 .. Len(found[i])}
<1>1. /\ Leftmost(S, chunks[i], p)
      /\ \A k \in 1 .. Len(found[i]) : found[i][k] \in 0 .. (Len(c.buffer) - 1)
  BY SearchedLeftmost
<1>2. Len(c.buffer) \in Nat /\ Len(p.mask) \in Nat \ {0}
  <2>1. chunks[i] \in Chunk
    BY ElementOfSeq
  <2> QED  BY <2>1, ChunkFacts, PatternFacts
<1>3. S \in SUBSET (0 .. (Len(c.buffer) - 1))
  BY <1>1
<1> HIDE DEF S
<1>4. Leftmost(S, c, p)
  BY <1>1 DEF Leftmost, Occurs
<1>5. Sought(c, p) \in SUBSET (0 .. (Len(c.buffer) - 1)) /\ Leftmost(Sought(c, p), c, p)
  BY <1>3, <1>4 DEF Sought
<1>6. 0 .. (Len(c.buffer) - 1) \subseteq Nat
  BY SMT
<1>7. Sought(c, p) \subseteq Nat /\ S \subseteq Nat
  BY <1>3, <1>5, <1>6
<1>8. Sought(c, p) = S
  BY <1>2, <1>4, <1>5, <1>7, LeftmostUnique
<1> QED  BY <1>8 DEF S

\* The first result accepted is a result, and there is one if any is accepted.
LEMMA FirstAcceptedFacts ==
    ASSUME NEW groups, NEW n \in Nat, DOMAIN groups = 1 .. n, NEW v
    PROVE  \/ FirstAccepted(v, groups) = NULL /\ \A j \in 1 .. n : ~ Accepts(v, groups[j])
           \/ \E j \in 1 .. n : FirstAccepted(v, groups) = groups[j] /\ Accepts(v, groups[j])
<1> DEFINE good == {j \in DOMAIN groups : Accepts(v, groups[j])}
<1>1. FirstAccepted(v, groups) = IF good = {} THEN NULL ELSE groups[Min(good)]
  BY DEF FirstAccepted
<1>2. ASSUME good # {} PROVE Min(good) \in good
  <2>1. good \subseteq Nat
    BY SMT
  <2>2. \E j \in good : \A l \in good : j <= l
    <3> HIDE DEF good
    <3> QED  BY <1>2, <2>1, LeastNatural
  <2> HIDE DEF good
  <2> QED  BY <2>2 DEF Min
<1>3. CASE good = {}
  BY <1>1, <1>3
<1>4. CASE good # {}
  <2>1. FirstAccepted(v, groups) = groups[Min(good)] /\ Min(good) \in good
    BY <1>1, <1>2, <1>4
  <2>2. PICK j \in good : j = Min(good)
    BY <2>1
  <2> QED  BY <2>1, <2>2
<1> QED  BY <1>3, <1>4

\* One result for each occurrence found, its groups what is under the runs there.
OneForEach(results, chunks, found, p) ==
    /\ DOMAIN results = 1 .. Len(results) /\ Len(results) \in Nat
    /\ \A j \in 1 .. Len(results) :
         \E i \in 1 .. Len(chunks) : \E k \in 1 .. Len(found[i]) :
           scan_search(results[j].data, p.mask) = GroupsOf(chunks[i], found[i][k], p)
    /\ \A i \in 1 .. Len(chunks) : \A k \in 1 .. Len(found[i]) :
         /\ GroupsOf(chunks[i], found[i][k], p) \in Seq(Seq(Byte))
         /\ \E j \in 1 .. Len(results) :
              scan_search(results[j].data, p.mask) = GroupsOf(chunks[i], found[i][k], p)

LEMMA ResultGroups ==
    ASSUME NEW chunks \in Seq(Chunk), NEW p \in Pattern, NEW behind \in [DOMAIN chunks -> Behind],
           NEW found, Searched(chunks, behind, p, found),
           NEW w, SameChunks(w, chunks), \A i \in 1 .. Len(chunks) : w[i].matches = found[i]
    PROVE  OneForEach(BlocksOf(w, behind, Len(p.mask)), chunks, found, p)
<1> DEFINE len == Len(p.mask)
           results == BlocksOf(w, behind, len)
           G(i, o) == GroupsOf(chunks[i], o, p)
<1>1. /\ Len(w) = Len(chunks) /\ Len(w) \in Nat
      /\ \A i \in 1 .. Len(w) : w[i] \in Chunk /\ w[i].buffer = chunks[i].buffer /\ behind[i] \in Behind
  <2>1. w \in Seq(Chunk) /\ DOMAIN chunks = 1 .. Len(chunks)
    BY LenProperties DEF SameChunks
  <2> QED  BY <2>1, ElementOfSeq, LenProperties DEF SameChunks
<1>2. len \in Nat \ {0} /\ \A b \in Behind : b \in Seq(Byte) /\ len <= Len(b)
  BY PatternFacts
<1>3. ASSUME NEW i \in 1 .. Len(w), NEW k \in 1 .. Len(w[i].matches)
      PROVE  /\ Block(w[i], behind[i], len, w[i].matches[k]) \in BlockData
             /\ scan_search(Block(w[i], behind[i], len, w[i].matches[k]).data, p.mask)
                  = G(i, found[i][k])
             /\ G(i, found[i][k]) \in Seq(Seq(Byte))
  <2> DEFINE o == found[i][k]
             b == Block(w[i], behind[i], len, o)
  <2>1. o \in 0 .. (Len(w[i].buffer) - 1) /\ o + len <= Len(w[i].buffer)
    BY <1>1, <1>3, SearchedFacts
  <2> HIDE DEF o, len
  <2>2. /\ b \in BlockData /\ Len(b.data) = len
        /\ b.data = SubSeq(w[i].buffer, o + 1, o + len)
    BY <1>1, <1>2, <2>1, BlockFacts
  <2> HIDE DEF b
  <2>3. b.data \in Seq(Byte)
    BY <2>2 DEF BlockData
  <2>4. scan_search(b.data, p.mask) \in Seq(Seq(Byte))
    <3>1. Len(p.mask) \in Nat /\ Len(p.mask) <= Len(b.data)
      BY <1>2, <2>2, SMT DEF len
    <3> QED  BY <2>3, <3>1, GroupsFacts
  <2>5. b.data = SubSeq(chunks[i].buffer, o + 1, o + len)
    BY <1>1, <2>2
  <2> QED  BY <1>1, <2>2, <2>4, <2>5 DEF b, o, len, GroupsOf
<1>4. \A i \in 1 .. Len(w) : Len(w[i].matches) \in Nat
  BY <1>1, ChunkFacts
<1> HIDE DEF len, G
<1>5. /\ results \in Seq(BlockData)
      /\ \A j \in 1 .. Len(results) :
           \E i \in 1 .. Len(w) : \E k \in 1 .. Len(w[i].matches) :
             results[j] = Block(w[i], behind[i], len, w[i].matches[k])
      /\ \A i \in 1 .. Len(w) : \A k \in 1 .. Len(w[i].matches) :
           \E j \in 1 .. Len(results) :
             results[j] = Block(w[i], behind[i], len, w[i].matches[k])
  <2>1. \A i \in 1 .. Len(w) :
          /\ Len(w[i].matches) \in Nat
          /\ \A k \in 1 .. Len(w[i].matches) :
               Block(w[i], behind[i], len, w[i].matches[k]) \in BlockData
    BY <1>3, <1>4
  <2>2. Len(w) \in Nat
    BY <1>1
  <2>3. Blockable(BlockData, w, behind, len)
    BY <2>1, <2>2 DEF Blockable
  <2>4. MadeOf(BlockData, BlocksOf(w, behind, len), w, behind, len)
    BY <2>3, BlocksOfFacts
  <2> QED  BY <2>4 DEF MadeOf
<1> HIDE DEF results
<1>6. DOMAIN results = 1 .. Len(results) /\ Len(results) \in Nat
  BY <1>5, LenProperties
<1>7. \A j \in 1 .. Len(results) :
        \E i \in 1 .. Len(chunks) : \E k \in 1 .. Len(found[i]) :
          scan_search(results[j].data, p.mask) = G(i, found[i][k])
  <2> SUFFICES ASSUME NEW j \in 1 .. Len(results)
               PROVE  \E i \in 1 .. Len(chunks) : \E k \in 1 .. Len(found[i]) :
                        scan_search(results[j].data, p.mask) = G(i, found[i][k])
    OBVIOUS
  <2>1. PICK i \in 1 .. Len(w) : \E k \in 1 .. Len(w[i].matches) :
          results[j] = Block(w[i], behind[i], len, w[i].matches[k])
    BY <1>5
  <2>2. PICK k \in 1 .. Len(w[i].matches) :
          results[j] = Block(w[i], behind[i], len, w[i].matches[k])
    BY <2>1
  <2>3. scan_search(results[j].data, p.mask) = G(i, found[i][k])
    BY <1>3, <2>2
  <2>4. w[i].matches = found[i] /\ i \in 1 .. Len(chunks)
    BY <1>1
  <2> QED  BY <2>2, <2>3, <2>4
<1>8. ASSUME NEW i \in 1 .. Len(chunks), NEW k \in 1 .. Len(found[i])
      PROVE  /\ G(i, found[i][k]) \in Seq(Seq(Byte))
             /\ \E j \in 1 .. Len(results) :
                  scan_search(results[j].data, p.mask) = G(i, found[i][k])
  <2>1. i \in 1 .. Len(w) /\ k \in 1 .. Len(w[i].matches)
    BY <1>1
  <2>2. PICK j \in 1 .. Len(results) : results[j] = Block(w[i], behind[i], len, w[i].matches[k])
    BY <1>5, <2>1
  <2> QED  BY <1>3, <2>1, <2>2
<1>9. OneForEach(results, chunks, found, p)
  BY <1>6, <1>7, <1>8 DEF G, OneForEach
<1> QED  BY <1>9 DEF results, len

\* What memscan_search_cond returns is an answer, and the chunks stay what they are.
LEMMA CondFacts ==
    ASSUME NEW chunks \in Seq(Chunk), NEW p \in Pattern, NEW behind \in [DOMAIN chunks -> Behind],
           NEW found, Searched(chunks, behind, p, found),
           NEW w, SameChunks(w, chunks), \A i \in 1 .. Len(chunks) : w[i].matches = found[i],
           NEW new, SameChunks(new, chunks), NEW v, NEW groups,
           groups = [j \in DOMAIN BlocksOf(w, behind, Len(p.mask)) |->
                        scan_search(BlocksOf(w, behind, Len(p.mask))[j].data, p.mask)]
    PROVE  IsAnswer(FirstAccepted(v, groups), new, p, v)
<1> DEFINE results == BlocksOf(w, behind, Len(p.mask))
           n == Len(results)
<1>1. OneForEach(results, chunks, found, p)
  BY ResultGroups
<1> HIDE DEF results
<1>2. /\ DOMAIN groups = 1 .. n /\ n \in Nat
      /\ \A j \in 1 .. n : groups[j] = scan_search(results[j].data, p.mask)
  BY <1>1 DEF OneForEach, results
<1> HIDE DEF n
<1>3. /\ DOMAIN new = 1 .. Len(chunks)
      /\ \A i \in 1 .. Len(chunks) : new[i].buffer = chunks[i].buffer
  <2>1. DOMAIN new = 1 .. Len(new)
    BY LenProperties DEF SameChunks
  <2> QED  BY <2>1 DEF SameChunks
<1>4. ASSUME NEW i \in 1 .. Len(chunks)
      PROVE  /\ Sought(new[i], p) = {found[i][k] : k \in 1 .. Len(found[i])}
             /\ \A o : GroupsOf(new[i], o, p) = GroupsOf(chunks[i], o, p)
  <2>1. new[i].buffer = chunks[i].buffer
    BY <1>3
  <2>2. Sought(new[i], p) = {found[i][k] : k \in 1 .. Len(found[i])}
    BY <2>1, SoughtFacts
  <2> QED  BY <2>1, <2>2 DEF GroupsOf
<1>5. ASSUME NEW g \in GroupsAt(new, p)
      PROVE  /\ g \in Seq(Seq(Byte))
             /\ \E j \in 1 .. n : g = groups[j]
  <2>1. PICK i \in 1 .. Len(chunks) : \E o \in Sought(new[i], p) : g = GroupsOf(new[i], o, p)
    BY <1>3 DEF GroupsAt
  <2> DEFINE S == Sought(new[i], p)
  <2>2. PICK o \in S : g = GroupsOf(new[i], o, p)
    BY <2>1
  <2>3. S = {found[i][k] : k \in 1 .. Len(found[i])} /\ g = GroupsOf(chunks[i], o, p)
    BY <1>4, <2>2
  <2> HIDE DEF S
  <2>4. PICK k \in 1 .. Len(found[i]) : o = found[i][k]
    BY <2>3
  <2>5. g = GroupsOf(chunks[i], found[i][k], p)
    BY <2>3, <2>4
  <2>6. /\ g \in Seq(Seq(Byte))
        /\ \E j \in 1 .. n : scan_search(results[j].data, p.mask) = g
    BY <1>1, <2>5 DEF OneForEach, n
  <2> QED  BY <1>2, <2>6
<1>6. ASSUME NEW j \in 1 .. n PROVE groups[j] \in GroupsAt(new, p)
  <2>1. PICK i \in 1 .. Len(chunks) : \E k \in 1 .. Len(found[i]) :
           scan_search(results[j].data, p.mask) = GroupsOf(chunks[i], found[i][k], p)
    BY <1>1 DEF OneForEach, n
  <2>2. PICK k \in 1 .. Len(found[i]) :
           scan_search(results[j].data, p.mask) = GroupsOf(chunks[i], found[i][k], p)
    BY <2>1
  <2>3. found[i][k] \in Sought(new[i], p) /\ groups[j] = GroupsOf(new[i], found[i][k], p)
    BY <1>2, <1>4, <2>2
  <2> DEFINE at == {GroupsOf(new[i], o, p) : o \in Sought(new[i], p)}
  <2>4. groups[j] \in at
    BY <2>3
  <2>5. at \in {{GroupsOf(new[l], o, p) : o \in Sought(new[l], p)} : l \in DOMAIN new}
    BY <1>3
  <2> HIDE DEF at
  <2> QED  BY <2>4, <2>5 DEF GroupsAt
<1>7. CASE FirstAccepted(v, groups) = NULL /\ \A j \in 1 .. n : ~ Accepts(v, groups[j])
  BY <1>5, <1>7 DEF IsAnswer
<1>8. ASSUME NEW j \in 1 .. n, FirstAccepted(v, groups) = groups[j], Accepts(v, groups[j])
      PROVE  IsAnswer(FirstAccepted(v, groups), new, p, v)
  <2>1. groups[j] \in GroupsAt(new, p) /\ groups[j] # NULL
    BY <1>5, <1>6, MemoryAssumption
  <2> QED  BY <1>8, <2>1 DEF IsAnswer
<1> QED  BY <1>2, <1>7, <1>8, FirstAcceptedFacts

Answered(a, chunks) ==
    a # NULL /\ a.alone => IsAnswer(a.groups, chunks, a.p, a.v)

LEMMA AnsweredIs == CondAnswered <=> (Live /\ crash = "none" => Answered(answer, memchunks))
BY DEF CondAnswered, Answered, IsAnswer, GroupsAt, GroupsOf, Sought

LEMMA AnsweredNext ==
    CondAnswered' <=> (Live' /\ crash' = "none" => Answered(answer', memchunks'))
<1>1. (CondAnswered <=> (Live /\ crash = "none" => Answered(answer, memchunks)))'
  BY AnsweredIs, PTL
<1> QED  BY <1>1

LEMMA CondStep ==
    ASSUME Typed, NEW p \in Pattern, NEW v \in Byte \cup {NULL}, memscan_search_cond(p, v),
           crash' = "none"
    PROVE  Answered(answer', memchunks')
<1>1. crash = "none" /\ Live /\ memchunks # NULL /\ memchunks \in Seq(Chunk)
  BY DEF memscan_search_cond, Idle, Live, Typed, TypeOK
<1>2. PICK behind \in [DOMAIN memchunks -> Behind] :
        LET found == FoundIn(memchunks, behind, p)
            results == BlocksOf(WithMatches(memchunks, found), behind, Len(p.mask))
            groups == [i \in DOMAIN results |-> scan_search(results[i].data, p.mask)]
        IN  IF \E i \in DOMAIN memchunks : Overruns(memchunks[i], found[i], p)
            THEN crash' = "overrun"
            ELSE /\ memchunks' = Emptied(memchunks)
                 /\ answer' = [p |-> p, v |-> v, alone |-> asked = <<>>,
                               groups |-> FirstAccepted(v, groups)]
  BY DEF memscan_search_cond
<1> DEFINE found == FoundIn(memchunks, behind, p)
           w == WithMatches(memchunks, found)
           groups == [j \in DOMAIN BlocksOf(w, behind, Len(p.mask)) |->
                        scan_search(BlocksOf(w, behind, Len(p.mask))[j].data, p.mask)]
<1>3. ~ \E i \in DOMAIN memchunks : Overruns(memchunks[i], found[i], p)
  BY <1>2
<1>4. /\ memchunks' = Emptied(memchunks)
      /\ answer' = [p |-> p, v |-> v, alone |-> asked = <<>>, groups |-> FirstAccepted(v, groups)]
  BY <1>2, <1>3
<1>5. SameChunks(Emptied(memchunks), memchunks)
  BY <1>1, EmptiedFacts
<1>6. Searched(memchunks, behind, p, found)
  BY <1>1, <1>3, SearchFits
<1> SUFFICES ASSUME asked = <<>> PROVE IsAnswer(FirstAccepted(v, groups), Emptied(memchunks), p, v)
  <2> HIDE DEF groups
  <2> QED  BY <1>4 DEF Answered
<1> HIDE DEF found
<1>7. SameChunks(w, memchunks) /\ \A i \in 1 .. Len(memchunks) : w[i].matches = found[i]
  BY <1>1, <1>6, FirstSearch
<1>8. IsAnswer(FirstAccepted(v, groups), Emptied(memchunks), p, v)
  <2> DEFINE new == Emptied(memchunks)
             gs == groups
  <2>1. gs = [j \in DOMAIN BlocksOf(w, behind, Len(p.mask)) |->
                 scan_search(BlocksOf(w, behind, Len(p.mask))[j].data, p.mask)]
    OBVIOUS
  <2>2. SameChunks(new, memchunks)
    BY <1>5
  <2> HIDE DEF w, new, gs, groups
  <2>3. IsAnswer(FirstAccepted(v, gs), new, p, v)
    BY <1>1, <1>6, <1>7, <2>1, <2>2, CondFacts
  <2> QED  BY <2>3 DEF new, gs
<1> QED  BY <1>8

LEMMA CondAnsweredStep == ASSUME Typed, CondAnswered, Next PROVE CondAnswered'
<1>0. CondAnswered' <=> (Live' /\ crash' = "none" => Answered(answer', memchunks'))
  BY AnsweredNext
<1>1. CASE UNCHANGED <<memchunks, freed, answer>> /\ crash = "none"
  <2>1. Live' = Live
    BY <1>1 DEF Live
  <2> QED  BY <1>0, <1>1, <2>1, AnsweredIs
<1>2. CASE answer' = NULL \/ crash' # "none"
  BY <1>0, <1>2 DEF Answered
<1>3. CASE \E p \in Pattern, v \in Byte \cup {NULL} : memscan_search_cond(p, v)
  BY <1>0, <1>2, <1>3, CondStep
<1>4. CASE DumpRegion
  BY <1>2, <1>4 DEF DumpRegion, Typed, InCall
<1>5. CASE \/ memproc_refresh_handle \/ (\E from \in DOMAIN Region : memproc_dump_details(from))
           \/ (\E p \in Pattern : memproc_search(p)) \/ memproc_get_res \/ UpdateBlock
           \/ memproc_clear \/ NoChunks
  BY <1>2, <1>5 DEF memproc_refresh_handle, memproc_dump_details, memproc_search, memproc_get_res,
     UpdateBlock, memproc_clear, NoChunks
<1>6. CASE \/ (\E a \in Addresses, b \in Byte : Write(a, b))
           \/ PassRegion \/ DumpEnds \/ memproc_update \/ UpdateEnds
  BY <1>1, <1>6 DEF Write, PassRegion, DumpEnds, memproc_update, UpdateEnds, Idle, chunkVars
<1> QED  BY <1>3, <1>4, <1>5, <1>6 DEF Next

\* memscan_search_cond, with no matches left over from before, returns the groups of an
\* occurrence that its condition accepts, and NULL only if there is none.
THEOREM CondAnsweredCorrect == Spec => []CondAnswered
<1>1. Init => CondAnswered
  BY DEF Init, CondAnswered
<1>2. Typed /\ CondAnswered /\ [Next]_vars => CondAnswered'
  <2>1. ASSUME UNCHANGED vars, CondAnswered PROVE CondAnswered'
    <3>1. UNCHANGED <<memchunks, freed, answer, crash>>
      BY <2>1 DEF vars, chunkVars
    <3>2. Live' = Live
      BY <3>1 DEF Live
    <3> QED  BY <2>1, <3>1, <3>2, AnsweredIs, AnsweredNext
  <2> QED  BY <2>1, CondAnsweredStep
<1> QED  BY <1>1, <1>2, TypeCorrect, PTL DEF Spec
===============================================================================
