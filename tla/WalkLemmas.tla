------------------------------ MODULE WalkLemmas ------------------------------
(* Induction on the natural numbers, and with it the existence of the walk that  *)
(* follows the links of a queue; sequences one element shorter. The library's induction theorems range over     *)
(* operators; these range over sets, from the well-foundedness of finite sets.   *)
EXTENDS Integers, FiniteSetTheorems, SequenceTheorems, TLAPS

\* Every set of natural numbers that has an element has a least one.
LEMMA LeastNatural ==
    ASSUME NEW T, T \subseteq Nat, T # {}
    PROVE  \E x \in T : \A y \in T : x <= y
<1> DEFINE U == {0 .. n : n \in T}
<1>1. U \subseteq FiniteSubsetsOf(Nat) /\ U # {}
  <2>1. ASSUME NEW n \in T PROVE IsFiniteSet(0 .. n) /\ 0 .. n \subseteq Nat
    BY FS_Interval, SMT
  <2> QED  BY <2>1 DEF FiniteSubsetsOf
<1>2. \E s \in U : \A r \in U : ~ (<<r, s>> \in StrictSubsetOrdering(Nat))
  BY <1>1, FS_StrictSubsetOrderingWellFounded, WFMin
<1>3. PICK x \in T : \A r \in U : ~ (<<r, 0 .. x>> \in StrictSubsetOrdering(Nat))
  BY <1>2
<1>4. ASSUME NEW y \in T, ~ (x <= y) PROVE FALSE
  <2>1. 0 .. y \subseteq 0 .. x /\ x \in 0 .. x /\ x \notin 0 .. y /\ 0 .. x \subseteq Nat
    BY <1>4, SMT
  <2>2. <<0 .. y, 0 .. x>> \in StrictSubsetOrdering(Nat)
    BY <2>1 DEF StrictSubsetOrdering
  <2> QED  BY <2>2, <1>3
<1> QED  BY <1>4

\* A set that holds 0, and n + 1 with every n up to a bound, holds all up to the bound.
LEMMA UpTo ==
    ASSUME NEW m \in Nat, NEW S, 0 \in S, \A n \in 0 .. (m - 1) : n \in S => n + 1 \in S
    PROVE  0 .. m \subseteq S
<1> DEFINE T == {n \in 0 .. m : n \notin S}
<1>1. SUFFICES ASSUME T # {} PROVE FALSE
  OBVIOUS
<1>2. PICK x \in T : \A y \in T : x <= y
  <2>1. T \subseteq Nat
    BY SMT
  <2> HIDE DEF T
  <2> QED  BY <2>1, <1>1, LeastNatural
<1>3. x # 0 /\ x - 1 \in 0 .. (m - 1) /\ x - 1 \in 0 .. m /\ x - 1 + 1 = x
  BY <1>2, SMT
<1>4. x - 1 \in S
  BY <1>2, <1>3, SMT
<1> QED  BY <1>2, <1>3, <1>4

\* f is the walk of m steps that starts at s and follows a link until it meets nil.
IsWalk(f, m, s, link, nil) ==
    f = [i \in 0 .. m |-> IF i = 0 THEN s ELSE IF f[i - 1] = nil THEN nil ELSE link[f[i - 1]]]

\* There is such a walk.
LEMMA WalkExists ==
    ASSUME NEW m \in Nat, NEW s, NEW link, NEW nil
    PROVE  \E f : IsWalk(f, m, s, link, nil)
<1> DEFINE S == {n \in Nat : \E f : IsWalk(f, n, s, link, nil)}
<1>1. 0 \in S
  <2> DEFINE f == [i \in 0 .. 0 |-> s]
  <2>1. IsWalk(f, 0, s, link, nil)
    BY SMT DEF IsWalk
  <2> QED  BY <2>1
<1>2. ASSUME NEW n \in 0 .. (m - 1), n \in S PROVE n + 1 \in S
  <2>1. PICK f : IsWalk(f, n, s, link, nil)
    BY <1>2
  <2> DEFINE e == IF f[n] = nil THEN nil ELSE link[f[n]]
             g == [i \in 0 .. (n + 1) |-> IF i = n + 1 THEN e ELSE f[i]]
  <2>2. \A i \in 0 .. n : f[i] = IF i = 0 THEN s ELSE IF f[i - 1] = nil THEN nil ELSE link[f[i - 1]]
    BY <2>1 DEF IsWalk
  <2>3. \A i \in 0 .. (n + 1) :
           g[i] = IF i = 0 THEN s ELSE IF g[i - 1] = nil THEN nil ELSE link[g[i - 1]]
    <3> SUFFICES ASSUME NEW i \in 0 .. (n + 1)
                 PROVE  g[i] = IF i = 0 THEN s ELSE IF g[i - 1] = nil THEN nil ELSE link[g[i - 1]]
      OBVIOUS
    <3>1. CASE i = n + 1
      <4>1. i # 0 /\ i - 1 = n /\ n \in 0 .. (n + 1) /\ n # n + 1
        BY <3>1, SMT
      <4>2. g[i - 1] = f[n]
        BY <4>1
      <4>3. g[i] = e
        BY <3>1
      <4> QED  BY <4>1, <4>2, <4>3
    <3>2. CASE i # n + 1
      <4>1. i \in 0 .. n
        BY <3>2, SMT
      <4>2. g[i] = f[i]
        BY <3>2
      <4>3. i # 0 => i - 1 \in 0 .. (n + 1) /\ i - 1 # n + 1
        BY SMT
      <4>4. i # 0 => g[i - 1] = f[i - 1]
        BY <4>3
      <4> QED  BY <4>1, <4>2, <4>4, <2>2
    <3> QED  BY <3>1, <3>2
  <2>4. IsWalk(g, n + 1, s, link, nil)
    <3> HIDE DEF e
    <3>1. g = [i \in 0 .. (n + 1) |-> g[i]]
      OBVIOUS
    <3> HIDE DEF g
    <3> QED  BY <2>3, <3>1 DEF IsWalk
  <2> QED  BY <2>4, SMT
<1>3. 0 .. m \subseteq S
  <2> HIDE DEF S
  <2> QED  BY <1>1, <1>2, UpTo
<1>4. m \in S
  BY <1>3, SMT
<1> QED  BY <1>4

\* A walk whose links all lead to a higher rank has ended when it has made as many
\* steps as there are elements to meet.
LEMMA RankedWalkEnds ==
    ASSUME NEW C, IsFiniteSet(C), NEW m \in Nat, Cardinality(C) <= m,
           NEW nil, nil \notin C, NEW s \in C \cup {nil}, NEW link \in [C -> C \cup {nil}],
           NEW rank \in [C -> Int], \A c \in C : link[c] # nil => rank[c] < rank[link[c]],
           NEW f, IsWalk(f, m, s, link, nil)
    PROVE  f[m] = nil
<1> DEFINE Climbs(n) == /\ f[n] \in C
                        /\ \A i \in 0 .. (n - 1) : f[i] \in C /\ rank[f[i]] < rank[f[n]]
           S == {n \in Nat : n <= m => f[n] = nil \/ Climbs(n)}
<1>f. \A i \in 0 .. m : f[i] = IF i = 0 THEN s ELSE IF f[i - 1] = nil THEN nil ELSE link[f[i - 1]]
  BY DEF IsWalk
<1>1. 0 \in S
  <2>1. f[0] = s /\ 0 .. (0 - 1) = {}
    BY <1>f, SMT
  <2> QED  BY <2>1
<1>2. ASSUME NEW n \in 0 .. (m - 1), n \in S PROVE n + 1 \in S
  <2>1. /\ n \in Nat /\ n <= m /\ n + 1 \in 0 .. m /\ n + 1 # 0 /\ (n + 1) - 1 = n
        /\ \A i \in 0 .. n : i = n \/ i \in 0 .. (n - 1)
    BY SMT
  <2>2. f[n + 1] = IF f[n] = nil THEN nil ELSE link[f[n]]
    BY <1>f, <2>1
  <2>3. f[n] = nil \/ Climbs(n)
    BY <1>2, <2>1
  <2>4. ASSUME f[n] # nil, f[n + 1] # nil PROVE Climbs(n + 1)
    <3>1. f[n] \in C /\ f[n + 1] \in C /\ rank[f[n]] < rank[f[n + 1]]
      BY <2>2, <2>3, <2>4
    <3>2. ASSUME NEW i \in 0 .. n PROVE f[i] \in C /\ rank[f[i]] < rank[f[n + 1]]
      <4>1. CASE i = n
        BY <3>1, <4>1
      <4>2. CASE i # n
        <5>1. f[i] \in C /\ rank[f[i]] < rank[f[n]]
          BY <2>1, <2>3, <2>4, <4>2
        <5>2. rank[f[i]] \in Int /\ rank[f[n]] \in Int /\ rank[f[n + 1]] \in Int
          BY <3>1, <5>1
        <5> QED  BY <3>1, <5>1, <5>2, SMT
      <4> QED  BY <4>1, <4>2
    <3> QED  BY <2>1, <3>1, <3>2
  <2>5. f[n + 1] = nil \/ Climbs(n + 1)
    BY <2>2, <2>4
  <2> HIDE DEF Climbs
  <2> QED  BY <2>1, <2>5
<1>3. 0 .. m \subseteq S
  <2> HIDE DEF S
  <2> QED  BY <1>1, <1>2, UpTo
<1>4. SUFFICES ASSUME f[m] # nil PROVE FALSE
  OBVIOUS
<1>5. \A n \in 0 .. m : f[n] \in C
  <2>1. m \in 0 .. m /\ \A n \in 0 .. m : n = m \/ n \in 0 .. (m - 1)
    BY SMT
  <2>2. Climbs(m)
    <3>1. m \in S /\ m <= m
      BY <1>3, <2>1, SMT
    <3> HIDE DEF Climbs
    <3> QED  BY <1>4, <3>1
  <2> QED  BY <2>1, <2>2
<1>6. \A i, n \in 0 .. m : i < n => f[i] # f[n]
  <2> SUFFICES ASSUME NEW i \in 0 .. m, NEW n \in 0 .. m, i < n PROVE f[i] # f[n]
    OBVIOUS
  <2>1. n \in Nat /\ n <= m /\ i \in 0 .. (n - 1)
    BY SMT
  <2>2. Climbs(n)
    <3>1. n \in S /\ f[n] # nil
      BY <1>3, <1>5
    <3> HIDE DEF Climbs
    <3> QED  BY <2>1, <3>1
  <2>3. rank[f[i]] < rank[f[n]] /\ rank[f[n]] \in Int
    BY <1>5, <2>1, <2>2
  <2> QED  BY <2>3, SMT
<1>7. PICK i, n \in 0 .. m : i # n /\ f[i] = f[n]
  <2> DEFINE g == [i \in 0 .. m |-> f[i]]
  <2>1. IsFiniteSet(0 .. m) /\ Cardinality(0 .. m) = m + 1
    BY FS_Interval, SMT
  <2>2. Cardinality(C) < Cardinality(0 .. m)
    <3>1. Cardinality(C) \in Nat
      BY FS_CardinalityType
    <3> QED  BY <2>1, <3>1, SMT
  <2>3. g \in [0 .. m -> C]
    BY <1>5
  <2>4. \E i, n \in 0 .. m : i # n /\ g[i] = g[n]
    <3> HIDE DEF g
    <3> QED  BY <2>1, <2>2, <2>3, FS_PigeonHole
  <2> QED  BY <2>4
<1>8. i < n \/ n < i
  BY <1>7, SMT
<1> QED  BY <1>6, <1>7, <1>8

\* Two walks along the same links are where they were after as many steps.
LEMMA WalksAgree ==
    ASSUME NEW m \in Nat, NEW k \in 0 .. m, NEW s, NEW link, NEW nil,
           NEW f, IsWalk(f, m, s, link, nil), NEW g, IsWalk(g, k, s, link, nil)
    PROVE  \A i \in 0 .. k : f[i] = g[i]
<1> DEFINE S == {i \in Nat : f[i] = g[i]}
<1>1. /\ \A i \in 0 .. m : f[i] = IF i = 0 THEN s ELSE IF f[i - 1] = nil THEN nil ELSE link[f[i - 1]]
      /\ \A i \in 0 .. k : g[i] = IF i = 0 THEN s ELSE IF g[i - 1] = nil THEN nil ELSE link[g[i - 1]]
  BY DEF IsWalk
<1>2. 0 \in S
  <2>1. 0 \in 0 .. m /\ 0 \in 0 .. k
    BY SMT
  <2> QED  BY <1>1, <2>1
<1>3. ASSUME NEW n \in 0 .. (k - 1), n \in S PROVE n + 1 \in S
  <2>1. n + 1 \in 0 .. m /\ n + 1 \in 0 .. k /\ n + 1 # 0 /\ (n + 1) - 1 = n /\ n + 1 \in Nat
    BY SMT
  <2> QED  BY <1>1, <1>3, <2>1
<1>4. k \in Nat
  BY SMT
<1>5. 0 .. k \subseteq S
  <2> HIDE DEF S
  <2> QED  BY <1>2, <1>3, <1>4, UpTo
<1> QED  BY <1>5

\* There is a walk without end, which stays at nil once it is there.
LEMMA WalkForever ==
    ASSUME NEW s, NEW link, NEW nil
    PROVE  \E f : f = [i \in Nat |-> IF i = 0 THEN s
                                   ELSE IF f[i - 1] = nil THEN nil ELSE link[f[i - 1]]]
<1> DEFINE w == [m \in Nat |-> CHOOSE f : IsWalk(f, m, s, link, nil)]
           f == [m \in Nat |-> w[m][m]]
<1>1. \A m \in Nat : IsWalk(w[m], m, s, link, nil)
  BY WalkExists
<1> HIDE DEF w
<1>2. \A i \in Nat : f[i] = IF i = 0 THEN s ELSE IF f[i - 1] = nil THEN nil ELSE link[f[i - 1]]
  <2> SUFFICES ASSUME NEW i \in Nat
               PROVE  f[i] = IF i = 0 THEN s ELSE IF f[i - 1] = nil THEN nil ELSE link[f[i - 1]]
    OBVIOUS
  <2>1. i \in 0 .. i
    BY SMT
  <2>2. w[i][i] = IF i = 0 THEN s ELSE IF w[i][i - 1] = nil THEN nil ELSE link[w[i][i - 1]]
    BY <1>1, <2>1 DEF IsWalk
  <2>3. ASSUME i # 0 PROVE w[i][i - 1] = f[i - 1]
    <3>1. i - 1 \in 0 .. i /\ i - 1 \in Nat /\ i - 1 \in 0 .. (i - 1)
      BY <2>3, SMT
    <3>2. w[i][i - 1] = w[i - 1][i - 1]
      BY <1>1, <3>1, WalksAgree
    <3> QED  BY <3>1, <3>2
  <2> QED  BY <2>2, <2>3
<1>3. f = [i \in Nat |-> f[i]]
  OBVIOUS
<1> HIDE DEF f
<1>4. f = [i \in Nat |-> IF i = 0 THEN s ELSE IF f[i - 1] = nil THEN nil ELSE link[f[i - 1]]]
  BY <1>2, <1>3
<1> QED  BY <1>4

\* f holds the m results of steps taken one after the other from s.
IsIteration(f, m, s, step) == \A i \in 0 .. m : f[i] = IF i = 0 THEN s ELSE step[i][f[i - 1]]

\* Steps within D have results, all in D.
LEMMA IterationExists ==
    ASSUME NEW D, NEW s \in D, NEW m \in Nat, NEW step \in [1 .. m -> [D -> D]]
    PROVE  \E f \in [0 .. m -> D] : IsIteration(f, m, s, step)
<1> USE DEF IsIteration
<1> DEFINE S == {n \in Nat : \E f \in [0 .. n -> D] : IsIteration(f, n, s, step)}
<1>1. 0 \in S
  <2> DEFINE f == [i \in 0 .. 0 |-> s]
  <2>1. \A i \in 0 .. 0 : i = 0
    BY SMT
  <2>2. f \in [0 .. 0 -> D] /\ IsIteration(f, 0, s, step)
    BY <2>1
  <2> QED  BY <2>2
<1>2. ASSUME NEW n \in 0 .. (m - 1), n \in S PROVE n + 1 \in S
  <2>1. PICK f \in [0 .. n -> D] : IsIteration(f, n, s, step)
    BY <1>2
  <2>2. /\ n + 1 \in 1 .. m /\ n \in 0 .. n /\ n + 1 \in Nat /\ n + 1 # 0 /\ (n + 1) - 1 = n
        /\ n # n + 1
        /\ \A i \in 0 .. (n + 1) : i # n + 1 => i \in 0 .. n
        /\ \A i \in 0 .. n : i # n + 1 /\ i \in 0 .. (n + 1) /\ (i # 0 => i - 1 \in 0 .. n)
    BY SMT
  <2> DEFINE g == [i \in 0 .. (n + 1) |-> IF i = n + 1 THEN step[n + 1][f[n]] ELSE f[i]]
  <2>3. step[n + 1][f[n]] \in D
    BY <2>2
  <2>4. g \in [0 .. (n + 1) -> D]
    BY <2>2, <2>3
  <2>5. g[n + 1] = step[n + 1][f[n]] /\ \A i \in 0 .. n : g[i] = f[i]
    <3>1. n + 1 \in 0 .. (n + 1)
      BY SMT
    <3> QED  BY <2>2, <3>1
  <2> HIDE DEF g
  <2>6. IsIteration(g, n + 1, s, step)
    <3> SUFFICES ASSUME NEW i \in 0 .. (n + 1)
                 PROVE  g[i] = IF i = 0 THEN s ELSE step[i][g[i - 1]]
      OBVIOUS
    <3>1. CASE i = n + 1
      BY <2>2, <2>5, <3>1
    <3>2. CASE i # n + 1
      <4>1. f[i] = IF i = 0 THEN s ELSE step[i][f[i - 1]]
        BY <2>1, <2>2, <3>2
      <4> QED  BY <2>2, <2>5, <3>2, <4>1
    <3> QED  BY <3>1, <3>2
  <2> QED  BY <2>2, <2>4, <2>6
<1>3. 0 .. m \subseteq S
  <2> HIDE DEF S
  <2> QED  BY <1>1, <1>2, UpTo
<1>4. m \in S
  BY <1>3, SMT
<1> QED  BY <1>4

-------------------------------------------------------------------------------
(* Sequences one shorter.                                                        *)

\* A sequence without its last element, and that element.
LEMMA AllButLast ==
    ASSUME NEW S, NEW q \in Seq(S), q # <<>>
    PROVE  /\ SubSeq(q, 1, Len(q) - 1) \in Seq(S)
           /\ Len(SubSeq(q, 1, Len(q) - 1)) = Len(q) - 1
           /\ Len(q) \in Nat \ {0}
           /\ DOMAIN SubSeq(q, 1, Len(q) - 1) = 1 .. (Len(q) - 1)
           /\ DOMAIN q = 1 .. Len(q)
           /\ \A i \in 1 .. (Len(q) - 1) : SubSeq(q, 1, Len(q) - 1)[i] = q[i]
           /\ q[Len(q)] \in S
<1> DEFINE r == SubSeq(q, 1, Len(q) - 1)
<1>1. Len(q) \in Nat \ {0} /\ DOMAIN q = 1 .. Len(q)
  BY EmptySeq, SMT
<1>2. q[Len(q)] \in S
  BY <1>1
<1>3. /\ r \in Seq(S)
      /\ Len(r) = Len(q) - 1
      /\ \A i \in 1 .. (Len(q) - 1) : r[i] = q[i]
  BY <1>1, SMT
<1>4. DOMAIN r = 1 .. (Len(q) - 1)
  BY <1>3, <1>1, SMT
<1> QED  BY <1>1, <1>2, <1>3, <1>4

\* A sequence without its element at place k.
LEMMA AllButOne ==
    ASSUME NEW S, NEW q \in Seq(S), NEW k \in DOMAIN q
    PROVE  [j \in 1 .. (Len(q) - 1) |-> IF j < k THEN q[j] ELSE q[j + 1]] \in Seq(S)
<1> DEFINE r == [j \in 1 .. (Len(q) - 1) |-> IF j < k THEN q[j] ELSE q[j + 1]]
<1>1. Len(q) \in Nat /\ DOMAIN q = 1 .. Len(q) /\ \A i \in DOMAIN q : q[i] \in S
  BY SMT
<1>2. Len(q) - 1 \in Nat /\ k \in Nat
  BY <1>1, SMT
<1>3. \A j \in 1 .. (Len(q) - 1) : (IF j < k THEN q[j] ELSE q[j + 1]) \in S
  BY <1>1, <1>2, SMT
<1>4. r \in [1 .. (Len(q) - 1) -> S]
  BY <1>3
<1> HIDE DEF r
<1>5. r \in Seq(S)
  BY <1>2, <1>4, SeqDef
<1> QED  BY <1>5 DEF r
===============================================================================
