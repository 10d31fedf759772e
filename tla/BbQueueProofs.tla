----------------------------- MODULE BbQueueProofs -----------------------------
(* Theorems about BbQueue, for any addresses, data and positions: a queue whose  *)
(* callers are careful stays well linked, loses no child but one, and is to them *)
(* the sequence of BbSequence.                                                   *)
EXTENDS BbQueue, WalkLemmas

-------------------------------------------------------------------------------
(* The order of the children.                                                    *)

\* q lists the n children of a queue with these ends and these links, in order.
Linked(q, n, fst, lst, nxt, prv) ==
    /\ fst = IF n = 0 THEN NULL ELSE q[0]
    /\ lst = IF n = 0 THEN NULL ELSE q[n - 1]
    /\ \A i \in 0 .. (n - 1) :
         /\ q[i] \in Node
         /\ nxt[q[i]] = IF i = n - 1 THEN NULL ELSE q[i + 1]
         /\ prv[q[i]] = IF i = 0 THEN NULL ELSE q[i - 1]
    /\ \A i, j \in 0 .. (n - 1) : q[i] = q[j] => i = j

Children(q, n) == {q[i] : i \in 0 .. (n - 1)}

\* Some list of allocated children is the order of the queue.
Chained ==
    \E q : Linked(q, len, first, last, next, prev) /\ Children(q, len) \subseteq allocated

\* A child c gets place j: the ends and the neighbours' links lead to it.
EndsGain(n, j, c, fst, lst, fst2, lst2) ==
    /\ fst2 = IF j = 0 THEN c ELSE fst
    /\ lst2 = IF j = n THEN c ELSE lst

LinksGain(q, n, j, c, nxt, prv, nxt2, prv2) ==
    /\ nxt2[c] = IF j = n THEN NULL ELSE q[j]
    /\ j # 0 => nxt2[q[j - 1]] = c
    /\ \A i \in 0 .. (n - 1) : i # j - 1 => nxt2[q[i]] = nxt[q[i]]
    /\ prv2[c] = IF j = 0 THEN NULL ELSE q[j - 1]
    /\ j # n => prv2[q[j]] = c
    /\ \A i \in 0 .. (n - 1) : i # j => prv2[q[i]] = prv[q[i]]

\* The child at place j leaves: the ends and the neighbours' links pass it by.
EndsLose(q, n, j, fst, lst, nxt, prv, fst2, lst2) ==
    /\ fst2 = IF j = 0 THEN nxt[q[j]] ELSE fst
    /\ lst2 = IF j = n - 1 THEN prv[q[j]] ELSE lst

LinksLose(q, n, j, nxt, prv, nxt2, prv2) ==
    /\ j # 0 => nxt2[q[j - 1]] = nxt[q[j]]
    /\ \A i \in 0 .. (n - 1) : i # j /\ i # j - 1 => nxt2[q[i]] = nxt[q[i]]
    /\ j # n - 1 => prv2[q[j + 1]] = prv[q[j]]
    /\ \A i \in 0 .. (n - 1) : i # j /\ i # j + 1 => prv2[q[i]] = prv[q[i]]

\* q2 is q with c at place j, or without its place j.
Inserted(q, n, j, c, q2) ==
    \A i \in 0 .. n : q2[i] = IF i < j THEN q[i] ELSE IF i = j THEN c ELSE q[i - 1]

Removed(q, n, j, q2) ==
    \A i \in 0 .. (n - 2) : q2[i] = IF i < j THEN q[i] ELSE q[i + 1]

\* A queue that gains a child has the others in the same order.
LEMMA InsertLinked ==
    ASSUME NEW n \in Nat, NEW q, NEW fst, NEW lst, NEW nxt, NEW prv,
           Linked(q, n, fst, lst, nxt, prv),
           NEW c \in Node, c \notin Children(q, n), NEW j \in 0 .. n,
           NEW fst2, NEW lst2, NEW nxt2, NEW prv2,
           EndsGain(n, j, c, fst, lst, fst2, lst2),
           LinksGain(q, n, j, c, nxt, prv, nxt2, prv2)
    PROVE  \E q2 : /\ Linked(q2, n + 1, fst2, lst2, nxt2, prv2)
                   /\ Children(q2, n + 1) = Children(q, n) \cup {c}
                   /\ Inserted(q, n, j, c, q2)
<1>0. /\ fst2 = (IF j = 0 THEN c ELSE fst) /\ lst2 = (IF j = n THEN c ELSE lst)
      /\ nxt2[c] = (IF j = n THEN NULL ELSE q[j]) /\ (j # 0 => nxt2[q[j - 1]] = c)
      /\ \A i \in 0 .. (n - 1) : i # j - 1 => nxt2[q[i]] = nxt[q[i]]
      /\ prv2[c] = (IF j = 0 THEN NULL ELSE q[j - 1]) /\ (j # n => prv2[q[j]] = c)
      /\ \A i \in 0 .. (n - 1) : i # j => prv2[q[i]] = prv[q[i]]
  BY DEF EndsGain, LinksGain
<1> DEFINE q2 == [i \in 0 .. n |-> IF i < j THEN q[i] ELSE IF i = j THEN c ELSE q[i - 1]]
<1>1. /\ \A i \in 0 .. n : /\ i < j => i \in 0 .. (n - 1) /\ i + 1 \in 0 .. n
                           /\ i > j => i - 1 \in 0 .. (n - 1) /\ i - 1 \in 0 .. n
                           /\ i # j => i < j \/ i > j
      /\ n + 1 - 1 = n /\ n + 1 # 0 /\ n \in 0 .. n /\ 0 \in 0 .. n
  BY SMT
<1>2. /\ \A i \in 0 .. n : i < j => q2[i] = q[i] /\ q[i] \in Children(q, n)
      /\ \A i \in 0 .. n : i > j => q2[i] = q[i - 1] /\ q[i - 1] \in Children(q, n)
      /\ q2[j] = c
  <2>1. \A i \in 0 .. n : i > j => ~ (i < j) /\ i # j
    BY SMT
  <2>2. ~ (j < j)
    BY SMT
  <2> QED  BY <1>1, <2>1, <2>2 DEF Children
<1> HIDE DEF q2
<1>3. Linked(q2, n + 1, fst2, lst2, nxt2, prv2)
  <2>1. fst2 = q2[0]
    <3>1. CASE j = 0
      BY <1>0, <1>2, <3>1
    <3>2. CASE j # 0
      <4>1. 0 < j /\ n # 0
        BY <3>2, SMT
      <4> QED  BY <1>0, <1>1, <1>2, <3>2, <4>1 DEF Linked
    <3> QED  BY <3>1, <3>2
  <2>2. lst2 = q2[n]
    <3>1. CASE j = n
      BY <1>0, <1>2, <3>1
    <3>2. CASE j # n
      <4>1. n > j /\ n # 0
        BY <3>2, SMT
      <4> QED  BY <1>0, <1>1, <1>2, <3>2, <4>1 DEF Linked
    <3> QED  BY <3>1, <3>2
  <2>3. ASSUME NEW i \in 0 .. n
        PROVE  /\ q2[i] \in Node
               /\ nxt2[q2[i]] = IF i = n THEN NULL ELSE q2[i + 1]
               /\ prv2[q2[i]] = IF i = 0 THEN NULL ELSE q2[i - 1]
    <3>1. CASE i < j
      <4>1. q2[i] = q[i] /\ q[i] \in Node /\ i \in 0 .. (n - 1)
        BY <1>0, <1>1, <1>2, <3>1 DEF Linked
      <4>2. /\ i # n /\ i # j
            /\ i = j - 1 <=> i + 1 = j
            /\ i + 1 # j => i + 1 \in 0 .. n /\ i + 1 < j /\ i # n - 1 /\ i # j - 1
            /\ i # 0 => i - 1 \in 0 .. n /\ i - 1 < j
            /\ j # 0 /\ (i + 1 = j => j - 1 = i)
        BY <3>1, SMT
      <4>3. nxt2[q[i]] = q2[i + 1]
        <5>1. CASE i + 1 = j
          BY <1>0, <1>2, <4>2, <5>1
        <5>2. CASE i + 1 # j
          BY <1>0, <1>2, <4>1, <4>2, <5>2 DEF Linked
        <5> QED  BY <5>1, <5>2
      <4>4. prv2[q[i]] = IF i = 0 THEN NULL ELSE q2[i - 1]
        BY <1>0, <1>2, <4>1, <4>2 DEF Linked
      <4> QED  BY <4>1, <4>2, <4>3, <4>4
    <3>2. CASE i = j
      <4>1. /\ i # n => i + 1 \in 0 .. n /\ i + 1 > j /\ (i + 1) - 1 = j
            /\ i # 0 => i - 1 \in 0 .. n /\ i - 1 < j
        BY <3>2, SMT
      <4> QED  BY <1>0, <1>2, <3>2, <4>1
    <3>3. CASE i > j
      <4>1. q2[i] = q[i - 1] /\ q[i - 1] \in Node /\ i - 1 \in 0 .. (n - 1)
        BY <1>0, <1>1, <1>2, <3>3 DEF Linked
      <4>2. /\ i # 0 /\ j # n /\ i - 1 # j - 1
            /\ i # n => i + 1 \in 0 .. n /\ i + 1 > j /\ (i + 1) - 1 = i /\ (i - 1) + 1 = i
                        /\ i - 1 # n - 1
            /\ i = n => i - 1 = n - 1
            /\ i - 1 # j => i - 1 \in 0 .. n /\ i - 1 > j /\ i - 1 # 0
        BY <3>3, SMT
      <4>3. nxt2[q[i - 1]] = IF i = n THEN NULL ELSE q2[i + 1]
        BY <1>0, <1>2, <4>1, <4>2 DEF Linked
      <4>4. prv2[q[i - 1]] = q2[i - 1]
        <5>1. CASE i - 1 = j
          BY <1>0, <1>2, <4>2, <5>1
        <5>2. CASE i - 1 # j
          BY <1>0, <1>2, <4>1, <4>2, <5>2 DEF Linked
        <5> QED  BY <5>1, <5>2
      <4> QED  BY <4>1, <4>2, <4>3, <4>4
    <3> QED  BY <1>0, <1>1, <3>1, <3>2, <3>3
  <2>4. ASSUME NEW i \in 0 .. n, NEW k \in 0 .. n, q2[i] = q2[k] PROVE i = k
    <3>1. CASE i = j \/ k = j
      BY <1>1, <1>2, <2>4, <3>1
    <3>2. CASE i < j /\ k < j
      BY <1>1, <1>2, <2>4, <3>2 DEF Linked
    <3>3. CASE i > j /\ k > j
      <4>1. i - 1 = k - 1
        BY <1>1, <1>2, <2>4, <3>3 DEF Linked
      <4> QED  BY <4>1, SMT
    <3>4. CASE i < j /\ k > j
      <4>1. i = k - 1
        BY <1>1, <1>2, <2>4, <3>4 DEF Linked
      <4> QED  BY <3>4, <4>1, SMT
    <3>5. CASE i > j /\ k < j
      <4>1. i - 1 = k
        BY <1>1, <1>2, <2>4, <3>5 DEF Linked
      <4> QED  BY <3>5, <4>1, SMT
    <3> QED  BY <1>1, <3>1, <3>2, <3>3, <3>4, <3>5
  <2> QED  BY <1>1, <2>1, <2>2, <2>3, <2>4 DEF Linked
<1>4. Children(q2, n + 1) = Children(q, n) \cup {c}
  <2>1. ASSUME NEW i \in 0 .. n PROVE q2[i] \in Children(q, n) \cup {c}
    BY <1>1, <1>2
  <2>2. ASSUME NEW i \in 0 .. (n - 1) PROVE q[i] \in {q2[k] : k \in 0 .. n}
    <3>1. /\ i < j => i \in 0 .. n
          /\ ~ (i < j) => i + 1 \in 0 .. n /\ i + 1 > j /\ (i + 1) - 1 = i
      BY SMT
    <3>2. CASE i < j
      BY <1>2, <3>1, <3>2
    <3>3. CASE ~ (i < j)
      BY <1>2, <3>1, <3>3
    <3> QED  BY <3>2, <3>3
  <2>3. c \in {q2[k] : k \in 0 .. n}
    BY <1>2
  <2> QED  BY <1>1, <2>1, <2>2, <2>3 DEF Children
<1>5. Inserted(q, n, j, c, q2)
  BY DEF Inserted, q2
<1> QED  BY <1>3, <1>4, <1>5

\* A queue that loses a child has the others in the same order.
LEMMA RemoveLinked ==
    ASSUME NEW n \in Nat, NEW q, NEW fst, NEW lst, NEW nxt, NEW prv,
           Linked(q, n, fst, lst, nxt, prv),
           NEW j \in 0 .. (n - 1),
           NEW fst2, NEW lst2, NEW nxt2, NEW prv2,
           EndsLose(q, n, j, fst, lst, nxt, prv, fst2, lst2),
           LinksLose(q, n, j, nxt, prv, nxt2, prv2)
    PROVE  \E q2 : /\ Linked(q2, n - 1, fst2, lst2, nxt2, prv2)
                   /\ Children(q2, n - 1) = Children(q, n) \ {q[j]}
                   /\ Removed(q, n, j, q2)
<1>0. /\ fst2 = (IF j = 0 THEN nxt[q[j]] ELSE fst)
      /\ lst2 = (IF j = n - 1 THEN prv[q[j]] ELSE lst)
      /\ j # 0 => nxt2[q[j - 1]] = nxt[q[j]]
      /\ \A i \in 0 .. (n - 1) : i # j /\ i # j - 1 => nxt2[q[i]] = nxt[q[i]]
      /\ j # n - 1 => prv2[q[j + 1]] = prv[q[j]]
      /\ \A i \in 0 .. (n - 1) : i # j /\ i # j + 1 => prv2[q[i]] = prv[q[i]]
  BY DEF EndsLose, LinksLose
<1> DEFINE q2 == [i \in 0 .. (n - 2) |-> IF i < j THEN q[i] ELSE q[i + 1]]
<1>1. /\ n - 1 - 1 = n - 2 /\ n - 1 \in Nat /\ n # 0 /\ n - 1 \in 0 .. (n - 1) /\ 0 \in 0 .. (n - 1)
      /\ \A i \in 0 .. (n - 2) : i \in 0 .. (n - 1) /\ i + 1 \in 0 .. (n - 1)
      /\ n - 1 # 0 => n - 2 \in 0 .. (n - 2) /\ 0 \in 0 .. (n - 2)
  BY SMT
<1>2. /\ \A i \in 0 .. (n - 2) : i < j => q2[i] = q[i]
      /\ \A i \in 0 .. (n - 2) : ~ (i < j) => q2[i] = q[i + 1]
  OBVIOUS
<1> HIDE DEF q2
<1>3. Linked(q2, n - 1, fst2, lst2, nxt2, prv2)
  <2>1. fst2 = IF n - 1 = 0 THEN NULL ELSE q2[0]
    <3>1. CASE j = 0
      <4>1. ~ (0 < j) /\ 0 + 1 = 1 /\ (n - 1 = 0 <=> j = n - 1)
        BY <3>1, SMT
      <4> QED  BY <1>0, <1>1, <1>2, <3>1, <4>1 DEF Linked
    <3>2. CASE j # 0
      <4>1. 0 < j /\ n - 1 # 0
        BY <3>2, SMT
      <4> QED  BY <1>0, <1>1, <1>2, <3>2, <4>1 DEF Linked
    <3> QED  BY <3>1, <3>2
  <2>2. lst2 = IF n - 1 = 0 THEN NULL ELSE q2[n - 1 - 1]
    <3>1. CASE j = n - 1
      <4>1. (n - 1 = 0 <=> j = 0) /\ j - 1 = n - 2 /\ (n - 1 # 0 => n - 2 < j)
        BY <3>1, SMT
      <4>2. lst2 = IF n - 1 = 0 THEN NULL ELSE q[n - 2]
        BY <1>0, <1>1, <3>1, <4>1 DEF Linked
      <4> QED  BY <1>0, <1>1, <1>2, <4>1, <4>2
    <3>2. CASE j # n - 1
      <4>1. n - 1 # 0 /\ ~ (n - 2 < j) /\ (n - 2) + 1 = n - 1
        BY <3>2, SMT
      <4>2. lst2 = q[n - 1]
        BY <1>0, <1>1, <3>2 DEF Linked
      <4> QED  BY <1>0, <1>1, <1>2, <4>1, <4>2
    <3> QED  BY <3>1, <3>2
  <2>3. ASSUME NEW i \in 0 .. (n - 2)
        PROVE  /\ q2[i] \in Node
               /\ nxt2[q2[i]] = IF i = n - 2 THEN NULL ELSE q2[i + 1]
               /\ prv2[q2[i]] = IF i = 0 THEN NULL ELSE q2[i - 1]
    <3>0. /\ i # n - 2 => i + 1 \in 0 .. (n - 2)
          /\ i # 0 => i - 1 \in 0 .. (n - 2)
      BY SMT
    <3>1. CASE i < j
      <4>1. q2[i] = q[i] /\ q[i] \in Node
        BY <1>0, <1>1, <1>2, <3>1 DEF Linked
      <4>2. /\ i # j /\ i # j + 1 /\ (i # 0 => i - 1 < j) /\ i # n - 1
            /\ i = j - 1 => j # 0 /\ i + 1 = j /\ ~ (i + 1 < j) /\ (i = n - 2 <=> j = n - 1)
            /\ i # j - 1 => i + 1 < j /\ i # n - 2
        BY <3>1, SMT
      <4>3. nxt2[q[i]] = IF i = n - 2 THEN NULL ELSE q2[i + 1]
        <5>1. CASE i = j - 1
          <6>1. nxt2[q[i]] = IF j = n - 1 THEN NULL ELSE q[j + 1]
            BY <1>0, <4>2, <5>1 DEF Linked
          <6>2. i # n - 2 => q2[i + 1] = q[j + 1]
            BY <1>0, <1>2, <3>0, <4>2, <5>1
          <6> QED  BY <4>2, <5>1, <6>1, <6>2
        <5>2. CASE i # j - 1
          <6>1. nxt2[q[i]] = q[i + 1]
            BY <1>0, <1>1, <4>2, <5>2 DEF Linked
          <6> QED  BY <1>0, <1>2, <3>0, <4>2, <5>2, <6>1
        <5> QED  BY <5>1, <5>2
      <4>4. prv2[q[i]] = IF i = 0 THEN NULL ELSE q2[i - 1]
        BY <1>0, <1>1, <1>2, <3>0, <4>1, <4>2 DEF Linked
      <4> QED  BY <4>1, <4>3, <4>4
    <3>2. CASE ~ (i < j)
      <4>1. q2[i] = q[i + 1] /\ q[i + 1] \in Node
        BY <1>0, <1>1, <1>2, <3>2 DEF Linked
      <4>2. /\ i + 1 # j /\ i + 1 # j - 1 /\ i + 1 # 0 /\ (i + 1) - 1 = i /\ j # n - 1
            /\ i + 1 = n - 1 <=> i = n - 2
            /\ ~ (i + 1 < j)
            /\ i + 1 = j + 1 <=> i = j
            /\ i = j => (i # 0 => i - 1 < j /\ i - 1 = j - 1)
            /\ i # j => i # 0 /\ ~ (i - 1 < j) /\ (i - 1) + 1 = i
        BY <3>2, SMT
      <4>3. nxt2[q[i + 1]] = IF i = n - 2 THEN NULL ELSE q2[i + 1]
        BY <1>0, <1>1, <1>2, <3>0, <4>2 DEF Linked
      <4>4. prv2[q[i + 1]] = IF i = 0 THEN NULL ELSE q2[i - 1]
        <5>1. CASE i = j
          <6>1. prv2[q[j + 1]] = IF j = 0 THEN NULL ELSE q[j - 1]
            BY <1>0, <4>2 DEF Linked
          <6> QED  BY <1>0, <1>2, <3>0, <4>2, <5>1, <6>1
        <5>2. CASE i # j
          <6>1. prv2[q[i + 1]] = q[i]
            BY <1>0, <1>1, <4>2, <5>2 DEF Linked
          <6> QED  BY <1>0, <1>2, <3>0, <4>2, <5>2, <6>1
        <5> QED  BY <5>1, <5>2
      <4> QED  BY <4>1, <4>3, <4>4
    <3> QED  BY <3>1, <3>2
  <2>4. ASSUME NEW i \in 0 .. (n - 2), NEW k \in 0 .. (n - 2), q2[i] = q2[k] PROVE i = k
    <3>1. CASE i < j /\ k < j
      BY <1>1, <1>2, <2>4, <3>1 DEF Linked
    <3>2. CASE ~ (i < j) /\ ~ (k < j)
      <4>1. i + 1 = k + 1
        BY <1>1, <1>2, <2>4, <3>2 DEF Linked
      <4> QED  BY <4>1, SMT
    <3>3. CASE i < j /\ ~ (k < j)
      <4>1. i = k + 1
        BY <1>1, <1>2, <2>4, <3>3 DEF Linked
      <4> QED  BY <3>3, <4>1, SMT
    <3>4. CASE ~ (i < j) /\ k < j
      <4>1. i + 1 = k
        BY <1>1, <1>2, <2>4, <3>4 DEF Linked
      <4> QED  BY <3>4, <4>1, SMT
    <3> QED  BY <3>1, <3>2, <3>3, <3>4
  <2> QED  BY <1>1, <2>1, <2>2, <2>3, <2>4 DEF Linked
<1>4. Children(q2, n - 1) = Children(q, n) \ {q[j]}
  <2>1. ASSUME NEW i \in 0 .. (n - 2) PROVE q2[i] \in Children(q, n) \ {q[j]}
    <3>1. CASE i < j
      <4>1. i # j /\ i \in 0 .. (n - 1)
        BY <3>1, SMT
      <4> QED  BY <1>2, <3>1, <4>1 DEF Linked, Children
    <3>2. CASE ~ (i < j)
      <4>1. i + 1 # j /\ i + 1 \in 0 .. (n - 1)
        BY <3>2, SMT
      <4> QED  BY <1>2, <3>2, <4>1 DEF Linked, Children
    <3> QED  BY <3>1, <3>2
  <2>2. ASSUME NEW i \in 0 .. (n - 1), i # j PROVE q[i] \in {q2[k] : k \in 0 .. (n - 2)}
    <3>1. CASE i < j
      <4>1. i \in 0 .. (n - 2)
        BY <3>1, SMT
      <4> QED  BY <1>2, <3>1, <4>1
    <3>2. CASE ~ (i < j)
      <4>1. i - 1 \in 0 .. (n - 2) /\ ~ (i - 1 < j) /\ (i - 1) + 1 = i
        BY <2>2, <3>2, SMT
      <4> QED  BY <1>2, <4>1
    <3> QED  BY <3>1, <3>2
  <2> QED  BY <1>1, <2>1, <2>2 DEF Children
<1>5. Removed(q, n, j, q2)
  BY <1>2 DEF Removed
<1> QED  BY <1>3, <1>4, <1>5


\* Seen from its other end, a queue is one that the previous children link.
LEMMA ReverseLinked ==
    ASSUME NEW n \in Nat, NEW q, NEW fst, NEW lst, NEW nxt, NEW prv,
           Linked(q, n, fst, lst, nxt, prv)
    PROVE  Linked([i \in 0 .. (n - 1) |-> q[n - 1 - i]], n, lst, fst, prv, nxt)
<1> DEFINE r == [i \in 0 .. (n - 1) |-> q[n - 1 - i]]
<1>1. \A i \in 0 .. (n - 1) : r[i] = q[n - 1 - i] /\ n - 1 - i \in 0 .. (n - 1)
  BY SMT
<1> HIDE DEF r
<1>2. lst = (IF n = 0 THEN NULL ELSE r[0]) /\ fst = IF n = 0 THEN NULL ELSE r[n - 1]
  <2>1. n # 0 => /\ 0 \in 0 .. (n - 1) /\ n - 1 - 0 = n - 1
                 /\ n - 1 \in 0 .. (n - 1) /\ n - 1 - (n - 1) = 0
    BY SMT
  <2> QED  BY <1>1, <2>1 DEF Linked
<1>3. ASSUME NEW i \in 0 .. (n - 1)
      PROVE  /\ r[i] \in Node
             /\ prv[r[i]] = IF i = n - 1 THEN NULL ELSE r[i + 1]
             /\ nxt[r[i]] = IF i = 0 THEN NULL ELSE r[i - 1]
  <2>1. /\ n - 1 - i = 0 <=> i = n - 1
        /\ n - 1 - i = n - 1 <=> i = 0
        /\ i # n - 1 => i + 1 \in 0 .. (n - 1) /\ n - 1 - (i + 1) = n - 1 - i - 1
        /\ i # 0 => i - 1 \in 0 .. (n - 1) /\ n - 1 - (i - 1) = n - 1 - i + 1
    BY SMT
  <2> QED  BY <1>1, <2>1 DEF Linked
<1>4. ASSUME NEW i \in 0 .. (n - 1), NEW k \in 0 .. (n - 1), r[i] = r[k] PROVE i = k
  <2>1. q[n - 1 - i] = q[n - 1 - k] /\ n - 1 - i \in 0 .. (n - 1) /\ n - 1 - k \in 0 .. (n - 1)
    BY <1>1, <1>4
  <2>2. \A x, y \in 0 .. (n - 1) : q[x] = q[y] => x = y
    BY DEF Linked
  <2>3. n - 1 - i = n - 1 - k
    BY <2>1, <2>2
  <2> QED  BY <2>3, SMT
<1>5. Linked(r, n, lst, fst, prv, nxt)
  BY <1>2, <1>3, <1>4 DEF Linked
<1> QED  BY <1>5 DEF r

\* The walk from the first child meets the children in order, and then NULL.
LEMMA WalkListsChildren ==
    ASSUME NEW n \in Nat, NEW q, NEW fst, NEW lst, NEW nxt, NEW prv,
           Linked(q, n, fst, lst, nxt, prv),
           NEW f, f = [i \in Nat |-> IF i = 0 THEN fst
                                     ELSE IF f[i - 1] = NULL THEN NULL ELSE nxt[f[i - 1]]]
    PROVE  \A i \in Nat : f[i] = IF i < n THEN q[i] ELSE NULL
<1> DEFINE S == {i \in Nat : f[i] = IF i < n THEN q[i] ELSE NULL}
<1>1. \A i \in Nat : f[i] = IF i = 0 THEN fst ELSE IF f[i - 1] = NULL THEN NULL ELSE nxt[f[i - 1]]
  OBVIOUS
<1>2. 0 \in S
  <2>1. 0 \in Nat /\ (0 < n <=> n # 0)
    BY SMT
  <2> QED  BY <1>1, <2>1 DEF Linked
<1>3. ASSUME NEW i \in Nat, i \in S PROVE i + 1 \in S
  <2>1. i + 1 \in Nat /\ i + 1 # 0 /\ (i + 1) - 1 = i /\ (i < n => i \in 0 .. (n - 1))
        /\ (~ (i < n) => ~ (i + 1 < n)) /\ (i < n => (i + 1 < n <=> i # n - 1))
    BY SMT
  <2>2. f[i + 1] = IF f[i] = NULL THEN NULL ELSE nxt[f[i]]
    BY <1>1, <2>1
  <2>3. CASE i < n
    BY <1>3, <2>1, <2>2, <2>3, NodeAssumption DEF Linked
  <2>4. CASE ~ (i < n)
    BY <1>3, <2>1, <2>2, <2>4
  <2> QED  BY <2>3, <2>4
<1>4. ASSUME NEW i \in Nat PROVE i \in S
  <2> HIDE DEF S
  <2>1. \A k \in 0 .. (i - 1) : k \in Nat
    BY SMT
  <2>2. 0 .. i \subseteq S
    BY <1>2, <1>3, <2>1, UpTo
  <2> QED  BY <2>2, SMT
<1> QED  BY <1>4

\* No more children than addresses.
LEMMA LinkedFits ==
    ASSUME NEW n \in Nat, NEW q, NEW fst, NEW lst, NEW nxt, NEW prv,
           Linked(q, n, fst, lst, nxt, prv)
    PROVE  n \in 0 .. Cardinality(Node)
<1> DEFINE g == [i \in 0 .. (n - 1) |-> q[i]]
<1>1. IsFiniteSet(0 .. (n - 1)) /\ Cardinality(0 .. (n - 1)) = n
  BY FS_Interval, SMT
<1>2. IsFiniteSet(Node) /\ Cardinality(Node) \in Nat
  BY NodeAssumption, FS_CardinalityType
<1>3. SUFFICES ASSUME Cardinality(Node) < Cardinality(0 .. (n - 1)) PROVE FALSE
  BY <1>1, <1>2, SMT
<1>4. g \in [0 .. (n - 1) -> Node]
  BY DEF Linked
<1>5. \E i, k \in 0 .. (n - 1) : i # k /\ g[i] = g[k]
  <2> HIDE DEF g
  <2> QED  BY <1>1, <1>2, <1>3, <1>4, FS_PigeonHole
<1> QED  BY <1>5 DEF Linked


-------------------------------------------------------------------------------
(* What the walks of a call meet, when q is the order of the queue.              *)

\* Both walks meet the children in order, and then NULL.
LEMMA WalksMeetChildren ==
    ASSUME NEW q, len \in Nat, Linked(q, len, first, last, next, prev)
    PROVE  /\ \A i \in Nat : Forward[i] = IF i < len THEN q[i] ELSE NULL
           /\ \A i \in Nat : Backward[i] = IF i < len THEN q[len - 1 - i] ELSE NULL
<1>1. Forward = [i \in Nat |-> IF i = 0 THEN first
                               ELSE IF Forward[i - 1] = NULL THEN NULL ELSE next[Forward[i - 1]]]
  BY WalkForever DEF Forward
<1>2. Backward = [i \in Nat |-> IF i = 0 THEN last
                                ELSE IF Backward[i - 1] = NULL THEN NULL ELSE prev[Backward[i - 1]]]
  BY WalkForever DEF Backward
<1>3. \A i \in Nat : Forward[i] = IF i < len THEN q[i] ELSE NULL
  BY <1>1, WalkListsChildren
<1>4. \A i \in Nat : Backward[i] = IF i < len THEN q[len - 1 - i] ELSE NULL
  <2> DEFINE r == [i \in 0 .. (len - 1) |-> q[len - 1 - i]]
  <2>1. Linked(r, len, last, first, prev, next)
    BY ReverseLinked
  <2>2. \A i \in Nat : i < len => r[i] = q[len - 1 - i]
    BY SMT
  <2> HIDE DEF r
  <2>3. \A i \in Nat : Backward[i] = IF i < len THEN r[i] ELSE NULL
    BY <1>2, <2>1, WalkListsChildren
  <2> QED  BY <2>2, <2>3
<1> QED  BY <1>3, <1>4

\* The children at the ends of the queue.
LEMMA EndsAreChildren ==
    ASSUME NEW q, len \in Nat, Linked(q, len, first, last, next, prev)
    PROVE  /\ len = 0 => first = NULL /\ last = NULL
           /\ len # 0 => /\ first = q[0] /\ 0 \in 0 .. (len - 1)
                         /\ last = q[len - 1] /\ len - 1 \in 0 .. (len - 1)
           /\ \A i \in 0 .. (len - 1) : q[i] \in Node /\ q[i] # NULL
<1>1. len # 0 => 0 \in 0 .. (len - 1) /\ len - 1 \in 0 .. (len - 1)
  BY SMT
<1> QED  BY <1>1, NodeAssumption DEF Linked

\* When some child holds the data, the index is that of the first one.
LEMMA IndexOfFirst ==
    ASSUME NEW d, Exists(d)
    PROVE  IndexOf(d) \in Steps /\ IsFirstHolding(IndexOf(d), d)
<1> DEFINE T == {i \in Steps : Holds(i, d)}
<1>1. Cardinality(Node) \in Nat
  BY NodeAssumption, FS_CardinalityType
<1>2. T \subseteq Nat /\ T # {}
  BY <1>1, SMT DEF Steps, Exists
<1>3. PICK x \in T : \A y \in T : x <= y
  <2> HIDE DEF T
  <2> QED  BY <1>2, LeastNatural
<1>4. x \in Steps /\ IsFirstHolding(x, d)
  BY <1>3 DEF IsFirstHolding
<1> QED  BY <1>4 DEF IndexOf

\* A search answers with a child that holds the data, if there is one.
LEMMA PickChildFacts ==
    ASSUME TypeOK, NEW q, Linked(q, len, first, last, next, prev), NEW d
    PROVE  /\ PickChild(d) = NULL \/ \E j \in 0 .. (len - 1) : PickChild(d) = q[j]
           /\ \A j \in 0 .. (len - 1) : data[q[j]] = d => PickChild(d) # NULL
           /\ Exists(d) => IndexOf(d) \in Nat
<1>1. len \in Nat /\ len <= Cardinality(Node) /\ Cardinality(Node) \in Nat
  <2>1. Cardinality(Node) \in Nat
    BY NodeAssumption, FS_CardinalityType
  <2> QED  BY <2>1, SMT DEF TypeOK
<1>2. /\ \A i \in Nat : Forward[i] = IF i < len THEN q[i] ELSE NULL
      /\ \A i \in 0 .. (len - 1) : q[i] # NULL
  BY <1>1, WalksMeetChildren, EndsAreChildren
<1>3. ASSUME Exists(d) PROVE IndexOf(d) \in Steps /\ IsFirstHolding(IndexOf(d), d)
  BY <1>3, IndexOfFirst
<1>4. \A i \in Steps : i \in Nat
  BY <1>1, SMT DEF Steps
<1>5. ASSUME Exists(d) PROVE \E j \in 0 .. (len - 1) : PickChild(d) = q[j]
  <2>1. IndexOf(d) \in Nat /\ Forward[IndexOf(d)] # NULL
    BY <1>3, <1>4, <1>5 DEF IsFirstHolding, Holds
  <2>2. IndexOf(d) < len
    BY <1>2, <2>1
  <2>3. IndexOf(d) \in 0 .. (len - 1)
    BY <1>1, <2>1, <2>2, SMT
  <2> QED  BY <1>2, <1>5, <2>1, <2>2, <2>3 DEF PickChild
<1>6. ASSUME NEW j \in 0 .. (len - 1), data[q[j]] = d PROVE PickChild(d) # NULL
  <2>1. j \in Steps /\ j \in Nat /\ j < len
    BY <1>1, SMT DEF Steps
  <2>2. Exists(d)
    BY <1>2, <1>6, <2>1 DEF Exists, Holds
  <2> QED  BY <1>2, <1>5, <2>2
<1> QED  BY <1>3, <1>4, <1>5, <1>6 DEF PickChild

\* A position answers with a child or with NULL; inside the queue, with the child there.
LEMMA PickChildNthFacts ==
    ASSUME TypeOK, NEW q, Linked(q, len, first, last, next, prev), NEW pos \in Int
    PROVE  /\ PickChildNth(pos) = NULL \/ \E j \in 0 .. (len - 1) : PickChildNth(pos) = q[j]
           /\ pos > 0 /\ pos < len => PickChildNth(pos) = q[pos]
<1>1. len \in Nat
  BY SMT DEF TypeOK
<1>2. /\ \A i \in Nat : Forward[i] = IF i < len THEN q[i] ELSE NULL
      /\ \A i \in Nat : Backward[i] = IF i < len THEN q[len - 1 - i] ELSE NULL
  BY <1>1, WalksMeetChildren
<1>3. /\ len = 0 => first = NULL /\ last = NULL
      /\ len # 0 => /\ first = q[0] /\ 0 \in 0 .. (len - 1)
                    /\ last = q[len - 1] /\ len - 1 \in 0 .. (len - 1)
  BY <1>1, EndsAreChildren
<1>4. CASE pos < 0
  <2>1. ~ (pos > 0) /\ pos # 0 /\ pos # len /\ ~ (pos > len)
    BY <1>1, <1>4, SMT
  <2>2. PickChildNth(pos) = NULL
    BY <1>4, <2>1 DEF PickChildNth
  <2> QED  BY <2>1, <2>2
<1>5. CASE pos = len
  <2>1. ~ (pos < 0) /\ ~ (pos > 0 /\ pos < len) /\ ~ (pos > len)
    BY <1>1, <1>5, SMT
  <2>2. PickChildNth(pos) = last
    BY <1>5, <2>1 DEF PickChildNth
  <2> QED  BY <1>3, <2>1, <2>2
<1>6. CASE pos = 0 /\ pos # len
  <2>1. ~ (pos < 0) /\ ~ (pos > 0) /\ ~ (pos > len)
    BY <1>1, <1>6, SMT
  <2>2. PickChildNth(pos) = first
    BY <1>6, <2>1 DEF PickChildNth
  <2> QED  BY <1>3, <1>6, <2>1, <2>2
<1>7. CASE pos > 0 /\ pos < len
  <2>1. /\ ~ (pos < 0) /\ pos # len /\ pos # 0 /\ ~ (pos > len)
        /\ pos \in Nat /\ pos \in 0 .. (len - 1)
        /\ len - 1 - pos \in Nat /\ len - 1 - pos < len /\ len - 1 - (len - 1 - pos) = pos
        /\ len \div 2 \in Int /\ (pos <= len \div 2 \/ pos > len \div 2)
        /\ ~ (pos <= len \div 2 /\ pos > len \div 2)
    BY <1>1, <1>7, SMT
  <2>2. Forward[pos] = q[pos] /\ Backward[len - 1 - pos] = q[pos]
    BY <1>2, <1>7, <2>1
  <2>3. PickChildNth(pos) = q[pos]
    BY <1>7, <2>1, <2>2 DEF PickChildNth
  <2> QED  BY <2>1, <2>3
<1>8. CASE pos > len
  <2>1. ~ (pos < 0) /\ pos # len /\ ~ (pos = 0 /\ pos # len) /\ ~ (pos < len)
    BY <1>1, <1>8, SMT
  <2>2. PickChildNth(pos) = NULL
    BY <1>8, <2>1 DEF PickChildNth
  <2> QED  BY <2>1, <2>2
<1> QED
  <2>1. pos < 0 \/ pos = len \/ (pos = 0 /\ pos # len) \/ (pos > 0 /\ pos < len) \/ pos > len
    BY <1>1, SMT
  <2> QED  BY <2>1, <1>4, <1>5, <1>6, <1>7, <1>8


-------------------------------------------------------------------------------
(* The steps that change the links.                                              *)

\* q is the order of the queue, and its children are allocated.
Ordered(q) ==
    /\ Linked(q, len, first, last, next, prev)
    /\ Children(q, len) \subseteq allocated

\* After the step the queue has an order again, and lost no child on the way, unless
\* the step is a call of bb_queue_add_nth.
Follows(q) ==
    \E q2 : /\ Linked(q2, len', first', last', next', prev')
            /\ Children(q2, len') \subseteq allocated'
            /\ \/ allocated' \ Children(q2, len') = allocated \ Children(q, len)
               \/ call'[1] = "add_nth"

\* What a call answers has a type.
Answered == ret' \in Data \cup {NULL} \cup Int /\ crashed' \in BOOLEAN

\* The types that a step must keep, but for the length, which the order bounds.
FieldsOK ==
    /\ first \in Pointer /\ last \in Pointer
    /\ next \in [Node -> Pointer] /\ prev \in [Node -> Pointer]
    /\ data \in [Node -> Data \cup {NULL}]
    /\ allocated \subseteq Node

\* With an order, the length is one that TypeOK allows.
LEMMA TypeFollows ==
    ASSUME NEW q, len' \in Nat, FieldsOK', Answered, Follows(q)
    PROVE  TypeOK'
<1>1. len' \in 0 .. Cardinality(Node)
  BY LinkedFits DEF Follows
<1> QED  BY <1>1 DEF TypeOK, FieldsOK, Answered

\* What the children hold, in order, when f is the data of each.
ItemsOf(q, n, f) == [i \in 1 .. n |-> f[q[i - 1]]]

\* n items with one more at place k, or without the one at place k.
Gained(s, n, k, d) == [i \in 1 .. (n + 1) |-> IF i < k THEN s[i] ELSE IF i = k THEN d ELSE s[i - 1]]
Lost(s, n, k) == [i \in 1 .. (n - 1) |-> IF i < k THEN s[i] ELSE s[i + 1]]

\* The step gives the queue an order in which the items are those.
Holding(s) == \E q2 : Ordered(q2)' /\ ItemsOf(q2, len', data') = s

\* These places hold the same before and after.
Alike(q, places, f, f2) == \A i \in places : f2[q[i]] = f[q[i]]

\* A child that is inserted brings its item, one that is removed takes it away.
LEMMA InsertedItems ==
    ASSUME NEW n \in Nat, NEW q, NEW j \in 0 .. n, NEW c, NEW q2, Inserted(q, n, j, c, q2),
           NEW f, NEW f2, Alike(q, 0 .. (n - 1), f, f2)
    PROVE  ItemsOf(q2, n + 1, f2) = Gained(ItemsOf(q, n, f), n, j + 1, f2[c])
<1> DEFINE s == ItemsOf(q, n, f)
           d == f2[c]
<1>0. \A i \in 0 .. (n - 1) : f2[q[i]] = f[q[i]]
  BY DEF Alike
<1>1. ASSUME NEW i \in 1 .. (n + 1)
      PROVE  f2[q2[i - 1]] = IF i < j + 1 THEN s[i] ELSE IF i = j + 1 THEN d ELSE s[i - 1]
  <2>1. /\ i - 1 \in 0 .. n
        /\ i - 1 < j <=> i < j + 1
        /\ i - 1 = j <=> i = j + 1
        /\ i - 1 < j => i \in 1 .. n /\ i - 1 \in 0 .. (n - 1)
        /\ ~ (i - 1 < j) /\ i - 1 # j => /\ i - 1 \in 1 .. n
                                       /\ i - 1 - 1 \in 0 .. (n - 1)
    BY SMT
  <2>2. \A k \in 1 .. n : s[k] = f[q[k - 1]]
    BY DEF ItemsOf
  <2> HIDE DEF s
  <2>3. CASE i - 1 < j
    BY <1>0, <2>1, <2>2, <2>3 DEF Inserted
  <2>4. CASE i - 1 = j
    BY <2>1, <2>4 DEF Inserted
  <2>5. CASE ~ (i - 1 < j) /\ i - 1 # j
    BY <1>0, <2>1, <2>2, <2>5 DEF Inserted
  <2> QED  BY <2>3, <2>4, <2>5
<1> HIDE DEF s
<1>2. ItemsOf(q2, n + 1, f2) = Gained(s, n, j + 1, d)
  BY <1>1 DEF ItemsOf, Gained
<1> QED  BY <1>2 DEF s

\* What the others hold when one is taken out.
LEMMA RemovedItems ==
    ASSUME NEW n \in Nat, NEW q, NEW j \in 0 .. (n - 1), NEW q2, Removed(q, n, j, q2),
           NEW f, NEW f2, Alike(q, (0 .. (n - 1)) \ {j}, f, f2)
    PROVE  ItemsOf(q2, n - 1, f2) = Lost(ItemsOf(q, n, f), n, j + 1)
<1> DEFINE s == ItemsOf(q, n, f)
<1>0. \A i \in 0 .. (n - 1) : i # j => f2[q[i]] = f[q[i]]
  BY DEF Alike
<1>1. ASSUME NEW i \in 1 .. (n - 1)
      PROVE  f2[q2[i - 1]] = IF i < j + 1 THEN s[i] ELSE s[i + 1]
  <2>1. /\ i - 1 \in 0 .. (n - 2) /\ i - 1 \in 0 .. (n - 1) /\ i - 1 + 1 = i /\ i + 1 - 1 = i
        /\ i - 1 < j <=> i < j + 1
        /\ i - 1 < j => i \in 1 .. n /\ i - 1 # j
        /\ ~ (i - 1 < j) => i + 1 \in 1 .. n /\ i # j /\ i \in 0 .. (n - 1)
    BY SMT
  <2>2. \A k \in 1 .. n : s[k] = f[q[k - 1]]
    BY DEF ItemsOf
  <2> HIDE DEF s
  <2>3. CASE i - 1 < j
    BY <1>0, <2>1, <2>2, <2>3 DEF Removed
  <2>4. CASE ~ (i - 1 < j)
    BY <1>0, <2>1, <2>2, <2>4 DEF Removed
  <2> QED  BY <2>3, <2>4
<1> HIDE DEF s
<1>2. ItemsOf(q2, n - 1, f2) = Lost(s, n, j + 1)
  BY <1>1 DEF ItemsOf, Lost
<1> QED  BY <1>2 DEF s

\* A child is linked at place j.
LEMMA LinkStep ==
    ASSUME TypeOK, NEW q, Ordered(q), NEW j \in 0 .. len, NEW c, NEW d \in Data,
           Link(IF j = 0 THEN NULL ELSE q[j - 1], c, d, IF j = len THEN NULL ELSE q[j]),
           Answered
    PROVE  /\ TypeOK' /\ Follows(q)
           /\ Holding(Gained(ItemsOf(q, len, data), len, j + 1, d))
<1> DEFINE p == IF j = 0 THEN NULL ELSE q[j - 1]
           n == IF j = len THEN NULL ELSE q[j]
<1>1. /\ Linked(q, len, first, last, next, prev)
      /\ Children(q, len) \subseteq allocated /\ len \in Nat
  BY SMT DEF Ordered, TypeOK
<1>2. /\ c \in Node /\ c \notin allocated /\ c # NULL
      /\ allocated' = allocated \cup {c}
      /\ data' = [data EXCEPT ![c] = d]
      /\ next' = [x \in Node |-> IF x = c THEN n ELSE IF x = p THEN c ELSE next[x]]
      /\ prev' = [x \in Node |-> IF x = c THEN p ELSE IF x = n THEN c ELSE prev[x]]
      /\ first' = (IF p = NULL THEN c ELSE first)
      /\ last' = (IF n = NULL THEN c ELSE last)
      /\ len' = len + 1
  BY NodeAssumption DEF Link, Free
<1>3. /\ j # 0 => j - 1 \in 0 .. (len - 1)
      /\ j # len => j \in 0 .. (len - 1)
      /\ \A i \in 0 .. (len - 1) : i = j => j # len
      /\ \A i \in 0 .. (len - 1) : i = j - 1 => j # 0
  BY <1>1, SMT
<1>4. \A i \in 0 .. (len - 1) : /\ q[i] \in Node /\ q[i] # NULL /\ q[i] # c
                                /\ \A k \in 0 .. (len - 1) : q[i] = q[k] => i = k
  BY <1>1, <1>2, NodeAssumption DEF Linked, Children
<1>5. c \notin Children(q, len)
  BY <1>1, <1>2
<1>6. /\ first' = IF j = 0 THEN c ELSE first
      /\ last' = IF j = len THEN c ELSE last
  BY <1>2, <1>3, <1>4
<1>7. /\ next'[c] = IF j = len THEN NULL ELSE q[j]
      /\ j # 0 => next'[q[j - 1]] = c
      /\ \A i \in 0 .. (len - 1) : i # j - 1 => next'[q[i]] = next[q[i]]
  BY <1>2, <1>3, <1>4
<1>8. /\ prev'[c] = IF j = 0 THEN NULL ELSE q[j - 1]
      /\ j # len => prev'[q[j]] = c
      /\ \A i \in 0 .. (len - 1) : i # j => prev'[q[i]] = prev[q[i]]
  BY <1>2, <1>3, <1>4
<1>9. PICK q2 : /\ Linked(q2, len', first', last', next', prev')
                /\ Children(q2, len') = Children(q, len) \cup {c}
                /\ Inserted(q, len, j, c, q2)
  <2>1. c \in Node /\ len' = len + 1
    BY <1>2
  <2>2. \E q2 : /\ Linked(q2, len + 1, first', last', next', prev')
                /\ Children(q2, len + 1) = Children(q, len) \cup {c}
                /\ Inserted(q, len, j, c, q2)
    <3>1. EndsGain(len, j, c, first, last, first', last')
      BY <1>6 DEF EndsGain
    <3>2. LinksGain(q, len, j, c, next, prev, next', prev')
      BY <1>7, <1>8 DEF LinksGain
    <3> QED  BY <1>1, <1>5, <2>1, <3>1, <3>2, InsertLinked
  <2> QED  BY <2>1, <2>2
<1>10. Follows(q)
  BY <1>1, <1>2, <1>9 DEF Follows
<1>11. FieldsOK'
  <2>1. p \in Pointer /\ n \in Pointer
    BY <1>3, <1>4 DEF Pointer
  <2> HIDE DEF p, n
  <2> QED  BY <1>2, <2>1 DEF FieldsOK, TypeOK, Pointer
<1>12. len' \in Nat
  BY <1>1, <1>2, SMT
<1>13. Holding(Gained(ItemsOf(q, len, data), len, j + 1, d))
  <2>1. data'[c] = d /\ \A i \in 0 .. (len - 1) : data'[q[i]] = data[q[i]]
    BY <1>2, <1>4 DEF TypeOK
  <2>2. ItemsOf(q2, len', data') = Gained(ItemsOf(q, len, data), len, j + 1, d)
    <3> DEFINE g == data'
    <3>1. Inserted(q, len, j, c, q2) /\ len \in Nat /\ len' = len + 1
      BY <1>1, <1>2, <1>9
    <3>2. g[c] = d /\ Alike(q, 0 .. (len - 1), data, g)
      BY <2>1 DEF Alike
    <3> HIDE DEF g
    <3>3. ItemsOf(q2, len + 1, g) = Gained(ItemsOf(q, len, data), len, j + 1, d)
      BY <3>1, <3>2, InsertedItems
    <3> QED  BY <3>1, <3>3 DEF g
  <2>3. Ordered(q2)'
    BY <1>1, <1>2, <1>9 DEF Ordered
  <2> QED  BY <2>2, <2>3 DEF Holding
<1>14. TypeOK'
  BY <1>10, <1>11, <1>12, TypeFollows
<1> QED  BY <1>10, <1>13, <1>14

\* A child leaves the queue and is freed.
LEMMA UnlinkStep ==
    ASSUME TypeOK, NEW q, Ordered(q), NEW j \in 0 .. (len - 1), Unlink(q[j]), Answered
    PROVE  /\ TypeOK' /\ Follows(q)
           /\ Holding(Lost(ItemsOf(q, len, data), len, j + 1))
<1> DEFINE c == q[j]
<1>1. /\ Linked(q, len, first, last, next, prev)
      /\ Children(q, len) \subseteq allocated /\ len \in Nat
  BY SMT DEF Ordered, TypeOK
<1>2. \A i \in 0 .. (len - 1) : /\ q[i] \in Node /\ q[i] # NULL
                                /\ \A k \in 0 .. (len - 1) : q[i] = q[k] => i = k
                                /\ next[q[i]] = IF i = len - 1 THEN NULL ELSE q[i + 1]
                                /\ prev[q[i]] = IF i = 0 THEN NULL ELSE q[i - 1]
  BY <1>1, NodeAssumption DEF Linked
<1>3. /\ j # 0 => j - 1 \in 0 .. (len - 1)
      /\ j # len - 1 => j + 1 \in 0 .. (len - 1)
      /\ 0 \in 0 .. (len - 1) /\ len - 1 \in 0 .. (len - 1) /\ len # 0
      /\ len = 1 <=> len - 1 = 0
      /\ len = 1 => j = 0 /\ j = len - 1
      /\ len # 1 => ~ (j = 0 /\ j = len - 1)
      /\ j - 1 # j /\ j + 1 # j /\ len - 1 \in Nat
  BY <1>1, SMT
<1>4. /\ first = c <=> j = 0
      /\ last = c <=> j = len - 1
  <2>1. first = q[0] /\ last = q[len - 1]
    BY <1>1, <1>3 DEF Linked
  <2> QED  BY <1>2, <1>3, <2>1
<1>5. next \in [Node -> Pointer] /\ prev \in [Node -> Pointer]
  BY DEF TypeOK
<1>6. /\ allocated' = allocated \ {c} /\ len' = len - 1 /\ data' = Forget(data, {c})
      /\ first' = IF j = 0 THEN next[c] ELSE first
      /\ last' = IF j = len - 1 THEN prev[c] ELSE last
      /\ next' = Forget(IF j = 0 THEN next
                        ELSE [next EXCEPT ![prev[c]] = next[c]], {c})
      /\ prev' = Forget(IF j = len - 1 THEN prev
                        ELSE [prev EXCEPT ![next[c]] = prev[c]], {c})
  <2>1. allocated' = allocated \ {c} /\ len' = len - 1 /\ data' = Forget(data, {c})
    BY DEF Unlink
  <2>2. CASE len = 1
    <3>1. /\ first' = NULL /\ last' = NULL
          /\ next' = Forget(next, {c}) /\ prev' = Forget(prev, {c})
      BY <2>2 DEF Unlink
    <3> QED  BY <1>2, <1>3, <2>1, <2>2, <3>1
  <2>3. CASE len # 1 /\ j = 0
    <3>1. /\ first' = next[c] /\ last' = last
          /\ prev' = Forget([prev EXCEPT ![next[c]] = NULL], {c})
          /\ next' = Forget(next, {c})
      BY <1>4, <2>3 DEF Unlink
    <3> QED  BY <1>2, <1>3, <2>1, <2>3, <3>1
  <2>4. CASE len # 1 /\ j # 0 /\ j = len - 1
    <3>1. /\ last' = prev[c] /\ first' = first
          /\ next' = Forget([next EXCEPT ![prev[c]] = NULL], {c})
          /\ prev' = Forget(prev, {c})
      BY <1>4, <2>4 DEF Unlink
    <3> QED  BY <1>2, <1>3, <2>1, <2>4, <3>1
  <2>5. CASE len # 1 /\ j # 0 /\ j # len - 1
    <3>1. /\ last' = last /\ first' = first
          /\ prev' = Forget([prev EXCEPT ![next[c]] = prev[c]], {c})
          /\ next' = Forget([next EXCEPT ![prev[c]] = next[c]], {c})
      BY <1>4, <2>5 DEF Unlink
    <3> QED  BY <1>2, <1>3, <2>1, <2>5, <3>1
  <2> QED  BY <2>2, <2>3, <2>4, <2>5
<1>7. /\ j # 0 => next'[q[j - 1]] = next[c]
      /\ \A i \in 0 .. (len - 1) : i # j /\ i # j - 1 => next'[q[i]] = next[q[i]]
  BY <1>2, <1>3, <1>5, <1>6 DEF Forget
<1>8. /\ j # len - 1 => prev'[q[j + 1]] = prev[c]
      /\ \A i \in 0 .. (len - 1) : i # j /\ i # j + 1 => prev'[q[i]] = prev[q[i]]
  BY <1>2, <1>3, <1>5, <1>6 DEF Forget
<1>9. PICK q2 : /\ Linked(q2, len', first', last', next', prev')
                /\ Children(q2, len') = Children(q, len) \ {c}
                /\ Removed(q, len, j, q2)
  <2>1. /\ len' = len - 1
        /\ first' = IF j = 0 THEN next[q[j]] ELSE first
        /\ last' = IF j = len - 1 THEN prev[q[j]] ELSE last
    BY <1>6
  <2>2. \E q2 : /\ Linked(q2, len - 1, first', last', next', prev')
                /\ Children(q2, len - 1) = Children(q, len) \ {c}
                /\ Removed(q, len, j, q2)
    <3>1. EndsLose(q, len, j, first, last, next, prev, first', last')
      BY <2>1 DEF EndsLose
    <3>2. LinksLose(q, len, j, next, prev, next', prev')
      BY <1>7, <1>8 DEF LinksLose
    <3> QED  BY <1>1, <3>1, <3>2, RemoveLinked
  <2> QED  BY <2>1, <2>2
<1>10. c \in Children(q, len)
  BY DEF Children
<1>11. Follows(q)
  BY <1>1, <1>6, <1>9, <1>10 DEF Follows
<1>12. FieldsOK'
  <2>1. next[c] \in Pointer /\ prev[c] \in Pointer
    BY <1>2, <1>5
  <2> QED  BY <1>6, <2>1 DEF FieldsOK, TypeOK, Pointer, Forget
<1>13. Holding(Lost(ItemsOf(q, len, data), len, j + 1))
  <2>1. \A i \in 0 .. (len - 1) : i # j => data'[q[i]] = data[q[i]]
    BY <1>2, <1>6 DEF Forget
  <2>2. ItemsOf(q2, len', data') = Lost(ItemsOf(q, len, data), len, j + 1)
    <3> DEFINE g == data'
    <3>1. Removed(q, len, j, q2) /\ len \in Nat /\ len' = len - 1
      BY <1>1, <1>6, <1>9
    <3>2. Alike(q, (0 .. (len - 1)) \ {j}, data, g)
      BY <2>1 DEF Alike
    <3> HIDE DEF g
    <3>3. ItemsOf(q2, len - 1, g) = Lost(ItemsOf(q, len, data), len, j + 1)
      BY <3>1, <3>2, RemovedItems
    <3> QED  BY <3>1, <3>3 DEF g
  <2>3. Ordered(q2)'
    BY <1>1, <1>6, <1>9 DEF Ordered
  <2> QED  BY <2>2, <2>3 DEF Holding
<1>14. TypeOK'
  BY <1>3, <1>6, <1>11, <1>12, TypeFollows
<1> QED  BY <1>11, <1>13, <1>14

\* A call that leaves the links alone, with what the children hold after it.
LEMMA DataStep ==
    ASSUME TypeOK, NEW q, Ordered(q), UNCHANGED <<ends, links, allocated>>,
           data' \in [Node -> Data \cup {NULL}], Answered
    PROVE  TypeOK' /\ Follows(q) /\ Holding(ItemsOf(q, len, data'))
<1>1. UNCHANGED <<len, first, last, next, prev, allocated>>
  BY DEF ends, links
<1>2. Follows(q) /\ Ordered(q)'
  BY <1>1 DEF Follows, Ordered
<1>3. FieldsOK' /\ len' \in Nat
  BY <1>1, SMT DEF FieldsOK, TypeOK
<1>4. Holding(ItemsOf(q, len, data'))
  BY <1>1, <1>2 DEF Holding
<1>5. TypeOK'
  BY <1>2, <1>3, TypeFollows
<1> QED  BY <1>2, <1>4, <1>5

\* A call that leaves the queue alone.
LEMMA SameStep ==
    ASSUME TypeOK, NEW q, Ordered(q), UNCHANGED queue, Answered
    PROVE  TypeOK' /\ Follows(q) /\ Holding(ItemsOf(q, len, data))
<1>1. UNCHANGED <<ends, links, allocated>> /\ data' = data
  BY DEF queue, ends, links
<1> QED  BY <1>1, DataStep DEF TypeOK

\* The links as they are between the two halves of a move: the child at place j is passed by.
LEMMA TakeOut ==
    ASSUME TypeOK, NEW q, Ordered(q), NEW j \in 0 .. (len - 1)
    PROVE  LinksLose(q, len, j, next, prev,
                     IF j = 0 THEN next ELSE [next EXCEPT ![prev[q[j]]] = next[q[j]]],
                     IF j = len - 1 THEN prev ELSE [prev EXCEPT ![next[q[j]]] = prev[q[j]]])
<1>1. Linked(q, len, first, last, next, prev) /\ len \in Nat
  BY SMT DEF Ordered, TypeOK
<1>2. \A i \in 0 .. (len - 1) : /\ q[i] \in Node
                                /\ \A k \in 0 .. (len - 1) : q[i] = q[k] => i = k
                                /\ next[q[i]] = IF i = len - 1 THEN NULL ELSE q[i + 1]
                                /\ prev[q[i]] = IF i = 0 THEN NULL ELSE q[i - 1]
  BY <1>1 DEF Linked
<1>3. /\ j # 0 => j - 1 \in 0 .. (len - 1)
      /\ j # len - 1 => j + 1 \in 0 .. (len - 1)
  BY <1>1, SMT
<1>4. next \in [Node -> Pointer] /\ prev \in [Node -> Pointer]
  BY DEF TypeOK
<1> QED  BY <1>2, <1>3, <1>4 DEF LinksLose

\* A child goes to the end of the queue.
LEMMA MoveLastStep ==
    ASSUME TypeOK, NEW q, Ordered(q), len # 1, NEW j \in 0 .. (len - 1), j # len - 1,
           first' = (IF j = 0 THEN next[q[j]] ELSE first),
           next' = (IF j = 0 THEN [next EXCEPT ![last] = q[j], ![q[j]] = NULL]
                    ELSE [next EXCEPT ![prev[q[j]]] = next[q[j]], ![last] = q[j],
                                      ![q[j]] = NULL]),
           prev' = [prev EXCEPT ![next[q[j]]] = prev[q[j]], ![q[j]] = last],
           last' = q[j], UNCHANGED <<len, data, allocated>>, Answered
    PROVE  /\ TypeOK' /\ Follows(q)
           /\ Holding(Gained(Lost(ItemsOf(q, len, data), len, j + 1), len - 1, len, data[q[j]]))
<1> DEFINE c == q[j]
           fst == IF j = 0 THEN next[c] ELSE first
           nxt == IF j = 0 THEN next ELSE [next EXCEPT ![prev[c]] = next[c]]
           prv == [prev EXCEPT ![next[c]] = prev[c]]
           n == len - 1
<1>1. /\ Linked(q, len, first, last, next, prev)
      /\ Children(q, len) \subseteq allocated /\ len \in Nat
  BY SMT DEF Ordered, TypeOK
<1>2. /\ \A i \in 0 .. (len - 1) : q[i] \in Node
      /\ next \in [Node -> Pointer] /\ prev \in [Node -> Pointer]
      /\ c \in Node /\ c \in Children(q, len)
  BY <1>1 DEF Linked, TypeOK, Children
<1>3. n \in Nat /\ n # 0 /\ n - 1 \in 0 .. (n - 1) /\ n + 1 = len /\ n \in 0 .. n
      /\ \A i \in 0 .. (n - 1) : i # n
  BY <1>1, SMT
<1>4. PICK q1 : /\ Linked(q1, n, fst, last, nxt, prv)
                /\ Children(q1, n) = Children(q, len) \ {c}
                /\ Removed(q, len, j, q1)
  <2>1. EndsLose(q, len, j, first, last, next, prev, fst, last)
    BY DEF EndsLose
  <2>2. LinksLose(q, len, j, next, prev, nxt, prv)
    BY TakeOut
  <2> HIDE DEF fst, nxt, prv
  <2> QED  BY <1>1, <2>1, <2>2, RemoveLinked
<1>5. /\ last = q1[n - 1]
      /\ \A i \in 0 .. (n - 1) : /\ q1[i] \in Node /\ q1[i] # c
                                 /\ i # n - 1 => q1[i] # last
  BY <1>3, <1>4 DEF Linked, Children
<1>6. /\ next'[c] = NULL /\ next'[q1[n - 1]] = c
      /\ \A i \in 0 .. (n - 1) : i # n - 1 => next'[q1[i]] = nxt[q1[i]]
  <2>1. next' = [nxt EXCEPT ![last] = c, ![c] = NULL] /\ nxt \in [Node -> Pointer]
    BY <1>2
  <2> HIDE DEF nxt, c
  <2> QED  BY <1>2, <1>3, <1>5, <2>1
<1>7. /\ prev'[c] = q1[n - 1]
      /\ \A i \in 0 .. (n - 1) : i # n => prev'[q1[i]] = prv[q1[i]]
  <2>1. prev' = [prv EXCEPT ![c] = last] /\ prv \in [Node -> Pointer]
    BY <1>2
  <2> HIDE DEF prv, c
  <2> QED  BY <1>2, <1>5, <2>1
<1>8. first' = fst /\ last' = c /\ len' = n + 1
  BY <1>3
<1>9. PICK q2 : /\ Linked(q2, n + 1, first', last', next', prev')
                /\ Children(q2, n + 1) = Children(q1, n) \cup {c}
                /\ Inserted(q1, n, n, c, q2)
  <2>1. c \notin Children(q1, n)
    BY <1>4
  <2>2. /\ first' = IF n = 0 THEN c ELSE fst
        /\ last' = IF n = n THEN c ELSE last
    BY <1>3, <1>8
  <2>3. /\ next'[c] = IF n = n THEN NULL ELSE q1[n]
        /\ n # 0 => next'[q1[n - 1]] = c
    BY <1>6
  <2>4. /\ prev'[c] = IF n = 0 THEN NULL ELSE q1[n - 1]
        /\ n # n => prev'[q1[n]] = c
    BY <1>3, <1>7
  <2> HIDE DEF nxt, prv, fst, c, n
  <2>5. EndsGain(n, n, c, fst, last, first', last')
    BY <2>2 DEF EndsGain
  <2>6. LinksGain(q1, n, n, c, nxt, prv, next', prev')
    BY <1>6, <1>7, <2>3, <2>4 DEF LinksGain
  <2> QED  BY <1>2, <1>3, <1>4, <2>1, <2>5, <2>6, InsertLinked
<1>10. Follows(q)
  <2>1. Children(q1, n) \cup {c} = Children(q, len)
    BY <1>2, <1>4
  <2> QED  BY <1>1, <1>8, <1>9, <2>1 DEF Follows
<1>11. FieldsOK'
  <2>1. first' \in Pointer /\ last' \in Pointer /\ next[c] \in Pointer /\ prev[c] \in Pointer
    BY <1>2 DEF Pointer, TypeOK
  <2> QED  BY <1>2, <2>1 DEF FieldsOK, TypeOK, Pointer
<1>12. Holding(Gained(Lost(ItemsOf(q, len, data), len, j + 1), n, len, data[c]))
  <2>1. ItemsOf(q1, n, data) = Lost(ItemsOf(q, len, data), len, j + 1)
    <3>1. Alike(q, (0 .. (len - 1)) \ {j}, data, data)
      BY DEF Alike
    <3> QED  BY <1>1, <1>4, <3>1, RemovedItems
  <2>2. ItemsOf(q2, n + 1, data) = Gained(ItemsOf(q1, n, data), n, n + 1, data[c])
    <3>1. Alike(q1, 0 .. (n - 1), data, data)
      BY DEF Alike
    <3> HIDE DEF n, c
    <3> QED  BY <1>3, <1>9, <3>1, InsertedItems
  <2>3. Ordered(q2)'
    <3>1. Children(q1, n) \cup {c} = Children(q, len)
      BY <1>2, <1>4
    <3> QED  BY <1>1, <1>8, <1>9, <3>1 DEF Ordered
  <2>4. len' = n + 1 /\ data' = data /\ n + 1 = len
    BY <1>3, <1>8
  <2> QED  BY <2>1, <2>2, <2>3, <2>4 DEF Holding
<1>13. TypeOK'
  BY <1>1, <1>10, <1>11, TypeFollows
<1> QED  BY <1>10, <1>12, <1>13

\* A child goes to the front of the queue.
LEMMA MoveFirstStep ==
    ASSUME TypeOK, NEW q, Ordered(q), len # 1, NEW j \in 0 .. (len - 1), j # 0,
           last' = (IF j = len - 1 THEN prev[q[j]] ELSE last),
           next' = [next EXCEPT ![prev[q[j]]] = next[q[j]], ![q[j]] = first],
           prev' = (IF j = len - 1 THEN [prev EXCEPT ![first] = q[j], ![q[j]] = NULL]
                    ELSE [prev EXCEPT ![next[q[j]]] = prev[q[j]], ![first] = q[j],
                                      ![q[j]] = NULL]),
           first' = q[j], UNCHANGED <<len, data, allocated>>, Answered
    PROVE  /\ TypeOK' /\ Follows(q)
           /\ Holding(Gained(Lost(ItemsOf(q, len, data), len, j + 1), len - 1, 1, data[q[j]]))
<1> DEFINE c == q[j]
           lst == IF j = len - 1 THEN prev[c] ELSE last
           nxt == [next EXCEPT ![prev[c]] = next[c]]
           prv == IF j = len - 1 THEN prev ELSE [prev EXCEPT ![next[c]] = prev[c]]
           n == len - 1
<1>1. /\ Linked(q, len, first, last, next, prev)
      /\ Children(q, len) \subseteq allocated /\ len \in Nat
  BY SMT DEF Ordered, TypeOK
<1>2. /\ \A i \in 0 .. (len - 1) : q[i] \in Node
      /\ next \in [Node -> Pointer] /\ prev \in [Node -> Pointer]
      /\ c \in Node /\ c \in Children(q, len)
  BY <1>1 DEF Linked, TypeOK, Children
<1>3. n \in Nat /\ n # 0 /\ 0 \in 0 .. (n - 1) /\ n + 1 = len /\ 0 \in 0 .. n
      /\ \A i \in 0 .. (n - 1) : i # 0 - 1
  BY <1>1, SMT
<1>4. PICK q1 : /\ Linked(q1, n, first, lst, nxt, prv)
                /\ Children(q1, n) = Children(q, len) \ {c}
                /\ Removed(q, len, j, q1)
  <2>1. EndsLose(q, len, j, first, last, next, prev, first, lst)
    BY DEF EndsLose
  <2>2. LinksLose(q, len, j, next, prev, nxt, prv)
    BY TakeOut
  <2> HIDE DEF lst, nxt, prv
  <2> QED  BY <1>1, <2>1, <2>2, RemoveLinked
<1>5. /\ first = q1[0]
      /\ \A i \in 0 .. (n - 1) : /\ q1[i] \in Node /\ q1[i] # c
                                 /\ i # 0 => q1[i] # first
  <2>1. first = q1[0] /\ \A i \in 0 .. (n - 1) : q1[i] \in Node /\ (q1[i] = q1[0] => i = 0)
    BY <1>3, <1>4 DEF Linked
  <2>2. \A i \in 0 .. (n - 1) : q1[i] # c
    BY <1>4 DEF Children
  <2> QED  BY <2>1, <2>2
<1>6. /\ next'[c] = q1[0]
      /\ \A i \in 0 .. (n - 1) : next'[q1[i]] = nxt[q1[i]]
  <2>1. next' = [nxt EXCEPT ![c] = first] /\ nxt \in [Node -> Pointer]
    BY <1>2
  <2> HIDE DEF nxt, c
  <2> QED  BY <1>2, <1>5, <2>1
<1>7. /\ prev'[c] = NULL /\ prev'[q1[0]] = c
      /\ \A i \in 0 .. (n - 1) : i # 0 => prev'[q1[i]] = prv[q1[i]]
  <2>1. prev' = [prv EXCEPT ![first] = c, ![c] = NULL] /\ prv \in [Node -> Pointer]
    BY <1>2
  <2> HIDE DEF prv, c
  <2> QED  BY <1>2, <1>3, <1>5, <2>1
<1>8. first' = c /\ last' = lst /\ len' = n + 1
  BY <1>3
<1>9. PICK q2 : /\ Linked(q2, n + 1, first', last', next', prev')
                /\ Children(q2, n + 1) = Children(q1, n) \cup {c}
                /\ Inserted(q1, n, 0, c, q2)
  <2>1. c \notin Children(q1, n)
    BY <1>4
  <2> HIDE DEF nxt, prv, lst, c, n
  <2>2. EndsGain(n, 0, c, first, lst, first', last')
    BY <1>3, <1>8 DEF EndsGain
  <2>3. LinksGain(q1, n, 0, c, nxt, prv, next', prev')
    BY <1>3, <1>6, <1>7 DEF LinksGain
  <2> QED  BY <1>2, <1>3, <1>4, <2>1, <2>2, <2>3, InsertLinked
<1>10. Follows(q)
  <2>1. Children(q1, n) \cup {c} = Children(q, len)
    BY <1>2, <1>4
  <2> QED  BY <1>1, <1>8, <1>9, <2>1 DEF Follows
<1>11. FieldsOK'
  <2>1. first' \in Pointer /\ last' \in Pointer /\ next[c] \in Pointer /\ prev[c] \in Pointer
    BY <1>2 DEF Pointer, TypeOK
  <2> QED  BY <1>2, <2>1 DEF FieldsOK, TypeOK, Pointer
<1>12. Holding(Gained(Lost(ItemsOf(q, len, data), len, j + 1), n, 1, data[c]))
  <2>1. ItemsOf(q1, n, data) = Lost(ItemsOf(q, len, data), len, j + 1)
    <3>1. Alike(q, (0 .. (len - 1)) \ {j}, data, data)
      BY DEF Alike
    <3> QED  BY <1>1, <1>4, <3>1, RemovedItems
  <2>2. ItemsOf(q2, n + 1, data) = Gained(ItemsOf(q1, n, data), n, 0 + 1, data[c])
    <3>1. Alike(q1, 0 .. (n - 1), data, data)
      BY DEF Alike
    <3> DEFINE z == 0
    <3>2. z \in 0 .. n /\ Inserted(q1, n, z, c, q2)
      BY <1>3, <1>9
    <3> HIDE DEF n, c, z
    <3>3. ItemsOf(q2, n + 1, data) = Gained(ItemsOf(q1, n, data), n, z + 1, data[c])
      BY <1>3, <3>1, <3>2, InsertedItems
    <3> QED  BY <3>3 DEF z
  <2>3. Ordered(q2)'
    <3>1. Children(q1, n) \cup {c} = Children(q, len)
      BY <1>2, <1>4
    <3> QED  BY <1>1, <1>8, <1>9, <3>1 DEF Ordered
  <2>4. len' = n + 1 /\ data' = data /\ 0 + 1 = 1
    BY <1>3, <1>8
  <2> QED  BY <2>1, <2>2, <2>3, <2>4 DEF Holding
<1>13. TypeOK'
  BY <1>1, <1>10, <1>11, TypeFollows
<1> QED  BY <1>10, <1>12, <1>13

-------------------------------------------------------------------------------
(* The calls, one by one.                                                        *)

\* The calls that unlink what PickChild or PickChildNth found, or the first child.
LEMMA RemvSteps ==
    ASSUME TypeOK, NEW q, Ordered(q),
           \/ \E d \in Data : bb_queue_remv(d)
           \/ \E pos \in Position : bb_queue_remv_nth(pos) \/ bb_queue_get_nth(pos)
           \/ bb_queue_get_first
    PROVE  TypeOK' /\ Follows(q)
<1>1. /\ Linked(q, len, first, last, next, prev) /\ len \in Nat
      /\ data \in [Node -> Data \cup {NULL}]
      /\ \A i \in 0 .. (len - 1) : q[i] \in Node
  BY SMT DEF Ordered, TypeOK, Linked
<1>2. CASE \E d \in Data : bb_queue_remv(d)
  <2>1. PICK d \in Data : bb_queue_remv(d)
    BY <1>2
  <2>2. Answered
    <3>1. (ret' = 0 \/ ret' = 1) /\ crashed' = FALSE
      BY <2>1 DEF bb_queue_remv, Called
    <3>2. 0 \in Int /\ 1 \in Int
      BY SMT
    <3> QED  BY <3>1, <3>2 DEF Answered
  <2>3. CASE PickChild(d) = NULL
    <3>1. UNCHANGED queue
      BY <2>1, <2>3 DEF bb_queue_remv
    <3> QED  BY <2>2, <3>1, SameStep
  <2>4. CASE PickChild(d) # NULL
    <3>1. PICK j \in 0 .. (len - 1) : PickChild(d) = q[j]
      BY <1>1, <2>4, PickChildFacts
    <3>2. Unlink(q[j])
      BY <2>1, <2>4, <3>1 DEF bb_queue_remv
    <3> QED  BY <2>2, <3>2, UnlinkStep
  <2> QED  BY <2>3, <2>4
<1>3. CASE \E pos \in Position : bb_queue_remv_nth(pos)
  <2>1. PICK pos \in Position : bb_queue_remv_nth(pos)
    BY <1>3
  <2>2. pos \in Int
    BY NodeAssumption
  <2>3. CASE PickChildNth(pos) = NULL
    <3>1. UNCHANGED queue
      BY <2>1, <2>3 DEF bb_queue_remv_nth
    <3>2. Answered
      BY <2>1, <2>3 DEF bb_queue_remv_nth, Called, Answered
    <3> QED  BY <3>1, <3>2, SameStep
  <2>4. CASE PickChildNth(pos) # NULL
    <3>1. PICK j \in 0 .. (len - 1) : PickChildNth(pos) = q[j]
      BY <1>1, <2>2, <2>4, PickChildNthFacts
    <3>2. Unlink(q[j]) /\ Called("remv_nth", pos, data[q[j]])
      BY <2>1, <2>4, <3>1 DEF bb_queue_remv_nth
    <3>3. Answered
      BY <1>1, <3>2 DEF Called, Answered
    <3> QED  BY <3>2, <3>3, UnlinkStep
  <2> QED  BY <2>3, <2>4
<1>4. CASE \E pos \in Position : bb_queue_get_nth(pos)
  <2>1. PICK pos \in Position : bb_queue_get_nth(pos)
    BY <1>4
  <2> DEFINE place == IF pos < 0 THEN len + pos ELSE pos
  <2>2. place \in Int
    <3>1. pos \in Int
      BY NodeAssumption
    <3> QED  BY <1>1, <3>1, SMT
  <2>3. CASE PickNth(pos) = NULL
    <3>1. UNCHANGED queue
      BY <2>1, <2>3 DEF bb_queue_get_nth
    <3>2. Answered
      BY <2>1, <2>3 DEF bb_queue_get_nth, Called, Answered
    <3> QED  BY <3>1, <3>2, SameStep
  <2>4. CASE PickNth(pos) # NULL
    <3>1. PickChildNth(place) # NULL /\ PickNth(pos) = data[PickChildNth(place)]
      BY <2>4 DEF PickNth
    <3>2. PICK k \in 0 .. (len - 1) : PickChildNth(place) = q[k]
      <4> HIDE DEF place
      <4> QED  BY <1>1, <2>2, <3>1, PickChildNthFacts
    <3>3. PickChild(PickNth(pos)) # NULL
      BY <1>1, <3>1, <3>2, PickChildFacts
    <3>4. PICK j \in 0 .. (len - 1) : PickChild(PickNth(pos)) = q[j]
      BY <1>1, <3>3, PickChildFacts
    <3>5. Unlink(q[j]) /\ Called("get_nth", pos, data[q[k]])
      BY <2>1, <2>4, <3>1, <3>2, <3>4 DEF bb_queue_get_nth
    <3>6. Answered
      BY <1>1, <3>5 DEF Called, Answered
    <3> QED  BY <3>5, <3>6, UnlinkStep
  <2> QED  BY <2>3, <2>4
<1>5. CASE bb_queue_get_first
  <2>1. CASE len <= 0 /\ UNCHANGED queue /\ Called("get_first", NULL, NULL)
    <3>1. Answered
      BY <2>1 DEF Called, Answered
    <3> QED  BY <2>1, <3>1, SameStep
  <2>2. CASE len > 0 /\ Unlink(first) /\ Called("get_first", NULL, data[first])
    <3>1. first = q[0] /\ 0 \in 0 .. (len - 1)
      <4>1. len # 0
        BY <1>1, <2>2, SMT
      <4> QED  BY <1>1, <4>1, EndsAreChildren
    <3>2. Answered
      BY <1>1, <2>2, <3>1 DEF Called, Answered
    <3> QED  BY <2>2, <3>1, <3>2, UnlinkStep
  <2> QED  BY <1>5, <2>1, <2>2 DEF bb_queue_get_first
<1> QED  BY <1>2, <1>3, <1>4, <1>5


\* bb_queue_pop unlinks the last child; bb_queue_clear frees all of them.
LEMMA PopAndClearSteps ==
    ASSUME TypeOK, NEW q, Ordered(q), bb_queue_pop \/ bb_queue_clear
    PROVE  TypeOK' /\ Follows(q)
<1>1. /\ Linked(q, len, first, last, next, prev) /\ Children(q, len) \subseteq allocated
      /\ len \in Nat /\ data \in [Node -> Data \cup {NULL}]
      /\ \A i \in 0 .. (len - 1) : q[i] \in Node
  BY SMT DEF Ordered, TypeOK, Linked
<1>2. CASE bb_queue_pop
  <2>1. CASE len <= 0 /\ UNCHANGED queue /\ Called("pop", NULL, NULL)
    <3>1. Answered
      BY <2>1 DEF Called, Answered
    <3> QED  BY <2>1, <3>1, SameStep
  <2>2. CASE len > 0
    <3>1. len # 0 /\ ~ (len <= 0)
      BY <1>1, <2>2, SMT
    <3>2. /\ last = q[len - 1] /\ first = q[0]
          /\ len - 1 \in 0 .. (len - 1) /\ 0 \in 0 .. (len - 1)
      BY <1>1, <3>1, EndsAreChildren
    <3>3. len # 1 => first # last
      <4>1. len # 1 => len - 1 # 0
        BY <1>1, SMT
      <4> QED  BY <1>1, <3>2, <4>1 DEF Linked
    <3>4. Called("pop", NULL, data[last])
      BY <1>2, <3>1 DEF bb_queue_pop
    <3>5. Answered
      BY <1>1, <3>2, <3>4 DEF Called, Answered
    <3>6. Unlink(last)
      BY <1>2, <3>1, <3>3 DEF bb_queue_pop, Unlink
    <3> QED  BY <3>2, <3>5, <3>6, UnlinkStep
  <2> QED  BY <1>2, <2>1, <2>2 DEF bb_queue_pop
<1>3. CASE bb_queue_clear
  <2> DEFINE freed == {Backward[i] : i \in 0 .. (len - 1)}
  <2>1. freed = Children(q, len)
    <3>1. \A i \in Nat : Backward[i] = IF i < len THEN q[len - 1 - i] ELSE NULL
      BY <1>1, WalksMeetChildren
    <3>2. \A i \in 0 .. (len - 1) : /\ i \in Nat /\ i < len
                                    /\ len - 1 - i \in 0 .. (len - 1)
                                    /\ len - 1 - (len - 1 - i) = i
      BY <1>1, SMT
    <3>3. \A i \in 0 .. (len - 1) : Backward[i] = q[len - 1 - i]
      BY <3>1, <3>2
    <3>4. \A i \in 0 .. (len - 1) : q[i] = Backward[len - 1 - i]
      BY <3>2, <3>3
    <3>5. freed \subseteq Children(q, len)
      BY <3>2, <3>3 DEF Children
    <3>6. Children(q, len) \subseteq freed
      BY <3>2, <3>4 DEF Children
    <3> QED  BY <3>5, <3>6
  <2> HIDE DEF freed
  <2>2. /\ len' = 0 /\ first' = NULL /\ last' = NULL
        /\ allocated' = allocated \ freed
        /\ next' = Forget(next, freed) /\ prev' = Forget(prev, freed)
        /\ data' = Forget(data, freed)
        /\ Called("clear", NULL, NULL)
    BY <1>3 DEF bb_queue_clear, freed
  <2>3. Answered
    BY <2>2 DEF Called, Answered
  <2>4. Follows(q)
    <3>1. 0 .. (0 - 1) = {}
      BY SMT
    <3>2. Linked(q, 0, NULL, NULL, next', prev')
      BY <3>1 DEF Linked
    <3>3. Children(q, 0) = {}
      BY <3>1 DEF Children
    <3> QED  BY <2>1, <2>2, <3>2, <3>3 DEF Follows
  <2>5. FieldsOK' /\ len' \in Nat
    BY <2>2 DEF FieldsOK, TypeOK, Pointer, Forget
  <2> QED  BY <2>3, <2>4, <2>5, TypeFollows
<1> QED  BY <1>2, <1>3

\* The calls that link a child at an end, or next to one that holds some data.
LEMMA LinkSteps ==
    ASSUME TypeOK, NEW q, Ordered(q),
           \/ \E d \in Data : bb_queue_add(d) \/ bb_queue_push(d)
           \/ \E d1, d2 \in Data : \/ bb_queue_insert_after(d1, d2)
                                   \/ bb_queue_insert_before(d1, d2)
                                   \/ bb_queue_insert_before_bb_child(d1, d2)
    PROVE  TypeOK' /\ Follows(q)
<1>1. /\ Linked(q, len, first, last, next, prev) /\ len \in Nat
      /\ 0 \in 0 .. len /\ len \in 0 .. len
  <2>1. len \in Nat
    BY SMT DEF TypeOK
  <2> QED  BY <2>1, SMT DEF Ordered
<1>2. /\ len = 0 => first = NULL /\ last = NULL
      /\ len # 0 => first = q[0] /\ last = q[len - 1]
      /\ \A i \in 0 .. (len - 1) : q[i] \in Node /\ q[i] # NULL
  BY <1>1, EndsAreChildren
<1>3. ASSUME NEW c, NEW d \in Data, AddChild(c, d), Answered PROVE TypeOK' /\ Follows(q)
  <2>1. Link(IF len = 0 THEN NULL ELSE q[len - 1], c, d, IF len = len THEN NULL ELSE q[len])
    BY <1>2, <1>3 DEF AddChild
  <2> QED  BY <1>1, <1>3, <2>1, LinkStep
<1>4. ASSUME NEW c, NEW d \in Data, PushChild(c, d), Answered PROVE TypeOK' /\ Follows(q)
  <2>1. Link(IF 0 = 0 THEN NULL ELSE q[0 - 1], c, d, IF 0 = len THEN NULL ELSE q[0])
    BY <1>2, <1>4 DEF PushChild
  <2> QED  BY <1>1, <1>4, <2>1, LinkStep
<1>5. CASE \E d \in Data : bb_queue_add(d)
  <2>1. PICK d \in Data, c \in Node : AddChild(c, d) /\ Called("add", d, NULL)
    BY <1>5 DEF bb_queue_add
  <2> QED  BY <1>3, <2>1 DEF Called, Answered
<1>6. CASE \E d \in Data : bb_queue_push(d)
  <2>1. PICK d \in Data, c \in Node : PushChild(c, d) /\ Called("push", d, NULL)
    BY <1>6 DEF bb_queue_push
  <2> QED  BY <1>4, <2>1 DEF Called, Answered
<1>7. ASSUME NEW name, NEW before \in Data, NEW d \in Data, InsertAfter(name, before, d)
      PROVE  TypeOK' /\ Follows(q)
  <2> DEFINE b == PickChild(before)
  <2>1. Answered
    BY <1>7 DEF InsertAfter, Answered
  <2>2. CASE \E c \in Node : AddChild(c, d)
    BY <1>3, <2>1, <2>2
  <2>3. CASE b # NULL /\ b # last /\ \E c \in Node : Link(b, c, d, next[b])
    <3>1. PICK c \in Node : Link(b, c, d, next[b])
      BY <2>3
    <3>2. PICK j \in 0 .. (len - 1) : b = q[j]
      BY <1>1, <2>3, PickChildFacts
    <3>3. /\ j + 1 \in 0 .. len /\ j + 1 # 0 /\ (j + 1) - 1 = j
          /\ len # 0 /\ (j + 1 = len <=> j = len - 1)
      BY <1>1, SMT
    <3>4. j + 1 # len /\ next[b] = q[j + 1]
      BY <1>1, <1>2, <2>3, <3>2, <3>3 DEF Linked
    <3>5. Link(IF j + 1 = 0 THEN NULL ELSE q[j + 1 - 1], c, d,
               IF j + 1 = len THEN NULL ELSE q[j + 1])
      BY <3>1, <3>2, <3>3, <3>4
    <3> QED  BY <2>1, <3>3, <3>5, LinkStep
  <2>4. CASE UNCHANGED queue
    BY <2>1, <2>4, SameStep
  <2> QED  BY <1>7, <2>2, <2>3, <2>4 DEF InsertAfter
<1>8. CASE \E d1, d2 \in Data : bb_queue_insert_after(d1, d2) \/ bb_queue_insert_before(d1, d2)
  BY <1>7, <1>8 DEF bb_queue_insert_after, bb_queue_insert_before
<1>9. CASE \E d1, d2 \in Data : bb_queue_insert_before_bb_child(d1, d2)
  <2>1. PICK after, d \in Data : bb_queue_insert_before_bb_child(after, d)
    BY <1>9
  <2> DEFINE a == PickChild(after)
  <2>2. Answered
    BY <2>1 DEF bb_queue_insert_before_bb_child, Answered
  <2>3. CASE \E c \in Node : PushChild(c, d)
    BY <1>4, <2>2, <2>3
  <2>4. CASE a # NULL /\ a # first /\ \E c \in Node : Link(prev[a], c, d, a)
    <3>1. PICK c \in Node : Link(prev[a], c, d, a)
      BY <2>4
    <3>2. PICK j \in 0 .. (len - 1) : a = q[j]
      BY <1>1, <2>4, PickChildFacts
    <3>3. j \in 0 .. len /\ j # len /\ len # 0
      BY <1>1, SMT
    <3>4. j # 0 /\ prev[a] = q[j - 1]
      BY <1>1, <1>2, <2>4, <3>2, <3>3 DEF Linked
    <3>5. Link(IF j = 0 THEN NULL ELSE q[j - 1], c, d, IF j = len THEN NULL ELSE q[j])
      BY <3>1, <3>2, <3>3, <3>4
    <3> QED  BY <2>2, <3>3, <3>5, LinkStep
  <2>5. CASE UNCHANGED queue
    BY <2>2, <2>5, SameStep
  <2> QED  BY <2>1, <2>3, <2>4, <2>5 DEF bb_queue_insert_before_bb_child
<1> QED  BY <1>5, <1>6, <1>8, <1>9


\* The place that an item added at a position takes.
PlaceOf(pos) == IF pos = 0 THEN 1 ELSE IF pos >= len THEN len + 1 ELSE pos + 2

\* bb_queue_add_nth, of a caller that is careful.
LEMMA AddNthStep ==
    ASSUME TypeOK, NEW q, Ordered(q), Careful, NEW d \in Data, NEW pos \in Position,
           bb_queue_add_nth(d, pos)
    PROVE  /\ TypeOK' /\ Follows(q)
           /\ pos < 0 => Holding(ItemsOf(q, len, data))
           /\ pos >= 0 => Holding(Gained(ItemsOf(q, len, data), len, PlaceOf(pos), d))
<1>1. /\ Linked(q, len, first, last, next, prev) /\ Children(q, len) \subseteq allocated
      /\ len \in Nat /\ pos \in Int /\ allocated \subseteq Node
      /\ next \in [Node -> Pointer] /\ prev \in [Node -> Pointer]
      /\ data \in [Node -> Data \cup {NULL}]
      /\ 0 \in 0 .. len /\ len \in 0 .. len
  <2>1. len \in Nat
    BY SMT DEF TypeOK
  <2> QED  BY <2>1, NodeAssumption, SMT DEF Ordered, TypeOK
<1>2. /\ len = 0 => first = NULL /\ last = NULL
      /\ len # 0 => /\ first = q[0] /\ 0 \in 0 .. (len - 1)
                    /\ last = q[len - 1] /\ len - 1 \in 0 .. (len - 1)
      /\ \A i \in 0 .. (len - 1) : q[i] \in Node /\ q[i] # NULL
  BY <1>1, EndsAreChildren
<1>3. /\ Called("add_nth", <<d, pos>>, NULL)
      /\ ~ (pos > 0 /\ pos = len - 1)
  BY DEF bb_queue_add_nth
<1>4. Answered /\ call'[1] = "add_nth"
  BY <1>3 DEF Called, Answered
<1>5. CASE pos < 0 /\ UNCHANGED queue
  <2>1. ~ (pos >= 0)
    BY <1>1, <1>5, SMT
  <2> QED  BY <1>4, <1>5, <2>1, SameStep
<1>6. CASE pos = 0 /\ len # 0 /\ \E c \in Node : Link(NULL, c, d, first)
  <2>1. PICK c \in Node : Link(NULL, c, d, first)
    BY <1>6
  <2> DEFINE z == 0
  <2>2. Link(IF z = 0 THEN NULL ELSE q[z - 1], c, d, IF z = len THEN NULL ELSE q[z])
    BY <1>2, <1>6, <2>1
  <2>3. z \in 0 .. len /\ z + 1 = 1 /\ ~ (pos < 0)
    BY <1>1, <1>6, SMT
  <2> HIDE DEF z
  <2>4. /\ TypeOK' /\ Follows(q)
        /\ Holding(Gained(ItemsOf(q, len, data), len, z + 1, d))
    BY <1>4, <2>2, <2>3, LinkStep
  <2> QED  BY <1>6, <2>3, <2>4 DEF PlaceOf
<1>7. CASE pos = len /\ len # 0 /\ \E c \in Node : Link(last, c, d, NULL)
  <2>1. PICK c \in Node : Link(last, c, d, NULL)
    BY <1>7
  <2>2. Link(IF len = 0 THEN NULL ELSE q[len - 1], c, d, IF len = len THEN NULL ELSE q[len])
    BY <1>2, <1>7, <2>1
  <2>3. pos # 0 /\ pos >= len /\ ~ (pos < 0)
    BY <1>1, <1>7, SMT
  <2>4. /\ TypeOK' /\ Follows(q)
        /\ Holding(Gained(ItemsOf(q, len, data), len, len + 1, d))
    BY <1>1, <1>4, <2>2, LinkStep
  <2> QED  BY <2>3, <2>4 DEF PlaceOf
<1>8. CASE /\ pos >= 0
           /\ pos > len \/ len = 0
           /\ \E lost, c \in Node :
                /\ lost # c
                /\ Free(lost) /\ Free(c)
                /\ allocated' = allocated \cup {lost, c}
                /\ data' = [data EXCEPT ![c] = d, ![lost] = d]
                /\ next' = [x \in Node |-> IF x \in {c, lost} THEN NULL
                                           ELSE IF x = last THEN c ELSE next[x]]
                /\ prev' = [x \in Node |-> IF x = c THEN last
                                           ELSE IF x = lost THEN NULL ELSE prev[x]]
                /\ first' = (IF len = 0 THEN c ELSE first)
                /\ last' = c
                /\ len' = len + 1
  <2>1. PICK lost, c \in Node :
          /\ lost # c
          /\ lost \notin allocated /\ c \notin allocated
          /\ allocated' = allocated \cup {lost, c}
          /\ data' = [data EXCEPT ![c] = d, ![lost] = d]
          /\ next' = [x \in Node |-> IF x \in {c, lost} THEN NULL
                                     ELSE IF x = last THEN c ELSE next[x]]
          /\ prev' = [x \in Node |-> IF x = c THEN last
                                     ELSE IF x = lost THEN NULL ELSE prev[x]]
          /\ first' = (IF len = 0 THEN c ELSE first)
          /\ last' = c
          /\ len' = len + 1
    BY <1>8 DEF Free
  <2>2. \A i \in 0 .. (len - 1) : q[i] # c /\ q[i] # lost
    BY <1>1, <2>1 DEF Children
  <2>3. EndsGain(len, len, c, first, last, first', last')
    BY <2>1 DEF EndsGain
  <2>4. LinksGain(q, len, len, c, next, prev, next', prev')
    <3>1. /\ next'[c] = NULL /\ prev'[c] = last
          /\ len # 0 => next'[q[len - 1]] = c
      BY <1>2, <2>1, <2>2
    <3>2. ASSUME NEW i \in 0 .. (len - 1)
          PROVE  /\ i # len - 1 => next'[q[i]] = next[q[i]]
                 /\ prev'[q[i]] = prev[q[i]]
      <4>1. len # 0
        BY <1>1, SMT
      <4>2. i # len - 1 => q[i] # last
        BY <1>1, <1>2, <4>1 DEF Linked
      <4> QED  BY <1>2, <2>1, <2>2, <4>2
    <3> QED  BY <1>2, <3>1, <3>2 DEF LinksGain
  <2>5. c \notin Children(q, len)
    BY <1>1, <2>1
  <2>6. PICK q2 : /\ Linked(q2, len + 1, first', last', next', prev')
                  /\ Children(q2, len + 1) = Children(q, len) \cup {c}
                  /\ Inserted(q, len, len, c, q2)
    BY <1>1, <2>3, <2>4, <2>5, InsertLinked
  <2>7. Follows(q)
    BY <1>1, <1>4, <2>1, <2>6 DEF Follows
  <2>8. first \in Pointer /\ last \in Pointer /\ len' \in Nat
    BY <1>1, <2>1, SMT DEF TypeOK
  <2>9. FieldsOK'
    BY <1>1, <2>1, <2>8 DEF FieldsOK, Pointer
  <2>10. Holding(Gained(ItemsOf(q, len, data), len, len + 1, d))
    <3> DEFINE g == data'
    <3>1. g[c] = d /\ Alike(q, 0 .. (len - 1), data, g)
      BY <1>1, <1>2, <2>1, <2>2 DEF Alike
    <3>2. Ordered(q2)'
      BY <1>1, <2>1, <2>6 DEF Ordered
    <3>3. ItemsOf(q2, len + 1, g) = Gained(ItemsOf(q, len, data), len, len + 1, d)
      <4> HIDE DEF g
      <4> QED  BY <1>1, <2>6, <3>1, InsertedItems
    <3> QED  BY <2>1, <3>2, <3>3 DEF Holding
  <2>11. PlaceOf(pos) = len + 1 /\ ~ (pos < 0)
    BY <1>1, <1>8, SMT DEF PlaceOf
  <2> QED  BY <1>4, <2>7, <2>8, <2>9, <2>10, <2>11, TypeFollows
<1>9. CASE /\ pos > 0 /\ pos < len
           /\ LET before == PickChildNth(pos)
              IN  \E c \in Node :
                    /\ before # NULL
                    /\ Free(c)
                    /\ allocated' = allocated \cup {c}
                    /\ data' = [data EXCEPT ![c] = d]
                    /\ next' = [next EXCEPT ![before] = c, ![c] = next[before]]
                    /\ prev' = [x \in Node |-> IF x = c THEN before
                                               ELSE IF x = next[before] THEN c ELSE prev[x]]
                    /\ UNCHANGED <<first, last>>
                    /\ len' = len + 1
  <2>1. /\ pos \in 0 .. (len - 1) /\ pos # len - 1 /\ pos + 1 \in 0 .. len
        /\ pos + 1 # 0 /\ pos + 1 # len /\ (pos + 1) - 1 = pos /\ pos + 1 \in 0 .. (len - 1)
    BY <1>1, <1>3, <1>9, SMT
  <2> DEFINE b == q[pos]
             j == pos + 1
  <2>2. PickChildNth(pos) = b
    BY <1>1, <1>9, PickChildNthFacts
  <2>3. PICK c \in Node :
          /\ c \notin allocated
          /\ allocated' = allocated \cup {c}
          /\ data' = [data EXCEPT ![c] = d]
          /\ next' = [next EXCEPT ![b] = c, ![c] = next[b]]
          /\ prev' = [x \in Node |-> IF x = c THEN b ELSE IF x = next[b] THEN c ELSE prev[x]]
          /\ first' = first /\ last' = last
          /\ len' = len + 1
    <3> DEFINE a == PickChildNth(pos)
    <3>1. PICK c \in Node :
            /\ Free(c)
            /\ allocated' = allocated \cup {c}
            /\ data' = [data EXCEPT ![c] = d]
            /\ next' = [next EXCEPT ![a] = c, ![c] = next[a]]
            /\ prev' = [x \in Node |-> IF x = c THEN a ELSE IF x = next[a] THEN c ELSE prev[x]]
            /\ UNCHANGED <<first, last>>
            /\ len' = len + 1
      BY <1>9
    <3>2. a = b
      BY <2>2
    <3> HIDE DEF a, b
    <3>3. c \notin allocated /\ first' = first /\ last' = last
      BY <3>1 DEF Free
    <3> QED  BY <3>1, <3>2, <3>3
  <2>4. \A i \in 0 .. (len - 1) : q[i] # c
    BY <1>1, <2>3 DEF Children
  <2>5. /\ next[b] = q[j] /\ b \in Node /\ q[j] \in Node
        /\ \A i \in 0 .. (len - 1) : /\ i # pos => q[i] # b
                                     /\ i # j => q[i] # q[j]
    BY <1>1, <2>1 DEF Linked
  <2>6. EndsGain(len, j, c, first, last, first', last')
    BY <2>1, <2>3 DEF EndsGain
  <2>7. LinksGain(q, len, j, c, next, prev, next', prev')
    <3>1. next'[c] = q[j] /\ next'[b] = c /\ prev'[c] = b /\ prev'[q[j]] = c
      BY <1>1, <2>1, <2>3, <2>4, <2>5
    <3>2. ASSUME NEW i \in 0 .. (len - 1)
          PROVE  /\ i # pos => next'[q[i]] = next[q[i]]
                 /\ i # j => prev'[q[i]] = prev[q[i]]
      BY <1>1, <1>2, <2>3, <2>4, <2>5
    <3> QED  BY <2>1, <3>1, <3>2 DEF LinksGain
  <2>8. c \notin Children(q, len) /\ j \in 0 .. len
    BY <1>1, <2>1, <2>3
  <2>9. PICK q2 : /\ Linked(q2, len + 1, first', last', next', prev')
                  /\ Children(q2, len + 1) = Children(q, len) \cup {c}
                  /\ Inserted(q, len, j, c, q2)
    <3> HIDE DEF j, b
    <3> QED  BY <1>1, <2>6, <2>7, <2>8, InsertLinked
  <2>10. Follows(q)
    BY <1>1, <2>3, <2>9 DEF Follows
  <2>11. first \in Pointer /\ last \in Pointer /\ len' \in Nat /\ next[b] \in Pointer
    BY <1>1, <2>3, <2>5, SMT DEF TypeOK
  <2>12. FieldsOK'
    BY <1>1, <2>3, <2>5, <2>11 DEF FieldsOK, Pointer
  <2>13. Holding(Gained(ItemsOf(q, len, data), len, j + 1, d))
    <3> DEFINE g == data'
    <3>1. g[c] = d /\ Alike(q, 0 .. (len - 1), data, g)
      BY <1>1, <1>2, <2>3, <2>4 DEF Alike
    <3>2. Ordered(q2)'
      BY <1>1, <2>3, <2>9 DEF Ordered
    <3>3. ItemsOf(q2, len + 1, g) = Gained(ItemsOf(q, len, data), len, j + 1, d)
      <4> HIDE DEF g, j
      <4> QED  BY <1>1, <2>8, <2>9, <3>1, InsertedItems
    <3> QED  BY <2>3, <3>2, <3>3 DEF Holding
  <2>14. PlaceOf(pos) = j + 1 /\ ~ (pos < 0)
    BY <1>1, <1>9, SMT DEF PlaceOf
  <2> QED  BY <1>4, <2>10, <2>11, <2>12, <2>13, <2>14, TypeFollows
<1> QED  BY <1>5, <1>6, <1>7, <1>8, <1>9 DEF bb_queue_add_nth


\* The calls that replace data.
LEMMA ReplaceSteps ==
    ASSUME TypeOK, NEW q, Ordered(q),
           \/ \E d \in Data, pos \in Position : bb_queue_replace_nth(d, pos)
           \/ \E d1, d2 \in Data : bb_queue_replace(d1, d2) \/ bb_queue_switch(d1, d2)
    PROVE  TypeOK' /\ Follows(q)
<1>1. /\ Linked(q, len, first, last, next, prev)
      /\ data \in [Node -> Data \cup {NULL}]
      /\ \A i \in 0 .. (len - 1) : q[i] \in Node
  BY DEF Ordered, TypeOK, Linked
<1>2. CASE \E d \in Data, pos \in Position : bb_queue_replace_nth(d, pos)
  <2>1. PICK d \in Data, pos \in Position : bb_queue_replace_nth(d, pos)
    BY <1>2
  <2> DEFINE c == PickChildNth(pos)
  <2>2. c = NULL \/ c \in Node
    <3>1. pos \in Int
      BY NodeAssumption
    <3> QED  BY <1>1, <3>1, PickChildNthFacts
  <2>3. UNCHANGED <<ends, links, allocated>>
    BY <2>1 DEF bb_queue_replace_nth
  <2>4. data' = data \/ data' = [data EXCEPT ![c] = d]
    BY <2>1 DEF bb_queue_replace_nth
  <2>5. \/ c = NULL /\ Called("replace_nth", <<d, pos>>, NULL)
        \/ c # NULL /\ Called("replace_nth", <<d, pos>>, data[c])
    BY <2>1 DEF bb_queue_replace_nth
  <2> HIDE DEF c
  <2>6. Answered
    BY <1>1, <2>2, <2>5 DEF Called, Answered
  <2>7. data' \in [Node -> Data \cup {NULL}]
    BY <1>1, <2>4
  <2> QED  BY <2>3, <2>6, <2>7, DataStep
<1>3. CASE \E d1, d2 \in Data : bb_queue_replace(d1, d2)
  <2>1. PICK d1, d2 \in Data : bb_queue_replace(d1, d2)
    BY <1>3
  <2>2. UNCHANGED <<ends, links, allocated>> /\ Called("replace", <<d1, d2>>, NULL)
    BY <2>1 DEF bb_queue_replace
  <2>3. data' = data \/ data' = [data EXCEPT ![PickChild(d1)] = d2]
    BY <2>1 DEF bb_queue_replace
  <2>4. data' \in [Node -> Data \cup {NULL}]
    BY <1>1, <2>3
  <2>5. Answered
    BY <2>2 DEF Called, Answered
  <2> QED  BY <2>2, <2>4, <2>5, DataStep
<1>4. CASE \E d1, d2 \in Data : bb_queue_switch(d1, d2)
  <2>1. PICK d1, d2 \in Data : bb_queue_switch(d1, d2)
    BY <1>4
  <2>2. UNCHANGED <<ends, links, allocated>> /\ Called("switch", <<d1, d2>>, NULL)
    BY <2>1 DEF bb_queue_switch
  <2>3. data' = data \/ data' = [data EXCEPT ![PickChild(d1)] = d2, ![PickChild(d2)] = d1]
    BY <2>1 DEF bb_queue_switch
  <2>4. data' \in [Node -> Data \cup {NULL}]
    BY <1>1, <2>3
  <2>5. Answered
    BY <2>2 DEF Called, Answered
  <2> QED  BY <2>2, <2>4, <2>5, DataStep
<1> QED  BY <1>2, <1>3, <1>4

\* The step takes the item of c to a place among the others.
MovesTo(place, q, c) ==
    \E j \in 0 .. (len - 1) :
      /\ c = q[j]
      /\ Holding(Gained(Lost(ItemsOf(q, len, data), len, j + 1), len - 1, place, data[q[j]]))

\* A child is moved to the end.
LEMMA PutLastStep ==
    ASSUME TypeOK, NEW q, Ordered(q), NEW d, bb_queue_put_last(d)
    PROVE  /\ TypeOK' /\ Follows(q)
           /\ len # 1 /\ PickChild(d) # NULL /\ last # PickChild(d) => MovesTo(len, q, PickChild(d))
<1> DEFINE c == PickChild(d)
<1>1. Linked(q, len, first, last, next, prev) /\ len \in Nat
  BY SMT DEF Ordered, TypeOK
<1>2. c # NULL => \E j \in 0 .. (len - 1) : c = q[j]
  BY <1>1, PickChildFacts
<1>3. /\ len # 0 => /\ first = q[0] /\ 0 \in 0 .. (len - 1)
                    /\ last = q[len - 1] /\ len - 1 \in 0 .. (len - 1)
      /\ \A j \in 0 .. (len - 1) : /\ len # 0
                                   /\ \A k \in 0 .. (len - 1) : q[j] = q[k] => j = k
                                   /\ next[q[j]] = IF j = len - 1 THEN NULL ELSE q[j + 1]
                                   /\ prev[q[j]] = IF j = 0 THEN NULL ELSE q[j - 1]
  <2>1. \A j \in 0 .. (len - 1) : len # 0
    BY <1>1, SMT
  <2> QED  BY <1>1, <2>1, EndsAreChildren DEF Linked
<1>4. /\ \A j \in 0 .. (len - 1) : /\ q[j] = first <=> j = 0
                                   /\ q[j] = last <=> j = len - 1
  BY <1>3
<1>5. 0 \in Int /\ 1 \in Int
  BY SMT
<1>6. (ret' = 0 \/ ret' = 1) /\ crashed' = FALSE
  BY DEF bb_queue_put_last, Called
<1>7. Answered
  BY <1>5, <1>6 DEF Answered
<1>8. CASE len = 1 \/ c = NULL \/ last = c
  <2>1. UNCHANGED queue
    BY <1>8 DEF bb_queue_put_last
  <2>2. TypeOK' /\ Follows(q)
    BY <1>7, <2>1, SameStep
  <2> QED  BY <1>8, <2>2
<1>9. CASE len # 1 /\ c # NULL /\ last # c
  <2>1. PICK j \in 0 .. (len - 1) : c = q[j]
    BY <1>2, <1>9
  <2>2. j # len - 1
    BY <1>4, <1>9, <2>1
  <2> HIDE DEF c
  <2>3. /\ UNCHANGED <<len, data, allocated>> /\ last' = c
        /\ \/ /\ first = c /\ first' = next[c]
              /\ next' = [next EXCEPT ![last] = c, ![c] = NULL]
              /\ prev' = [prev EXCEPT ![next[c]] = NULL, ![c] = last]
           \/ /\ first # c /\ first' = first
              /\ next' = [next EXCEPT ![prev[c]] = next[c], ![last] = c, ![c] = NULL]
              /\ prev' = [prev EXCEPT ![next[c]] = prev[c], ![c] = last]
    <3> USE DEF c
    <3> QED  BY <1>9 DEF bb_queue_put_last
  <2>4. /\ first' = IF j = 0 THEN next[q[j]] ELSE first
        /\ next' = IF j = 0 THEN [next EXCEPT ![last] = q[j], ![q[j]] = NULL]
                   ELSE [next EXCEPT ![prev[q[j]]] = next[q[j]], ![last] = q[j],
                                     ![q[j]] = NULL]
        /\ prev' = [prev EXCEPT ![next[q[j]]] = prev[q[j]], ![q[j]] = last]
    <3>1. CASE j = 0
      <4>1. first = c /\ prev[c] = NULL
        BY <1>3, <1>4, <2>1, <3>1
      <4> QED  BY <2>1, <2>3, <3>1, <4>1
    <3>2. CASE j # 0
      <4>1. first # c
        BY <1>4, <2>1, <3>2
      <4> QED  BY <2>1, <2>3, <3>2, <4>1
    <3> QED  BY <3>1, <3>2
  <2>5. last' = q[j] /\ UNCHANGED <<len, data, allocated>> /\ len # 1
    BY <1>9, <2>1, <2>3
  <2>6. /\ TypeOK' /\ Follows(q)
        /\ Holding(Gained(Lost(ItemsOf(q, len, data), len, j + 1), len - 1, len, data[q[j]]))
    BY <1>7, <2>2, <2>4, <2>5, MoveLastStep
  <2>7. MovesTo(len, q, c)
    BY <2>1, <2>6 DEF MovesTo
  <2> QED  BY <2>6, <2>7 DEF c
<1> QED  BY <1>8, <1>9

\* A child is moved to the front.
LEMMA PutFirstStep ==
    ASSUME TypeOK, NEW q, Ordered(q), NEW d, bb_queue_put_first(d)
    PROVE  /\ TypeOK' /\ Follows(q)
           /\ len # 1 /\ PickChild(d) # NULL /\ first # PickChild(d) => MovesTo(1, q, PickChild(d))
<1> DEFINE c == PickChild(d)
<1>1. Linked(q, len, first, last, next, prev) /\ len \in Nat
  BY SMT DEF Ordered, TypeOK
<1>2. c # NULL => \E j \in 0 .. (len - 1) : c = q[j]
  BY <1>1, PickChildFacts
<1>3. /\ len # 0 => /\ first = q[0] /\ 0 \in 0 .. (len - 1)
                    /\ last = q[len - 1] /\ len - 1 \in 0 .. (len - 1)
      /\ \A j \in 0 .. (len - 1) : /\ len # 0
                                   /\ \A k \in 0 .. (len - 1) : q[j] = q[k] => j = k
                                   /\ next[q[j]] = IF j = len - 1 THEN NULL ELSE q[j + 1]
                                   /\ prev[q[j]] = IF j = 0 THEN NULL ELSE q[j - 1]
  <2>1. \A j \in 0 .. (len - 1) : len # 0
    BY <1>1, SMT
  <2> QED  BY <1>1, <2>1, EndsAreChildren DEF Linked
<1>4. /\ \A j \in 0 .. (len - 1) : /\ q[j] = first <=> j = 0
                                   /\ q[j] = last <=> j = len - 1
  BY <1>3
<1>5. 0 \in Int /\ 1 \in Int
  BY SMT
<1>6. (ret' = 0 \/ ret' = 1) /\ crashed' = FALSE
  BY DEF bb_queue_put_first, Called
<1>7. Answered
  BY <1>5, <1>6 DEF Answered
<1>8. CASE len = 1 \/ c = NULL \/ first = c
  <2>1. UNCHANGED queue
    BY <1>8 DEF bb_queue_put_first
  <2>2. TypeOK' /\ Follows(q)
    BY <1>7, <2>1, SameStep
  <2> QED  BY <1>8, <2>2
<1>9. CASE len # 1 /\ c # NULL /\ first # c
  <2>1. PICK j \in 0 .. (len - 1) : c = q[j]
    BY <1>2, <1>9
  <2>2. j # 0
    BY <1>4, <1>9, <2>1
  <2> HIDE DEF c
  <2>3. /\ UNCHANGED <<len, data, allocated>> /\ first' = c
        /\ \/ /\ last = c /\ last' = prev[c]
              /\ next' = [next EXCEPT ![prev[c]] = NULL, ![c] = first]
              /\ prev' = [prev EXCEPT ![first] = c, ![c] = NULL]
           \/ /\ last # c /\ last' = last
              /\ next' = [next EXCEPT ![prev[c]] = next[c], ![c] = first]
              /\ prev' = [prev EXCEPT ![next[c]] = prev[c], ![first] = c, ![c] = NULL]
    <3> USE DEF c
    <3> QED  BY <1>9 DEF bb_queue_put_first
  <2>4. /\ last' = IF j = len - 1 THEN prev[q[j]] ELSE last
        /\ next' = [next EXCEPT ![prev[q[j]]] = next[q[j]], ![q[j]] = first]
        /\ prev' = IF j = len - 1 THEN [prev EXCEPT ![first] = q[j], ![q[j]] = NULL]
                   ELSE [prev EXCEPT ![next[q[j]]] = prev[q[j]], ![first] = q[j],
                                     ![q[j]] = NULL]
    <3>1. CASE j = len - 1
      <4>1. last = c /\ next[c] = NULL
        BY <1>3, <1>4, <2>1, <3>1
      <4> QED  BY <2>1, <2>3, <3>1, <4>1
    <3>2. CASE j # len - 1
      <4>1. last # c
        BY <1>4, <2>1, <3>2
      <4> QED  BY <2>1, <2>3, <3>2, <4>1
    <3> QED  BY <3>1, <3>2
  <2>5. first' = q[j] /\ UNCHANGED <<len, data, allocated>> /\ len # 1
    BY <1>9, <2>1, <2>3
  <2>6. /\ TypeOK' /\ Follows(q)
        /\ Holding(Gained(Lost(ItemsOf(q, len, data), len, j + 1), len - 1, 1, data[q[j]]))
    BY <1>7, <2>2, <2>4, <2>5, MoveFirstStep
  <2>7. MovesTo(1, q, c)
    BY <2>1, <2>6 DEF MovesTo
  <2> QED  BY <2>6, <2>7 DEF c
<1> QED  BY <1>8, <1>9

\* The calls that only read.
LEMMA ReadSteps ==
    ASSUME TypeOK, NEW q, Ordered(q),
           \/ bb_queue_pick_first \/ bb_queue_pick_last
           \/ \E d \in Data : bb_queue_get_index(d) \/ bb_queue_exists(d)
           \/ \E pos \in Position : bb_queue_pick_nth(pos)
    PROVE  TypeOK' /\ Follows(q)
<1>1. /\ Linked(q, len, first, last, next, prev) /\ len \in Nat
      /\ data \in [Node -> Data \cup {NULL}]
  BY SMT DEF Ordered, TypeOK
<1>2. /\ first = NULL \/ first \in Node
      /\ last = NULL \/ last \in Node
      /\ \A i \in 0 .. (len - 1) : q[i] \in Node
  BY <1>1 DEF TypeOK, Pointer, Linked
<1>3. UNCHANGED queue
  BY DEF bb_queue_pick_first, bb_queue_pick_last, bb_queue_get_index, bb_queue_exists,
         bb_queue_pick_nth
<1>4. CASE bb_queue_pick_first
  <2>1. /\ crashed' = FALSE
        /\ ret' = NULL \/ (first # NULL /\ ret' = data[first])
    BY <1>4 DEF bb_queue_pick_first, Called
  <2>2. Answered
    BY <1>1, <1>2, <2>1 DEF Answered
  <2> QED  BY <1>3, <2>2, SameStep
<1>5. CASE bb_queue_pick_last
  <2>1. /\ crashed' = FALSE
        /\ ret' = NULL \/ (last # NULL /\ ret' = data[last])
    BY <1>5 DEF bb_queue_pick_last, Called
  <2>2. Answered
    BY <1>1, <1>2, <2>1 DEF Answered
  <2> QED  BY <1>3, <2>2, SameStep
<1>6. CASE \E d \in Data : bb_queue_get_index(d)
  <2>1. PICK d \in Data : bb_queue_get_index(d)
    BY <1>6
  <2>2. crashed' = FALSE /\ (ret' = -1 \/ (Exists(d) /\ ret' = IndexOf(d)))
    BY <2>1 DEF bb_queue_get_index, Called
  <2>3. Exists(d) => IndexOf(d) \in Nat
    BY <1>1, PickChildFacts
  <2>4. ret' \in Int
    BY <2>2, <2>3, SMT
  <2>5. Answered
    BY <2>2, <2>4 DEF Answered
  <2> QED  BY <1>3, <2>5, SameStep
<1>7. CASE \E d \in Data : bb_queue_exists(d)
  <2>1. (ret' = 0 \/ ret' = 1) /\ crashed' = FALSE
    BY <1>7 DEF bb_queue_exists, Called
  <2>2. ret' \in Int
    BY <2>1, SMT
  <2>3. Answered
    BY <2>1, <2>2 DEF Answered
  <2> QED  BY <1>3, <2>3, SameStep
<1>8. CASE \E pos \in Position : bb_queue_pick_nth(pos)
  <2>1. PICK pos \in Position : bb_queue_pick_nth(pos)
    BY <1>8
  <2> DEFINE place == IF pos < 0 THEN len + pos ELSE pos
             c == PickChildNth(place)
  <2>2. place \in Int
    <3>1. pos \in Int
      BY NodeAssumption
    <3> QED  BY <1>1, <3>1, SMT
  <2>3. c = NULL \/ c \in Node
    <3> HIDE DEF place
    <3> QED  BY <1>1, <1>2, <2>2, PickChildNthFacts
  <2>4. ret' = (IF c = NULL THEN NULL ELSE data[c]) /\ crashed' = FALSE
    BY <2>1 DEF bb_queue_pick_nth, PickNth, Called
  <2> HIDE DEF c
  <2>5. Answered
    BY <1>1, <2>3, <2>4 DEF Answered
  <2> QED  BY <1>3, <2>5, SameStep
<1> QED  BY <1>4, <1>5, <1>6, <1>7, <1>8


\* g lists what the children hold in the course of a round, from f on.
IsRound(g, f, q) ==
    /\ \A i \in 0 .. (len - 1) : g[i] \in [Node -> Data \cup {NULL}]
    /\ g[0] = f
    /\ \A i \in 1 .. (len - 1) : g[i] = InOrder(g[i - 1], q[i - 1])
    /\ Round(f) = g[len - 1]

\* r lists what they hold from round to round.
IsSort(r) ==
    /\ \A k \in 0 .. len : r[k] \in [Node -> Data \cup {NULL}]
    /\ r[0] = data
    /\ \A k \in 1 .. len : r[k] = Round(r[k - 1])
    /\ data' = r[len]

\* There is such a list: a round goes from the first child to the one before the last.
LEMMA RoundIterates ==
    ASSUME TypeOK, NEW q, Ordered(q), len # 0, NEW f \in [Node -> Data \cup {NULL}]
    PROVE  \E g : IsRound(g, f, q)
<1> DEFINE D == [Node -> Data \cup {NULL}]
           swaps == CHOOSE i \in Steps : Forward[i] = last
           Done(g) == g = [i \in 0 .. swaps |-> IF i = 0 THEN f
                                                ELSE InOrder(g[i - 1], Forward[i - 1])]
           done == CHOOSE g : Done(g)
<1>1. /\ Linked(q, len, first, last, next, prev) /\ len \in Nat
      /\ len <= Cardinality(Node) /\ Cardinality(Node) \in Nat
  <2>1. Cardinality(Node) \in Nat
    BY NodeAssumption, FS_CardinalityType
  <2> QED  BY <2>1, SMT DEF TypeOK, Ordered
<1>2. /\ \A i \in Nat : Forward[i] = IF i < len THEN q[i] ELSE NULL
      /\ last = q[len - 1] /\ len - 1 \in 0 .. (len - 1)
      /\ \A i \in 0 .. (len - 1) : q[i] \in Node /\ q[i] # NULL
  BY <1>1, WalksMeetChildren, EndsAreChildren
<1>3. swaps = len - 1
  <2>1. len - 1 \in Steps /\ len - 1 \in Nat /\ len - 1 < len
    BY <1>1, SMT DEF Steps
  <2>2. Forward[len - 1] = last
    BY <1>2, <2>1
  <2>3. swaps \in Steps /\ Forward[swaps] = last
    BY <2>1, <2>2
  <2> HIDE DEF swaps
  <2>4. swaps \in Nat
    BY <1>1, <2>3, SMT DEF Steps
  <2>5. swaps < len /\ q[swaps] = q[len - 1]
    BY <1>2, <2>3, <2>4
  <2>6. swaps \in 0 .. (len - 1)
    BY <1>1, <2>4, <2>5, SMT
  <2> QED  BY <1>1, <1>2, <2>5, <2>6 DEF Linked
<1> HIDE DEF swaps
<1>4. ASSUME NEW g \in D, NEW i \in 1 .. swaps PROVE InOrder(g, Forward[i - 1]) \in D
  <2>1. /\ i - 1 \in Nat /\ i - 1 < len /\ i - 1 \in 0 .. (len - 1) /\ i - 1 # len - 1
        /\ (i - 1) + 1 \in 0 .. (len - 1)
    BY <1>1, <1>3, SMT
  <2>2. Forward[i - 1] \in Node /\ next[Forward[i - 1]] \in Node
    BY <1>1, <1>2, <2>1 DEF Linked
  <2>3. g[Forward[i - 1]] \in Data \cup {NULL} /\ g[next[Forward[i - 1]]] \in Data \cup {NULL}
    BY <2>2
  <2> QED  BY <2>2, <2>3 DEF InOrder
<1>5. \E g : Done(g)
  <2> DEFINE step == [i \in 1 .. swaps |-> [g \in D |-> InOrder(g, Forward[i - 1])]]
  <2>1. step \in [1 .. swaps -> [D -> D]]
    BY <1>4
  <2>2. swaps \in Nat /\ f \in D
    BY <1>1, <1>3, SMT
  <2>3. \A i \in 0 .. swaps : i # 0 => i \in 1 .. swaps /\ i - 1 \in 0 .. swaps
    BY <1>1, <1>3, SMT
  <2>4. \A i \in 1 .. swaps, g \in D : step[i][g] = InOrder(g, Forward[i - 1])
    OBVIOUS
  <2> HIDE DEF step, D
  <2>5. PICK e \in [0 .. swaps -> D] : IsIteration(e, swaps, f, step)
    BY <2>1, <2>2, IterationExists
  <2>6. \A i \in 0 .. swaps : e[i] = IF i = 0 THEN f ELSE InOrder(e[i - 1], Forward[i - 1])
    BY <2>3, <2>4, <2>5 DEF IsIteration
  <2>7. e = [i \in 0 .. swaps |-> e[i]]
    OBVIOUS
  <2>8. Done(e)
    BY <2>6, <2>7
  <2> QED  BY <2>8
<1>6. Done(done)
  <2> HIDE DEF Done
  <2> QED  BY <1>5
<1>7. \A i \in 0 .. swaps : done[i] = IF i = 0 THEN f ELSE InOrder(done[i - 1], Forward[i - 1])
  <2> HIDE DEF done
  <2> QED  BY <1>6
<1>8. Round(f) = done[swaps]
  BY DEF Round, swaps
<1> HIDE DEF done
<1>9. \A i \in 0 .. swaps : done[i] \in D
  <2> DEFINE S == {i \in Nat : done[i] \in D}
  <2>1. swaps \in Nat /\ 0 \in 0 .. swaps
    BY <1>1, <1>3, SMT
  <2>2. 0 \in S
    BY <1>7, <2>1
  <2>3. ASSUME NEW i \in 0 .. (swaps - 1), i \in S PROVE i + 1 \in S
    <3>1. i + 1 \in 0 .. swaps /\ i + 1 \in 1 .. swaps /\ i + 1 # 0 /\ (i + 1) - 1 = i /\ i + 1 \in Nat
      BY <2>1, SMT
    <3>2. done[i + 1] = InOrder(done[i], Forward[i])
      BY <1>7, <3>1
    <3>3. InOrder(done[i], Forward[i]) \in D
      BY <1>4, <2>3, <3>1
    <3> QED  BY <3>1, <3>2, <3>3
  <2>4. 0 .. swaps \subseteq S
    <3> HIDE DEF S
    <3> QED  BY <2>1, <2>2, <2>3, UpTo
  <2> QED  BY <2>4
<1>10. \A i \in 1 .. swaps : Forward[i - 1] = q[i - 1]
  <2>1. \A i \in 1 .. swaps : i - 1 \in Nat /\ i - 1 < len
    BY <1>1, <1>3, SMT
  <2> QED  BY <1>2, <2>1
<1>11. /\ 0 \in 0 .. swaps
       /\ \A i \in 1 .. swaps : i \in 0 .. swaps /\ i # 0
  BY <1>1, <1>3, SMT
<1>12. /\ \A i \in 1 .. swaps : done[i] = InOrder(done[i - 1], q[i - 1])
       /\ done[0] = f
  BY <1>7, <1>10, <1>11
<1> QED  BY <1>3, <1>8, <1>9, <1>12 DEF IsRound

\* A round keeps the type of the data.
LEMMA RoundKeepsType ==
    ASSUME TypeOK, NEW q, Ordered(q), len # 0, NEW f \in [Node -> Data \cup {NULL}]
    PROVE  Round(f) \in [Node -> Data \cup {NULL}]
<1>1. PICK g : IsRound(g, f, q)
  BY RoundIterates
<1>2. len - 1 \in 0 .. (len - 1)
  BY SMT DEF TypeOK
<1> QED  BY <1>1, <1>2 DEF IsRound

\* There is such a list of bb_queue_bubble_sort.
LEMMA SortIterates ==
    ASSUME TypeOK, NEW q, Ordered(q), bb_queue_bubble_sort
    PROVE  \E r : IsSort(r)
<1> DEFINE D == [Node -> Data \cup {NULL}]
           Rounds(r) == r = [k \in 0 .. len |-> IF k = 0 THEN data ELSE Round(r[k - 1])]
           rounds == CHOOSE r : Rounds(r)
<1>1. len \in Nat /\ data \in D
  BY SMT DEF TypeOK
<1>2. /\ data' = rounds[len]
  BY DEF bb_queue_bubble_sort
<1>3. ASSUME NEW g \in D, NEW k \in 1 .. len PROVE Round(g) \in D
  <2>1. len # 0
    BY <1>1, SMT
  <2> QED  BY <2>1, RoundKeepsType
<1>4. \E r : Rounds(r)
  <2> DEFINE step == [k \in 1 .. len |-> [g \in D |-> Round(g)]]
  <2>1. step \in [1 .. len -> [D -> D]]
    BY <1>3
  <2>2. \A k \in 0 .. len : k # 0 => k \in 1 .. len /\ k - 1 \in 0 .. len
    BY <1>1, SMT
  <2>3. \A k \in 1 .. len, g \in D : step[k][g] = Round(g)
    OBVIOUS
  <2> HIDE DEF step, D
  <2>4. PICK e \in [0 .. len -> D] : IsIteration(e, len, data, step)
    BY <1>1, <2>1, IterationExists
  <2>5. \A k \in 0 .. len : e[k] = IF k = 0 THEN data ELSE Round(e[k - 1])
    BY <2>2, <2>3, <2>4 DEF IsIteration
  <2>6. e = [k \in 0 .. len |-> e[k]]
    OBVIOUS
  <2>7. Rounds(e)
    BY <2>5, <2>6
  <2> QED  BY <2>7
<1>5. Rounds(rounds)
  <2> HIDE DEF Rounds
  <2> QED  BY <1>4
<1>6. \A k \in 0 .. len : rounds[k] = IF k = 0 THEN data ELSE Round(rounds[k - 1])
  <2> HIDE DEF rounds
  <2> QED  BY <1>5
<1> HIDE DEF rounds
<1>7. \A k \in 0 .. len : rounds[k] \in D
  <2> DEFINE S == {k \in Nat : rounds[k] \in D}
  <2>1. 0 \in 0 .. len
    BY <1>1, SMT
  <2>2. 0 \in S
    BY <1>1, <1>6, <2>1
  <2>3. ASSUME NEW k \in 0 .. (len - 1), k \in S PROVE k + 1 \in S
    <3>1. k + 1 \in 0 .. len /\ k + 1 \in 1 .. len /\ k + 1 # 0 /\ (k + 1) - 1 = k /\ k + 1 \in Nat
      BY <1>1, SMT
    <3> QED  BY <1>3, <1>6, <2>3, <3>1
  <2>4. 0 .. len \subseteq S
    <3> HIDE DEF S
    <3> QED  BY <1>1, <2>2, <2>3, UpTo
  <2> QED  BY <2>4
<1>8. \A k \in 1 .. len : k \in 0 .. len /\ k # 0 /\ 0 \in 0 .. len
  BY <1>1, SMT
<1>9. 0 \in 0 .. len
  BY <1>1, SMT
<1> QED  BY <1>2, <1>6, <1>7, <1>8, <1>9 DEF IsSort

\* The sort moves nothing else.
LEMMA SortStep ==
    ASSUME TypeOK, NEW q, Ordered(q), bb_queue_bubble_sort
    PROVE  TypeOK' /\ Follows(q)
<1>1. PICK r : IsSort(r)
  BY SortIterates
<1>2. UNCHANGED <<ends, links, allocated>> /\ Called("bubble_sort", NULL, NULL)
  BY DEF bb_queue_bubble_sort
<1>3. len \in 0 .. len
  BY SMT DEF TypeOK
<1>4. data' \in [Node -> Data \cup {NULL}]
  BY <1>1, <1>3 DEF IsSort
<1>5. Answered
  BY <1>2 DEF Called, Answered
<1> QED  BY <1>2, <1>4, <1>5, DataStep

-------------------------------------------------------------------------------
(* The invariant.                                                                *)

\* Every call leaves a queue with an order.
LEMMA NextStep ==
    ASSUME TypeOK, NEW q, Ordered(q), Careful, Next
    PROVE  TypeOK' /\ Follows(q)
<1>1. CASE bb_queue_get_first \/ bb_queue_pop \/ bb_queue_clear
  BY <1>1, RemvSteps, PopAndClearSteps
<1>2. CASE bb_queue_bubble_sort \/ bb_queue_pick_first \/ bb_queue_pick_last
  BY <1>2, SortStep, ReadSteps
<1>3. CASE \E d \in Data : \/ bb_queue_add(d) \/ bb_queue_push(d) \/ bb_queue_remv(d)
                           \/ bb_queue_put_last(d) \/ bb_queue_put_first(d)
                           \/ bb_queue_get_index(d) \/ bb_queue_exists(d)
  BY <1>3, LinkSteps, RemvSteps, PutLastStep, PutFirstStep, ReadSteps
<1>4. CASE \E pos \in Position : \/ bb_queue_remv_nth(pos) \/ bb_queue_get_nth(pos)
                                 \/ bb_queue_pick_nth(pos)
  BY <1>4, RemvSteps, ReadSteps
<1>5. CASE \E d \in Data, pos \in Position :
             bb_queue_add_nth(d, pos) \/ bb_queue_replace_nth(d, pos)
  BY <1>5, AddNthStep, ReplaceSteps
<1>6. CASE \E d1, d2 \in Data :
             \/ bb_queue_replace(d1, d2) \/ bb_queue_switch(d1, d2)
             \/ bb_queue_insert_after(d1, d2) \/ bb_queue_insert_before(d1, d2)
             \/ bb_queue_insert_before_bb_child(d1, d2)
  BY <1>6, ReplaceSteps, LinkSteps
<1> QED  BY <1>1, <1>2, <1>3, <1>4, <1>5, <1>6 DEF Next

\* The inductive invariant: some list of allocated children is the order of the queue.
IInv == TypeOK /\ \E q : Ordered(q)

\* It holds of the queue that bb_queue_init leaves.
LEMMA InitIInv == Init => IInv
<1> SUFFICES ASSUME Init PROVE IInv
  OBVIOUS
<1>1. 0 .. (0 - 1) = {} /\ 0 \in 0 .. Cardinality(Node)
  <2>1. Cardinality(Node) \in Nat
    BY NodeAssumption, FS_CardinalityType
  <2> QED  BY <2>1, SMT
<1>2. TypeOK
  BY <1>1 DEF Init, TypeOK, Pointer
<1>3. Ordered(<<>>)
  BY <1>1 DEF Init, Ordered, Linked, Children
<1> QED  BY <1>2, <1>3 DEF IInv

\* A call of a careful caller keeps it.
LEMMA IInvStep == ASSUME Careful, IInv, [Next]_vars PROVE IInv'
<1>1. PICK q : Ordered(q)
  BY DEF IInv
<1>2. CASE Next
  <2>1. TypeOK' /\ Follows(q)
    BY <1>1, <1>2, NextStep DEF IInv
  <2>2. \E q2 : Ordered(q2)'
    BY <2>1 DEF Follows, Ordered
  <2> QED  BY <2>1, <2>2 DEF IInv
<1>3. CASE UNCHANGED vars
  <2>1. TypeOK'
    BY <1>3 DEF IInv, TypeOK, vars
  <2>2. Ordered(q)'
    BY <1>1, <1>3 DEF Ordered, vars
  <2> QED  BY <2>1, <2>2 DEF IInv
<1> QED  BY <1>2, <1>3

\* A queue with an order is a doubly linked list.
LEMMA OrderedIsWellLinked == IInv => WellLinked
<1> SUFFICES ASSUME IInv PROVE WellLinked
  OBVIOUS
<1>1. PICK q : Ordered(q)
  BY DEF IInv
<1>2. Linked(q, len, first, last, next, prev) /\ len \in Nat /\ Children(q, len) \subseteq allocated
  BY <1>1, SMT DEF IInv, TypeOK, Ordered
<1>3. /\ \A i \in Nat : Forward[i] = IF i < len THEN q[i] ELSE NULL
      /\ \A i \in Nat : Backward[i] = IF i < len THEN q[len - 1 - i] ELSE NULL
  BY <1>2, WalksMeetChildren
<1>4. /\ \A i \in 0 .. (len - 1) : /\ i \in Nat /\ i < len
                                   /\ len - 1 - i \in Nat /\ len - 1 - i < len
      /\ ~ (len < len)
  BY <1>2, SMT
<1>5. \A i \in 0 .. (len - 1) : /\ Forward[i] = q[i] /\ Backward[i] = q[len - 1 - i]
                                /\ Forward[len - 1 - i] = q[len - 1 - i]
  BY <1>3, <1>4
<1>6. Forward[len] = NULL /\ Backward[len] = NULL
  BY <1>2, <1>3, <1>4
<1>7. \A i \in 0 .. (len - 1) : Forward[i] \in allocated
  BY <1>2, <1>5 DEF Children
<1>8. \A i, j \in 0 .. (len - 1) : Forward[i] = Forward[j] => i = j
  BY <1>2, <1>5 DEF Linked
<1> QED  BY <1>5, <1>6, <1>7, <1>8 DEF WellLinked

\* bb_queue_*: whatever calls careful callers make, the ends and the links of the queue
\* always follow some list of allocated children.
THEOREM IInvInductive == ASSUME Careful PROVE Spec => []IInv
<1>1. Init => IInv
  BY InitIInv
<1>2. IInv /\ [Next]_vars => IInv'
  BY IInvStep
<1> QED  BY <1>1, <1>2, PTL DEF Spec

\* The fields of the queue and its children keep their types, and the length never
\* passes the number of addresses or falls below 0, when callers are careful.
THEOREM TypeCorrect == ASSUME Careful PROVE Spec => []TypeOK
<1>1. IInv => TypeOK
  BY DEF IInv
<1> QED  BY <1>1, IInvInductive, PTL

\* bb_queue_*: whatever calls careful callers make, the queue stays a doubly linked
\* list of len distinct allocated children, the same read from either end.
THEOREM WellLinkedCorrect == ASSUME Careful PROVE Spec => []WellLinked
<1>1. IInv => WellLinked
  BY OrderedIsWellLinked
<1> QED  BY <1>1, IInvInductive, PTL

\* In every call but bb_queue_add_nth a child leaves the queue if and only if it is freed:
\* what is allocated and not in the queue stays the same.
THEOREM OnlyAddNthLeaksCorrect == ASSUME Careful PROVE Spec => OnlyAddNthLeaks
<1> DEFINE Leak == (allocated' \ {Forward[i] : i \in 0 .. (len - 1)}')
                      # (allocated \ {Forward[i] : i \in 0 .. (len - 1)})
           Listed == \A q : Ordered(q) => {Forward[i] : i \in 0 .. (len - 1)} = Children(q, len)
<1>1. Spec => []IInv
  BY IInvInductive
<1>2. IInv => Listed
  <2> SUFFICES ASSUME IInv, NEW q, Ordered(q)
               PROVE  {Forward[i] : i \in 0 .. (len - 1)} = Children(q, len)
    OBVIOUS
  <2>1. len \in Nat
    BY SMT DEF IInv, TypeOK
  <2>2. \A i \in 0 .. (len - 1) : i \in Nat /\ i < len
    BY <2>1, SMT
  <2>3. \A i \in Nat : Forward[i] = IF i < len THEN q[i] ELSE NULL
    BY <2>1, WalksMeetChildren DEF Ordered
  <2> QED  BY <2>2, <2>3 DEF Children
<1>3. ASSUME IInv, Listed, Listed', Next, Leak PROVE call'[1] = "add_nth"
  <2>1. PICK q : Ordered(q)
    BY <1>3 DEF IInv
  <2>2. Follows(q)
    BY <1>3, <2>1, NextStep DEF IInv
  <2>3. PICK q2 : /\ Ordered(q2)'
                  /\ \/ allocated' \ Children(q2, len') = allocated \ Children(q, len)
                     \/ call'[1] = "add_nth"
    BY <2>2 DEF Follows, Ordered
  <2>4. {Forward[i] : i \in 0 .. (len - 1)} = Children(q, len)
    BY <1>3, <2>1
  <2>5. {Forward[i] : i \in 0 .. (len - 1)}' = Children(q2, len')
    BY <1>3, <2>3
  <2> QED  BY <1>3, <2>3, <2>4, <2>5
<1>4. Listed /\ Listed' /\ IInv /\ [Next]_vars => [Leak => call'[1] = "add_nth"]_vars
  BY <1>3
<1> QED  BY <1>1, <1>2, <1>4, PTL DEF Spec, OnlyAddNthLeaks

-------------------------------------------------------------------------------
(* The items as a sequence.                                                      *)

\* A function on 1 .. n is a sequence of length n.
LEMMA ListIsSeq ==
    ASSUME NEW S, NEW n \in Nat, NEW s \in [1 .. n -> S]
    PROVE  s \in Seq(S) /\ Len(s) = n /\ DOMAIN s = 1 .. n
BY SMT

\* Two such functions that agree everywhere are one.
LEMMA SameList ==
    ASSUME NEW S, NEW T, NEW n \in Nat, NEW s \in [1 .. n -> S], NEW u \in Seq(T), Len(u) = n,
           \A i \in 1 .. n : u[i] = s[i]
    PROVE  u = s
<1>1. u = [i \in 1 .. n |-> u[i]]
  BY LenProperties
<1> QED  BY <1>1

\* InsertAt puts one item more among n of them.
LEMMA GainedSeq ==
    ASSUME NEW S, NEW n \in Nat, NEW s \in [1 .. n -> S], NEW k \in 1 .. (n + 1), NEW e \in S
    PROVE  /\ Gained(s, n, k, e) \in [1 .. (n + 1) -> S]
           /\ Gained(s, n, k, e) = Abstract!InsertAt(s, k, e)
<1> DEFINE g == Gained(s, n, k, e)
<1>1. s \in Seq(S) /\ Len(s) = n
  BY ListIsSeq
<1>2. ASSUME NEW i \in 1 .. (n + 1)
      PROVE  g[i] = (IF i < k THEN s[i] ELSE IF i = k THEN e ELSE s[i - 1]) /\ g[i] \in S
  <2>1. /\ i < k => i \in 1 .. n
        /\ ~ (i < k) /\ i # k => i - 1 \in 1 .. n
    BY SMT
  <2> QED  BY <2>1 DEF Gained
<1>3. g \in [1 .. (n + 1) -> S]
  BY <1>2 DEF Gained
<1> HIDE DEF g
<1> DEFINE a == SubSeq(s, 1, k - 1)
           b == SubSeq(s, k, Len(s))
           ae == a \o <<e>>
           u == ae \o b
<1>4. /\ a \in Seq(S) /\ Len(a) = k - 1 /\ \A i \in 1 .. (k - 1) : a[i] = s[i]
      /\ b \in Seq(S) /\ Len(b) = n - k + 1 /\ \A i \in 1 .. (n - k + 1) : b[i] = s[k + i - 1]
  BY <1>1, SMT
<1>5. <<e>> \in Seq(S) /\ Len(<<e>>) = 1 /\ <<e>>[1] = e
  BY SMT
<1>6. /\ ae \in Seq(S) /\ Len(ae) = k /\ ae[k] = e
      /\ \A i \in 1 .. (k - 1) : ae[i] = s[i]
  <2> DEFINE x == <<e>>
  <2> HIDE DEF a, b, x
  <2>1. /\ a \o x \in Seq(S)
        /\ Len(a \o x) = Len(a) + Len(x)
        /\ \A i \in 1 .. Len(a) + Len(x) : (a \o x)[i] = IF i <= Len(a) THEN a[i] ELSE x[i - Len(a)]
    BY <1>4, <1>5, ConcatProperties DEF x
  <2>2. /\ (k - 1) + 1 = k /\ k \in 1 .. k /\ ~ (k <= k - 1) /\ k - (k - 1) = 1
        /\ \A i \in 1 .. (k - 1) : i \in 1 .. k /\ i <= k - 1
    BY SMT
  <2>3. Len(a) + Len(x) = k /\ x[1] = e
    BY <1>4, <1>5, <2>2 DEF x
  <2>4. /\ a \o x \in Seq(S) /\ Len(a \o x) = k /\ (a \o x)[k] = e
        /\ \A i \in 1 .. (k - 1) : (a \o x)[i] = s[i]
    BY <1>4, <2>1, <2>2, <2>3
  <2> QED  BY <2>4 DEF x
<1> HIDE DEF a, b, ae
<1>7. /\ u \in Seq(S) /\ Len(u) = n + 1
      /\ \A i \in 1 .. (n + 1) : u[i] = IF i <= k THEN ae[i] ELSE b[i - k]
  <2>1. /\ u \in Seq(S) /\ Len(u) = Len(ae) + Len(b)
        /\ \A i \in 1 .. Len(ae) + Len(b) : u[i] = IF i <= Len(ae) THEN ae[i] ELSE b[i - Len(ae)]
    BY <1>4, <1>6, ConcatProperties
  <2>2. k + (n - k + 1) = n + 1
    BY SMT
  <2> QED  BY <1>4, <1>6, <2>1, <2>2
<1> HIDE DEF u
<1>8. ASSUME NEW i \in 1 .. (n + 1) PROVE u[i] = g[i]
  <2>1. /\ i < k => i <= k /\ i \in 1 .. (k - 1)
        /\ i = k => i <= k /\ ~ (i < k)
        /\ i > k => ~ (i <= k) /\ ~ (i < k) /\ i # k
                    /\ i - k \in 1 .. (n - k + 1) /\ k + (i - k) - 1 = i - 1
        /\ i < k \/ i = k \/ i > k
    BY SMT
  <2>2. /\ g[i] = (IF i < k THEN s[i] ELSE IF i = k THEN e ELSE s[i - 1])
        /\ u[i] = (IF i <= k THEN ae[i] ELSE b[i - k])
    BY <1>2, <1>7
  <2>3. CASE i < k
    BY <1>6, <2>1, <2>2, <2>3
  <2>4. CASE i = k
    BY <1>6, <2>1, <2>2, <2>4
  <2>5. CASE i > k
    <3>1. b[i - k] = s[k + (i - k) - 1]
      BY <1>4, <2>1, <2>5
    <3> QED  BY <2>1, <2>2, <2>5, <3>1
  <2> QED  BY <2>1, <2>3, <2>4, <2>5
<1>9. u = g
  BY <1>3, <1>7, <1>8, SameList
<1> QED  BY <1>3, <1>9 DEF g, a, b, ae, u, Abstract!InsertAt

\* An item appended has the last place.
LEMMA AppendedSeq ==
    ASSUME NEW S, NEW n \in Nat, NEW s \in [1 .. n -> S], NEW e \in S
    PROVE  Append(s, e) = Gained(s, n, n + 1, e)
<1> DEFINE u == Append(s, e)
           k == n + 1
           g == Gained(s, n, k, e)
<1>0. s \in Seq(S) /\ Len(s) = n /\ n + 1 \in Nat /\ k \in 1 .. (n + 1)
  BY ListIsSeq, SMT
<1>1. \A i \in 1 .. (n + 1) : g[i] = IF i < n + 1 THEN s[i] ELSE e
  <2>1. \A i \in 1 .. (n + 1) : ~ (i < n + 1) => i = n + 1
    BY SMT
  <2> QED  BY <2>1 DEF Gained
<1>2. u \in Seq(S) /\ Len(u) = n + 1 /\ \A i \in 1 .. (n + 1) : u[i] = IF i < n + 1 THEN s[i] ELSE e
  BY <1>0, SMT
<1>3. g \in [1 .. (n + 1) -> S]
  <2> HIDE DEF k
  <2> QED  BY <1>0, GainedSeq
<1> HIDE DEF u, g
<1>4. u = g
  BY <1>0, <1>1, <1>2, <1>3, SameList
<1> QED  BY <1>4 DEF u, g

\* An item put in front has the first place.
LEMMA PushedSeq ==
    ASSUME NEW S, NEW n \in Nat, NEW s \in [1 .. n -> S], NEW e \in S
    PROVE  <<e>> \o s = Gained(s, n, 1, e)
<1> DEFINE u == <<e>> \o s
           k == 1
           g == Gained(s, n, k, e)
<1>0. s \in Seq(S) /\ Len(s) = n /\ n + 1 \in Nat /\ k \in 1 .. (n + 1)
  BY ListIsSeq, SMT
<1>1. \A i \in 1 .. (n + 1) : g[i] = IF i = 1 THEN e ELSE s[i - 1]
  <2>1. \A i \in 1 .. (n + 1) : ~ (i < 1)
    BY SMT
  <2> QED  BY <2>1 DEF Gained
<1>2. u \in Seq(S) /\ Len(u) = n + 1 /\ \A i \in 1 .. (n + 1) : u[i] = IF i = 1 THEN e ELSE s[i - 1]
  BY <1>0, SMT
<1>3. g \in [1 .. (n + 1) -> S]
  <2> HIDE DEF k
  <2> QED  BY <1>0, GainedSeq
<1> HIDE DEF u, g
<1>4. u = g
  BY <1>0, <1>1, <1>2, <1>3, SameList
<1> QED  BY <1>4 DEF u, g

\* RemoveAt leaves n - 1 items of n.
LEMMA LostSeq ==
    ASSUME NEW S, NEW n \in Nat, NEW s \in [1 .. n -> S], NEW k \in 1 .. n
    PROVE  /\ Lost(s, n, k) \in [1 .. (n - 1) -> S]
           /\ Lost(s, n, k) = Abstract!RemoveAt(s, k)
<1> DEFINE g == Lost(s, n, k)
<1>1. s \in Seq(S) /\ Len(s) = n /\ n - 1 \in Nat
  BY ListIsSeq, SMT
<1>2. ASSUME NEW i \in 1 .. (n - 1)
      PROVE  g[i] = (IF i < k THEN s[i] ELSE s[i + 1]) /\ g[i] \in S
  <2>1. i \in 1 .. n /\ i + 1 \in 1 .. n
    BY SMT
  <2> QED  BY <2>1 DEF Lost
<1>3. g \in [1 .. (n - 1) -> S]
  BY <1>2 DEF Lost
<1> HIDE DEF g
<1> DEFINE a == SubSeq(s, 1, k - 1)
           b == SubSeq(s, k + 1, Len(s))
           u == a \o b
<1>4. /\ a \in Seq(S) /\ Len(a) = k - 1 /\ \A i \in 1 .. (k - 1) : a[i] = s[i]
      /\ b \in Seq(S) /\ Len(b) = n - k /\ \A i \in 1 .. (n - k) : b[i] = s[k + i]
  BY <1>1, SMT
<1> HIDE DEF a, b
<1>5. /\ u \in Seq(S) /\ Len(u) = n - 1
      /\ \A i \in 1 .. (n - 1) : u[i] = IF i <= k - 1 THEN a[i] ELSE b[i - (k - 1)]
  <2>1. /\ u \in Seq(S) /\ Len(u) = Len(a) + Len(b)
        /\ \A i \in 1 .. Len(a) + Len(b) : u[i] = IF i <= Len(a) THEN a[i] ELSE b[i - Len(a)]
    BY <1>4, ConcatProperties
  <2>2. (k - 1) + (n - k) = n - 1
    BY SMT
  <2> QED  BY <1>4, <2>1, <2>2
<1> HIDE DEF u
<1>6. ASSUME NEW i \in 1 .. (n - 1) PROVE u[i] = g[i]
  <2>1. /\ i < k => i <= k - 1 /\ i \in 1 .. (k - 1)
        /\ ~ (i < k) => ~ (i <= k - 1) /\ i - (k - 1) \in 1 .. (n - k) /\ k + (i - (k - 1)) = i + 1
    BY SMT
  <2> QED  BY <1>2, <1>4, <1>5, <2>1
<1>7. u = g
  BY <1>1, <1>3, <1>5, <1>6, SameList
<1> QED  BY <1>3, <1>7 DEF g, a, b, u, Abstract!RemoveAt

-------------------------------------------------------------------------------
(* The queue that a caller sees.                                                 *)

\* The children of a list in order hold the items.
Met == \A q : Ordered(q) => Items = ItemsOf(q, len, data)

\* The state before a call: q is the order of the queue, and no child is without its item.
Seen(q) ==
    /\ TypeOK /\ Ordered(q)
    /\ Items = ItemsOf(q, len, data)
    /\ Items \in [1 .. len -> Data]

\* A walk over the items meets what the children hold.
LEMMA OrderedIsMet == IInv => Met
<1> SUFFICES ASSUME IInv, NEW q, Ordered(q) PROVE Items = ItemsOf(q, len, data)
  BY DEF Met
<1>1. len \in Nat
  BY SMT DEF IInv, TypeOK
<1>2. \A i \in Nat : Forward[i] = IF i < len THEN q[i] ELSE NULL
  BY <1>1, WalksMeetChildren DEF Ordered
<1>3. \A i \in 1 .. len : i - 1 \in Nat /\ i - 1 < len
  BY <1>1, SMT
<1>4. \A i \in 1 .. len : Forward[i - 1] = q[i - 1]
  BY <1>2, <1>3
<1> QED  BY <1>4 DEF Items, ItemsOf

\* What the children hold after a step is what a caller sees.
LEMMA SeenNext == ASSUME Met', NEW s, Holding(s) PROVE Items' = s
<1>1. PICK q2 : Ordered(q2)' /\ ItemsOf(q2, len', data') = s
  BY DEF Holding
<1> QED  BY <1>1 DEF Met

\* The plain facts about a queue that a caller sees.
LEMMA SeenFacts ==
    ASSUME NEW q, Seen(q)
    PROVE  /\ len \in Nat
           /\ Linked(q, len, first, last, next, prev)
           /\ Items \in [1 .. len -> Data] /\ Items \in Seq(Data) /\ Len(Items) = len
           /\ DOMAIN Items = 1 .. len
           /\ \A i \in 1 .. len : /\ i - 1 \in 0 .. (len - 1)
                                  /\ Items[i] = data[q[i - 1]]
                                  /\ Items[i] \in Data /\ Items[i] # NULL
                                  /\ q[i - 1] \in Node /\ q[i - 1] # NULL
           /\ \A i \in Nat : Forward[i] = IF i < len THEN q[i] ELSE NULL
           /\ \A i \in Nat : Backward[i] = IF i < len THEN q[len - 1 - i] ELSE NULL
           /\ len = 0 => first = NULL /\ last = NULL
           /\ len # 0 => first = q[0] /\ last = q[len - 1]
<1>1. len \in Nat /\ Linked(q, len, first, last, next, prev) /\ Items \in [1 .. len -> Data]
  BY SMT DEF Seen, TypeOK, Ordered
<1>2. Items \in Seq(Data) /\ Len(Items) = len /\ DOMAIN Items = 1 .. len
  <2> HIDE DEF Items
  <2> QED  BY <1>1, ListIsSeq
<1>3. \A i \in 1 .. len : i - 1 \in 0 .. (len - 1)
  BY <1>1, SMT
<1>4. \A i \in 1 .. len : Items[i] = data[q[i - 1]]
  BY DEF Seen, ItemsOf
<1>5. /\ \A i \in Nat : Forward[i] = IF i < len THEN q[i] ELSE NULL
      /\ \A i \in Nat : Backward[i] = IF i < len THEN q[len - 1 - i] ELSE NULL
  BY <1>1, WalksMeetChildren
<1>6. /\ len = 0 => first = NULL /\ last = NULL
      /\ len # 0 => first = q[0] /\ last = q[len - 1]
      /\ \A i \in 0 .. (len - 1) : q[i] \in Node /\ q[i] # NULL
  BY <1>1, EndsAreChildren
<1>7. \A i \in 1 .. len : Items[i] \in Data /\ Items[i] # NULL
  BY <1>1, NodeAssumption
<1> QED  BY <1>1, <1>2, <1>3, <1>4, <1>5, <1>6, <1>7

\* A search finds the child whose place the sequence of items gives.
LEMMA PlaceFacts ==
    ASSUME NEW q, Seen(q), NEW d
    PROVE  /\ Abstract!Place(d) = 0 => PickChild(d) = NULL /\ ~ Exists(d)
           /\ Abstract!Place(d) # 0 => /\ Abstract!Place(d) \in 1 .. len
                                       /\ Abstract!Place(d) - 1 \in 0 .. (len - 1)
                                       /\ Items[Abstract!Place(d)] = d
                                       /\ PickChild(d) = q[Abstract!Place(d) - 1]
                                       /\ PickChild(d) # NULL
                                       /\ Exists(d) /\ IndexOf(d) = Abstract!Place(d) - 1
<1>1. /\ len \in Nat /\ DOMAIN Items = 1 .. len
      /\ \A i \in 1 .. len : /\ i - 1 \in 0 .. (len - 1) /\ Items[i] = data[q[i - 1]]
                             /\ q[i - 1] # NULL
      /\ \A i \in Nat : Forward[i] = IF i < len THEN q[i] ELSE NULL
  BY SeenFacts
<1>2. len <= Cardinality(Node) /\ Cardinality(Node) \in Nat
  <2>1. Cardinality(Node) \in Nat
    BY NodeAssumption, FS_CardinalityType
  <2> QED  BY <2>1, SMT DEF Seen, TypeOK
<1> DEFINE I == Items
<1> HIDE DEF I
<1>3. ASSUME NEW i \in 1 .. len PROVE i - 1 \in Steps /\ (Holds(i - 1, d) <=> Items[i] = d)
  <2>1. i - 1 \in Steps /\ i - 1 \in Nat /\ i - 1 < len
    BY <1>1, <1>2, SMT DEF Steps
  <2> QED  BY <1>1, <2>1 DEF Holds
<1>4. ASSUME NEW i \in Steps, Holds(i, d) PROVE i + 1 \in 1 .. len /\ (i + 1) - 1 = i
  <2>1. i \in Nat
    BY <1>2, SMT DEF Steps
  <2>2. i < len
    BY <1>1, <1>4, <2>1 DEF Holds
  <2> QED  BY <1>1, <2>1, <2>2, SMT
<1>5. Exists(d) <=> \E i \in 1 .. len : Items[i] = d
  BY <1>3, <1>4 DEF Exists
<1>6. CASE ~ Exists(d)
  <2>1. Abstract!Place(d) = 0
    BY <1>1, <1>5, <1>6 DEF Abstract!Place
  <2> QED  BY <1>6, <2>1 DEF PickChild
<1>7. CASE Exists(d)
  <2> DEFINE x == IndexOf(d)
             First(i) == i \in 1 .. len /\ Items[i] = d /\ \A j \in 1 .. (i - 1) : Items[j] # d
             p == CHOOSE i \in 1 .. len : Items[i] = d /\ \A j \in 1 .. (i - 1) : Items[j] # d
  <2>1. x \in Steps /\ IsFirstHolding(x, d)
    BY <1>7, IndexOfFirst
  <2> HIDE DEF x
  <2>2. x + 1 \in 1 .. len /\ (x + 1) - 1 = x /\ Items[x + 1] = d /\ x \in Nat /\ x < len
    <3>1. Holds(x, d)
      BY <2>1 DEF IsFirstHolding
    <3>2. x + 1 \in 1 .. len /\ (x + 1) - 1 = x
      BY <1>4, <2>1, <3>1
    <3>3. x \in Nat /\ x < len
      BY <1>1, <1>2, <2>1, <3>2, SMT DEF Steps
    <3> QED  BY <1>3, <3>1, <3>2, <3>3
  <2>3. \A j \in 1 .. len : Items[j] = d => x + 1 <= j
    <3> SUFFICES ASSUME NEW j \in 1 .. len, Items[j] = d PROVE x + 1 <= j
      OBVIOUS
    <3>1. x <= j - 1
      BY <1>3, <2>1 DEF IsFirstHolding
    <3> QED  BY <2>2, <3>1, SMT
  <2>4. First(x + 1)
    <3>1. \A j \in 1 .. (x + 1 - 1) : j \in 1 .. len /\ ~ (x + 1 <= j)
      BY <1>1, <2>2, SMT
    <3> QED  BY <2>2, <2>3, <3>1
  <2>5. First(p)
    <3>1. \E i \in 1 .. len : Items[i] = d /\ \A j \in 1 .. (i - 1) : Items[j] # d
      BY <2>4
    <3> QED  BY <3>1
  <2>6. p = Abstract!Place(d)
    BY <1>1, <1>5, <1>7 DEF Abstract!Place
  <2> HIDE DEF p
  <2>7. p = x + 1
    <3>1. x + 1 <= p /\ p \in 1 .. len
      BY <2>3, <2>5
    <3>2. x + 1 \in 1 .. (p - 1) => FALSE
      BY <2>2, <2>5
    <3> QED  BY <1>1, <2>2, <3>1, <3>2, SMT
  <2>8. p # 0 /\ p - 1 = x /\ x \in 0 .. (len - 1)
    BY <1>1, <2>2, <2>7, SMT
  <2>9. PickChild(d) = q[x]
    BY <1>1, <1>7, <2>2 DEF PickChild, x
  <2>10. q[x] # NULL
    BY <1>1, <2>2
  <2> QED  BY <1>7, <2>2, <2>6, <2>7, <2>8, <2>9, <2>10 DEF x
<1> QED  BY <1>6, <1>7

\* A position leads to the child whose place the sequence of items gives.
LEMMA AtFacts ==
    ASSUME NEW q, Seen(q), NEW pos \in Int
    PROVE  /\ Abstract!At(pos) = 0 => PickChildNth(pos) = NULL
           /\ Abstract!At(pos) # 0 => /\ Abstract!At(pos) \in 1 .. len
                                      /\ Abstract!At(pos) - 1 \in 0 .. (len - 1)
                                      /\ PickChildNth(pos) = q[Abstract!At(pos) - 1]
                                      /\ PickChildNth(pos) # NULL
<1>1. /\ len \in Nat /\ Len(Items) = len /\ Linked(q, len, first, last, next, prev)
      /\ \A i \in 1 .. len : i - 1 \in 0 .. (len - 1) /\ q[i - 1] # NULL
      /\ len = 0 => first = NULL /\ last = NULL
      /\ len # 0 => first = q[0] /\ last = q[len - 1]
  BY SeenFacts
<1>2. TypeOK
  BY DEF Seen
<1> HIDE DEF Items
<1>3. CASE pos < 0 \/ pos > len
  <2>1. Abstract!At(pos) = 0
    BY <1>1, <1>3 DEF Abstract!At
  <2>2. /\ pos # len /\ ~ (pos = 0 /\ pos # len)
        /\ ~ (pos > 0 /\ pos < len /\ pos <= len \div 2)
        /\ ~ (pos > 0 /\ pos < len /\ pos > len \div 2)
        /\ pos < 0 => ~ (pos > len)
        /\ pos < 0 \/ pos > len
    BY <1>1, <1>3, SMT
  <2>3. PickChildNth(pos) = NULL
    BY <2>2 DEF PickChildNth
  <2> QED  BY <2>1, <2>3
<1>4. CASE pos = len
  <2>1. ~ (pos < 0 \/ pos > len) /\ ~ (pos < 0)
        /\ ~ (pos > 0 /\ pos < len /\ pos <= len \div 2)
        /\ ~ (pos > 0 /\ pos < len /\ pos > len \div 2)
    BY <1>1, <1>4, SMT
  <2>2. Abstract!At(pos) = len
    BY <1>1, <1>4, <2>1 DEF Abstract!At
  <2>3. PickChildNth(pos) = last
    BY <1>4, <2>1 DEF PickChildNth
  <2>4. len # 0 => len \in 1 .. len
    BY <1>1, SMT
  <2> QED  BY <1>1, <2>2, <2>3, <2>4
<1>5. CASE pos = 0 /\ pos # len
  <2>1. /\ ~ (pos < 0 \/ pos > len) /\ ~ (pos < 0) /\ ~ (pos > len)
        /\ ~ (pos > 0 /\ pos < len /\ pos <= len \div 2)
        /\ ~ (pos > 0 /\ pos < len /\ pos > len \div 2)
        /\ pos + 1 = 1 /\ 1 # 0 /\ 1 \in 1 .. len /\ 1 - 1 = 0
    BY <1>1, <1>5, SMT
  <2>2. Abstract!At(pos) = 1
    BY <1>1, <1>5, <2>1 DEF Abstract!At
  <2>3. PickChildNth(pos) = first
    BY <1>5, <2>1 DEF PickChildNth
  <2> QED  BY <1>1, <1>5, <2>1, <2>2, <2>3
<1>6. CASE pos > 0 /\ pos < len
  <2>1. /\ ~ (pos < 0 \/ pos > len) /\ pos # len
        /\ pos + 1 # 0 /\ pos + 1 \in 1 .. len /\ (pos + 1) - 1 = pos
    BY <1>1, <1>6, SMT
  <2>2. Abstract!At(pos) = pos + 1
    BY <1>1, <2>1 DEF Abstract!At
  <2>3. PickChildNth(pos) = q[pos]
    BY <1>1, <1>2, <1>6, PickChildNthFacts
  <2> QED  BY <1>1, <2>1, <2>2, <2>3
<1> QED
  <2>1. pos < 0 \/ pos > len \/ pos = len \/ (pos = 0 /\ pos # len) \/ (pos > 0 /\ pos < len)
    BY <1>1, SMT
  <2> QED  BY <2>1, <1>3, <1>4, <1>5, <1>6

\* So does one that may count from the end.
LEMMA PickNthFacts ==
    ASSUME NEW q, Seen(q), NEW pos \in Int
    PROVE  /\ PickNth(pos) = Abstract!Item(Abstract!AtSigned(pos))
           /\ Abstract!AtSigned(pos) # 0 => /\ Abstract!AtSigned(pos) \in 1 .. len
                                            /\ PickNth(pos) = Items[Abstract!AtSigned(pos)]
                                            /\ PickNth(pos) \in Data /\ PickNth(pos) # NULL
           /\ Abstract!AtSigned(pos) = 0 => PickNth(pos) = NULL
<1>1. /\ len \in Nat /\ Len(Items) = len
      /\ \A i \in 1 .. len : Items[i] = data[q[i - 1]] /\ Items[i] \in Data /\ Items[i] # NULL
  BY SeenFacts
<1> DEFINE place == IF pos < 0 THEN len + pos ELSE pos
           c == PickChildNth(place)
           k == Abstract!At(place)
<1>2. place \in Int
  BY <1>1, SMT
<1> HIDE DEF Items
<1>3. Abstract!AtSigned(pos) = k
  BY <1>1 DEF Abstract!AtSigned
<1>4. PickNth(pos) = IF c = NULL THEN NULL ELSE data[c]
  BY DEF PickNth
<1>5. /\ k = 0 => c = NULL
      /\ k # 0 => k \in 1 .. len /\ c = q[k - 1] /\ c # NULL
  <2> HIDE DEF place
  <2> QED  BY <1>2, AtFacts
<1> HIDE DEF c, k
<1> QED  BY <1>1, <1>3, <1>4, <1>5 DEF Abstract!Item

\* A call that answers and leaves the items as it should is the one of the sequence.
LEMMA DoesSo ==
    ASSUME NEW name, NEW args, NEW result, NEW sequel,
           Called(name, args, result), Items' = sequel
    PROVE  Abstract!Does(name, args, result, sequel)
BY DEF Called, Abstract!Does

\* A call is made of a queue that is seen, and answers; after it the walk meets the items.
Before(q) == Seen(q) /\ Met' /\ Answered

\* The items are data again after the step.
Kept == Items' \in [1 .. len' -> Data]

\* What a caller sees when a child is linked.
LEMMA LinkSeen ==
    ASSUME NEW q, Before(q), NEW j \in 0 .. len, NEW c, NEW d \in Data,
           Link(IF j = 0 THEN NULL ELSE q[j - 1], c, d, IF j = len THEN NULL ELSE q[j])
    PROVE  Items' = Gained(Items, len, j + 1, d) /\ Kept
           /\ Items' = Abstract!InsertAt(Items, j + 1, d)
<1>1. TypeOK /\ Ordered(q) /\ Items = ItemsOf(q, len, data) /\ Met' /\ Answered
  BY DEF Before, Seen
<1>2. len \in Nat /\ Items \in [1 .. len -> Data]
  BY SeenFacts DEF Before
<1> HIDE DEF Items
<1>3. Holding(Gained(Items, len, j + 1, d))
  BY <1>1, LinkStep
<1>4. Items' = Gained(Items, len, j + 1, d)
  BY <1>1, <1>3, SeenNext
<1>5. len' = len + 1
  BY DEF Link
<1>6. j + 1 \in 1 .. (len + 1)
  BY <1>2, SMT
<1>7. /\ Gained(Items, len, j + 1, d) \in [1 .. (len + 1) -> Data]
      /\ Gained(Items, len, j + 1, d) = Abstract!InsertAt(Items, j + 1, d)
  BY <1>2, <1>6, GainedSeq
<1> QED  BY <1>4, <1>5, <1>7 DEF Kept

\* What a caller sees when a child is unlinked.
LEMMA UnlinkSeen ==
    ASSUME NEW q, Before(q), NEW k \in 1 .. len, Unlink(q[k - 1])
    PROVE  Items' = Abstract!RemoveAt(Items, k) /\ Kept
<1>1. TypeOK /\ Ordered(q) /\ Items = ItemsOf(q, len, data) /\ Met' /\ Answered
  BY DEF Before, Seen
<1>2. len \in Nat /\ Items \in [1 .. len -> Data]
  BY SeenFacts DEF Before
<1> HIDE DEF Items
<1>3. k - 1 \in 0 .. (len - 1) /\ (k - 1) + 1 = k
  BY <1>2, SMT
<1>4. Holding(Lost(Items, len, k))
  <2> DEFINE j == k - 1
  <2>1. j \in 0 .. (len - 1) /\ Unlink(q[j]) /\ j + 1 = k
    BY <1>3
  <2> HIDE DEF j
  <2>2. Holding(Lost(Items, len, j + 1))
    BY <1>1, <2>1, UnlinkStep
  <2> QED  BY <2>1, <2>2
<1>5. Items' = Lost(Items, len, k)
  BY <1>1, <1>4, SeenNext
<1>6. len' = len - 1
  BY DEF Unlink
<1> QED  BY <1>2, <1>5, <1>6, LostSeq DEF Kept

\* What a caller sees when nothing changes.
LEMMA SameSeen ==
    ASSUME NEW q, Before(q), UNCHANGED queue
    PROVE  Items' = Items /\ Kept
<1>1. TypeOK /\ Ordered(q) /\ Items = ItemsOf(q, len, data) /\ Met' /\ Answered
  BY DEF Before, Seen
<1>2. Items \in [1 .. len -> Data] /\ len' = len
  BY DEF Before, Seen, queue
<1> HIDE DEF Items
<1>3. Holding(Items)
  BY <1>1, SameStep
<1>4. Items' = Items
  BY <1>1, <1>3, SeenNext
<1> QED  BY <1>2, <1>4 DEF Kept

\* When only data move, a caller sees what the children hold now.
LEMMA DataSeen ==
    ASSUME NEW q, Before(q), UNCHANGED <<ends, links, allocated>>,
           data' \in [Node -> Data \cup {NULL}]
    PROVE  Items' = ItemsOf(q, len, data')
<1>1. TypeOK /\ Ordered(q) /\ Met' /\ Answered
  BY DEF Before, Seen
<1>2. Holding(ItemsOf(q, len, data'))
  BY <1>1, DataStep
<1> QED  BY <1>1, <1>2, SeenNext

-------------------------------------------------------------------------------
(* Each call is the one of the sequence.                                         *)

\* Linking a child at an end.
LEMMA LinkEndSeen ==
    ASSUME NEW q, Before(q), NEW c, NEW d \in Data
    PROVE  /\ AddChild(c, d) => /\ Items' = Append(Items, d) /\ Kept
                                /\ Items' = Abstract!InsertAt(Items, len + 1, d)
           /\ PushChild(c, d) => /\ Items' = <<d>> \o Items /\ Kept
                                 /\ Items' = Abstract!InsertAt(Items, 1, d)
<1>1. /\ len \in Nat /\ Items \in [1 .. len -> Data]
      /\ len = 0 => first = NULL /\ last = NULL
      /\ len # 0 => first = q[0] /\ last = q[len - 1]
  BY SeenFacts DEF Before
<1>2. 0 \in 0 .. len /\ len \in 0 .. len
  BY <1>1, SMT
<1> HIDE DEF Items
<1>3. ASSUME AddChild(c, d)
      PROVE  /\ Items' = Append(Items, d) /\ Kept
             /\ Items' = Abstract!InsertAt(Items, len + 1, d)
  <2>1. Link(IF len = 0 THEN NULL ELSE q[len - 1], c, d, IF len = len THEN NULL ELSE q[len])
    BY <1>1, <1>3 DEF AddChild
  <2>2. /\ Items' = Gained(Items, len, len + 1, d) /\ Kept
        /\ Items' = Abstract!InsertAt(Items, len + 1, d)
    BY <1>2, <2>1, LinkSeen
  <2>3. Append(Items, d) = Gained(Items, len, len + 1, d)
    BY <1>1, AppendedSeq
  <2> QED  BY <2>2, <2>3
<1>4. ASSUME PushChild(c, d)
      PROVE  /\ Items' = <<d>> \o Items /\ Kept
             /\ Items' = Abstract!InsertAt(Items, 1, d)
  <2> DEFINE z == 0
  <2>1. Link(IF z = 0 THEN NULL ELSE q[z - 1], c, d, IF z = len THEN NULL ELSE q[z])
    BY <1>1, <1>4 DEF PushChild
  <2>2. z \in 0 .. len /\ z + 1 = 1
    BY <1>2
  <2> HIDE DEF z
  <2>3. /\ Items' = Gained(Items, len, z + 1, d) /\ Kept
        /\ Items' = Abstract!InsertAt(Items, z + 1, d)
    BY <2>1, <2>2, LinkSeen
  <2>4. /\ Items' = Gained(Items, len, 1, d) /\ Kept
        /\ Items' = Abstract!InsertAt(Items, 1, d)
    BY <2>2, <2>3
  <2>5. <<d>> \o Items = Gained(Items, len, 1, d)
    BY <1>1, PushedSeq
  <2> QED  BY <2>4, <2>5
<1> QED  BY <1>3, <1>4

\* bb_queue_add and bb_queue_push.
LEMMA AddsSeen ==
    ASSUME NEW q, Before(q), NEW d \in Data
    PROVE  /\ bb_queue_add(d) => Abstract!Add(d) /\ Kept
           /\ bb_queue_push(d) => Abstract!Push(d) /\ Kept
<1>1. ASSUME bb_queue_add(d) PROVE Abstract!Add(d) /\ Kept
  <2>1. PICK c \in Node : AddChild(c, d) /\ Called("add", d, NULL)
    BY <1>1 DEF bb_queue_add
  <2>2. Items' = Append(Items, d) /\ Kept
    BY <2>1, LinkEndSeen
  <2> HIDE DEF Items
  <2> QED  BY <2>1, <2>2, DoesSo DEF Abstract!Add
<1>2. ASSUME bb_queue_push(d) PROVE Abstract!Push(d) /\ Kept
  <2>1. PICK c \in Node : PushChild(c, d) /\ Called("push", d, NULL)
    BY <1>2 DEF bb_queue_push
  <2>2. Items' = <<d>> \o Items /\ Kept
    BY <2>1, LinkEndSeen
  <2> HIDE DEF Items
  <2> QED  BY <2>1, <2>2, DoesSo DEF Abstract!Push
<1> QED  BY <1>1, <1>2

\* The queue is empty when the sequence is.
LEMMA EmptySeen == ASSUME NEW q, Seen(q) PROVE Items = <<>> <=> len = 0
<1>1. len \in Nat /\ Items \in Seq(Data) /\ Len(Items) = len
  BY SeenFacts
<1> HIDE DEF Items
<1>2. Items = <<>> => len = 0
  BY <1>1, EmptySeq
<1>3. len = 0 => Items = <<>>
  BY <1>1, EmptySeq, SMT
<1> QED  BY <1>2, <1>3

\* bb_queue_remv.
LEMMA RemvSeen ==
    ASSUME NEW q, Before(q), NEW d, bb_queue_remv(d)
    PROVE  Abstract!Remv(d) /\ Kept
<1> DEFINE k == Abstract!Place(d)
<1>1. /\ k = 0 => PickChild(d) = NULL
      /\ k # 0 => k \in 1 .. len /\ PickChild(d) = q[k - 1] /\ PickChild(d) # NULL
  BY PlaceFacts DEF Before
<1> HIDE DEF k, Items
<1>2. CASE k = 0
  <2>1. UNCHANGED queue /\ Called("remv", d, 0)
    BY <1>1, <1>2 DEF bb_queue_remv
  <2>2. Items' = Items /\ Kept
    BY <2>1, SameSeen
  <2> QED  BY <1>2, <2>1, <2>2, DoesSo DEF Abstract!Remv, Abstract!Without, k
<1>3. CASE k # 0
  <2>1. Unlink(q[k - 1]) /\ Called("remv", d, 1)
    BY <1>1, <1>3 DEF bb_queue_remv
  <2>2. Items' = Abstract!RemoveAt(Items, k) /\ Kept
    BY <1>1, <1>3, <2>1, UnlinkSeen
  <2> QED  BY <1>3, <2>1, <2>2, DoesSo DEF Abstract!Remv, Abstract!Without, k
<1> QED  BY <1>2, <1>3

\* bb_queue_remv_nth.
LEMMA RemvNthSeen ==
    ASSUME NEW q, Before(q), NEW pos \in Int, bb_queue_remv_nth(pos)
    PROVE  Abstract!RemvNth(pos) /\ Kept
<1> DEFINE k == Abstract!At(pos)
<1>1. /\ k = 0 => PickChildNth(pos) = NULL
      /\ k # 0 => k \in 1 .. len /\ PickChildNth(pos) = q[k - 1] /\ PickChildNth(pos) # NULL
  BY AtFacts DEF Before
<1>2. \A i \in 1 .. len : Items[i] = data[q[i - 1]]
  BY SeenFacts DEF Before
<1> HIDE DEF k, Items
<1>3. CASE k = 0
  <2>1. UNCHANGED queue /\ Called("remv_nth", pos, NULL)
    BY <1>1, <1>3 DEF bb_queue_remv_nth
  <2>2. Items' = Items /\ Kept
    BY <2>1, SameSeen
  <2> QED  BY <1>3, <2>1, <2>2, DoesSo DEF Abstract!RemvNth, Abstract!Without, Abstract!Item, k
<1>4. CASE k # 0
  <2>1. Unlink(q[k - 1]) /\ Called("remv_nth", pos, data[q[k - 1]])
    BY <1>1, <1>4 DEF bb_queue_remv_nth
  <2>2. Items' = Abstract!RemoveAt(Items, k) /\ Kept
    BY <1>1, <1>4, <2>1, UnlinkSeen
  <2>3. Called("remv_nth", pos, Items[k])
    BY <1>1, <1>2, <1>4, <2>1
  <2> QED  BY <1>4, <2>2, <2>3, DoesSo DEF Abstract!RemvNth, Abstract!Without, Abstract!Item, k
<1> QED  BY <1>3, <1>4

\* bb_queue_get_nth: what it answers is at the position, what leaves is the first equal.
LEMMA GetNthSeen ==
    ASSUME NEW q, Before(q), NEW pos \in Int, bb_queue_get_nth(pos)
    PROVE  Abstract!GetNth(pos) /\ Kept
<1> DEFINE i == Abstract!AtSigned(pos)
           d == PickNth(pos)
           k == Abstract!Place(d)
<1>1. /\ d = Abstract!Item(i)
      /\ i = 0 => d = NULL
      /\ i # 0 => i \in 1 .. len /\ d = Items[i] /\ d \in Data /\ d # NULL
  BY PickNthFacts DEF Before
<1>2. len \in Nat /\ DOMAIN Items = 1 .. len
  BY SeenFacts DEF Before
<1>3. CASE i = 0
  <2> HIDE DEF Items, i
  <2>1. UNCHANGED queue /\ Called("get_nth", pos, NULL)
    BY <1>1, <1>3 DEF bb_queue_get_nth
  <2>2. Items' = Items /\ Kept
    BY <2>1, SameSeen
  <2> QED  BY <1>3, <2>1, <2>2, DoesSo DEF Abstract!GetNth, Abstract!Item, i
<1>4. CASE i # 0
  <2> HIDE DEF Items, i, d
  <2>1. k # 0
    <3>1. i \in 1 .. len /\ Items[i] = d
      BY <1>1, <1>4
    <3>2. \E j \in DOMAIN Items : Items[j] = d
      BY <1>2, <3>1
    <3>3. k = 0 => ~ Exists(d)
      BY PlaceFacts DEF Before
    <3>4. Exists(d)
      <4>1. i - 1 \in Steps /\ Forward[i - 1] # NULL /\ data[Forward[i - 1]] = d
        <5>1. /\ \A x \in 1 .. len : /\ x - 1 \in 0 .. (len - 1) /\ Items[x] = data[q[x - 1]]
                                     /\ q[x - 1] # NULL
              /\ \A x \in Nat : Forward[x] = IF x < len THEN q[x] ELSE NULL
          BY SeenFacts DEF Before
        <5>2. len <= Cardinality(Node) /\ Cardinality(Node) \in Nat
          <6>1. Cardinality(Node) \in Nat
            BY NodeAssumption, FS_CardinalityType
          <6> QED  BY <6>1, SMT DEF Before, Seen, TypeOK
        <5>3. i - 1 \in Nat /\ i - 1 < len /\ i - 1 \in Steps
          BY <1>2, <3>1, <5>2, SMT DEF Steps
        <5> QED  BY <3>1, <5>1, <5>3
      <4> QED  BY <4>1 DEF Exists, Holds
    <3> QED  BY <3>3, <3>4
  <2>2. k \in 1 .. len /\ PickChild(d) = q[k - 1] /\ PickChild(d) # NULL
    BY <2>1, PlaceFacts DEF Before
  <2> HIDE DEF k
  <2>3. Unlink(q[k - 1]) /\ Called("get_nth", pos, d)
    BY <1>1, <1>4, <2>2 DEF bb_queue_get_nth, d
  <2>4. Items' = Abstract!RemoveAt(Items, k) /\ Kept
    BY <2>2, <2>3, UnlinkSeen
  <2>5. k = Abstract!Place(Items[i])
    BY <1>1, <1>4 DEF k
  <2> QED  BY <1>1, <1>4, <2>1, <2>3, <2>4, <2>5, DoesSo DEF Abstract!GetNth, Abstract!Without, i
<1> QED  BY <1>3, <1>4

\* bb_queue_get_first and bb_queue_pop take the ends.
LEMMA GetFirstSeen ==
    ASSUME NEW q, Before(q), bb_queue_get_first
    PROVE  Abstract!GetFirst /\ Kept
<1>1. /\ len \in Nat /\ (Items = <<>> <=> len = 0)
      /\ len # 0 => first = q[0]
      /\ \A i \in 1 .. len : Items[i] = data[q[i - 1]]
  BY SeenFacts, EmptySeen DEF Before
<1> HIDE DEF Items
<1>2. CASE len <= 0
  <2>1. ~ (len > 0) /\ len = 0
    BY <1>1, <1>2, SMT
  <2>2. UNCHANGED queue /\ Called("get_first", NULL, NULL)
    BY <2>1 DEF bb_queue_get_first
  <2>3. Items' = Items /\ Kept
    BY <2>2, SameSeen
  <2> QED
    BY <1>1, <2>1, <2>2, <2>3, DoesSo DEF Abstract!GetFirst, Abstract!Item, Abstract!Without
<1>3. CASE ~ (len <= 0)
  <2> DEFINE k == 1
  <2>1. len # 0 /\ k \in 1 .. len /\ k - 1 = 0 /\ k # 0
    BY <1>1, <1>3, SMT
  <2> HIDE DEF k
  <2>2. Unlink(q[k - 1]) /\ Called("get_first", NULL, Items[k])
    BY <1>1, <1>3, <2>1 DEF bb_queue_get_first
  <2>3. Items' = Abstract!RemoveAt(Items, k) /\ Kept
    BY <2>1, <2>2, UnlinkSeen
  <2>4. (IF Items = <<>> THEN 0 ELSE 1) = k
    BY <1>1, <2>1 DEF k
  <2> QED
    BY <2>1, <2>2, <2>3, <2>4, DoesSo DEF Abstract!GetFirst, Abstract!Item, Abstract!Without
<1> QED  BY <1>2, <1>3

\* bb_queue_pop.
LEMMA PopSeen ==
    ASSUME NEW q, Before(q), bb_queue_pop
    PROVE  Abstract!Pop /\ Kept
<1>1. /\ len \in Nat /\ Len(Items) = len /\ Linked(q, len, first, last, next, prev)
      /\ len # 0 => first = q[0] /\ last = q[len - 1]
      /\ \A i \in 1 .. len : Items[i] = data[q[i - 1]]
  BY SeenFacts DEF Before
<1> HIDE DEF Items
<1>2. CASE len <= 0
  <2>1. ~ (len > 0) /\ len = 0
    BY <1>1, <1>2, SMT
  <2>2. UNCHANGED queue /\ Called("pop", NULL, NULL)
    BY <2>1 DEF bb_queue_pop
  <2>3. Items' = Items /\ Kept
    BY <2>2, SameSeen
  <2> QED  BY <1>1, <2>1, <2>2, <2>3, DoesSo DEF Abstract!Pop, Abstract!Item, Abstract!Without
<1>3. CASE ~ (len <= 0)
  <2>1. /\ len # 0 /\ len \in 1 .. len
        /\ len - 1 \in 0 .. (len - 1) /\ 0 \in 0 .. (len - 1)
        /\ len # 1 => len - 1 # 0
    BY <1>1, <1>3, SMT
  <2>2. len # 1 => first # last
    BY <1>1, <2>1 DEF Linked
  <2>3. Unlink(last) /\ Called("pop", NULL, data[last])
    BY <1>3, <2>2 DEF bb_queue_pop, Unlink
  <2>4. Unlink(q[len - 1]) /\ Called("pop", NULL, Items[len])
    BY <1>1, <2>1, <2>3
  <2>5. Items' = Abstract!RemoveAt(Items, len) /\ Kept
    BY <2>1, <2>4, UnlinkSeen
  <2> QED  BY <1>1, <2>1, <2>4, <2>5, DoesSo DEF Abstract!Pop, Abstract!Item, Abstract!Without
<1> QED  BY <1>2, <1>3

\* bb_queue_clear leaves no item.
LEMMA ClearSeen ==
    ASSUME bb_queue_clear
    PROVE  Abstract!Clear /\ Kept
<1>1. len' = 0 /\ Called("clear", NULL, NULL)
  BY DEF bb_queue_clear
<1>2. 1 .. 0 = {}
  BY SMT
<1>3. Items' = <<>>
  BY <1>1, <1>2 DEF Items
<1>4. <<>> \in [1 .. 0 -> Data]
  BY <1>2
<1> HIDE DEF Items
<1>5. Abstract!Clear
  BY <1>1, <1>3, DoesSo DEF Abstract!Clear
<1> QED  BY <1>1, <1>3, <1>4, <1>5 DEF Kept

\* The calls that only read.
LEMMA ReadsSeen ==
    ASSUME NEW q, Before(q)
    PROVE  /\ bb_queue_pick_first => Abstract!PickFirst /\ Kept
           /\ bb_queue_pick_last => Abstract!PickLast /\ Kept
           /\ \A pos \in Int : bb_queue_pick_nth(pos) => Abstract!PickNth(pos) /\ Kept
           /\ \A d : bb_queue_get_index(d) => Abstract!GetIndex(d) /\ Kept
           /\ \A d : bb_queue_exists(d) => Abstract!Exists(d) /\ Kept
<1>1. /\ len \in Nat /\ Len(Items) = len /\ (Items = <<>> <=> len = 0)
      /\ len = 0 => first = NULL /\ last = NULL
      /\ len # 0 => first = q[0] /\ last = q[len - 1]
      /\ \A i \in 1 .. len : /\ Items[i] = data[q[i - 1]]
                             /\ q[i - 1] # NULL
  BY SeenFacts, EmptySeen DEF Before
<1>2. ASSUME UNCHANGED queue PROVE Items' = Items /\ Kept
  BY <1>2, SameSeen
<1>3. /\ 1 - 1 = 0 /\ len <= 0 <=> len = 0
      /\ len # 0 => 1 \in 1 .. len /\ len \in 1 .. len
  BY <1>1, SMT
<1> HIDE DEF Items
<1>4. ASSUME bb_queue_pick_first PROVE Abstract!PickFirst /\ Kept
  <2> DEFINE k == IF Items = <<>> THEN 0 ELSE 1
  <2>1. /\ UNCHANGED queue
        /\ Called("pick_first", NULL, IF len <= 0 \/ first = NULL THEN NULL ELSE data[first])
    BY <1>4 DEF bb_queue_pick_first
  <2>2. (IF len <= 0 \/ first = NULL THEN NULL ELSE data[first]) = Abstract!Item(k)
    BY <1>1, <1>3 DEF Abstract!Item
  <2> HIDE DEF k
  <2>3. Called("pick_first", NULL, Abstract!Item(k))
    BY <2>1, <2>2
  <2>4. Items' = Items /\ Kept
    BY <1>2, <2>1
  <2> QED  BY <2>3, <2>4, DoesSo DEF Abstract!PickFirst, k
<1>5. ASSUME bb_queue_pick_last PROVE Abstract!PickLast /\ Kept
  <2>1. UNCHANGED queue /\ Called("pick_last", NULL, IF last = NULL THEN NULL ELSE data[last])
    BY <1>5 DEF bb_queue_pick_last
  <2>2. (IF last = NULL THEN NULL ELSE data[last]) = Abstract!Item(Len(Items))
    BY <1>1, <1>3 DEF Abstract!Item
  <2>3. Called("pick_last", NULL, Abstract!Item(Len(Items)))
    BY <2>1, <2>2
  <2>4. Items' = Items /\ Kept
    BY <1>2, <2>1
  <2> QED  BY <2>3, <2>4, DoesSo DEF Abstract!PickLast
<1>6. ASSUME NEW pos \in Int, bb_queue_pick_nth(pos) PROVE Abstract!PickNth(pos) /\ Kept
  <2>1. UNCHANGED queue /\ Called("pick_nth", pos, PickNth(pos))
    BY <1>6 DEF bb_queue_pick_nth
  <2>2. PickNth(pos) = Abstract!Item(Abstract!AtSigned(pos))
    BY PickNthFacts DEF Before
  <2>3. Called("pick_nth", pos, Abstract!Item(Abstract!AtSigned(pos)))
    BY <2>1, <2>2
  <2>4. Items' = Items /\ Kept
    BY <1>2, <2>1
  <2> QED  BY <2>3, <2>4, DoesSo DEF Abstract!PickNth
<1>7. ASSUME NEW d, bb_queue_get_index(d) PROVE Abstract!GetIndex(d) /\ Kept
  <2>1. UNCHANGED queue /\ Called("get_index", d, IF Exists(d) THEN IndexOf(d) ELSE -1)
    BY <1>7 DEF bb_queue_get_index
  <2>2. (IF Exists(d) THEN IndexOf(d) ELSE -1) = Abstract!Place(d) - 1
    <3>1. Abstract!Place(d) = 0 => ~ Exists(d)
      BY PlaceFacts DEF Before
    <3>2. Abstract!Place(d) # 0 => Exists(d) /\ IndexOf(d) = Abstract!Place(d) - 1
      BY PlaceFacts DEF Before
    <3>3. 0 - 1 = -1
      BY SMT
    <3> QED  BY <3>1, <3>2, <3>3
  <2>3. Called("get_index", d, Abstract!Place(d) - 1)
    BY <2>1, <2>2
  <2>4. Items' = Items /\ Kept
    BY <1>2, <2>1
  <2> QED  BY <2>3, <2>4, DoesSo DEF Abstract!GetIndex
<1>8. ASSUME NEW d, bb_queue_exists(d) PROVE Abstract!Exists(d) /\ Kept
  <2>1. UNCHANGED queue /\ Called("exists", d, IF Exists(d) THEN 1 ELSE 0)
    BY <1>8 DEF bb_queue_exists
  <2>2. (IF Exists(d) THEN 1 ELSE 0) = IF Abstract!Place(d) = 0 THEN 0 ELSE 1
    BY PlaceFacts DEF Before
  <2>3. Called("exists", d, IF Abstract!Place(d) = 0 THEN 0 ELSE 1)
    BY <2>1, <2>2
  <2>4. Items' = Items /\ Kept
    BY <1>2, <2>1
  <2> QED  BY <2>3, <2>4, DoesSo DEF Abstract!Exists
<1> QED  BY <1>4, <1>5, <1>6, <1>7, <1>8

\* The calls that link a child next to one that holds some data. An absent item is
\* fatal, unless the queue is empty.
LEMMA InsertSeen ==
    ASSUME NEW q, Before(q), NEW name, NEW before, NEW d \in Data, InsertAfter(name, before, d)
    PROVE  Abstract!Insert(name, before, d) /\ Kept
<1> DEFINE k == Abstract!Place(before)
           b == PickChild(before)
<1>1. /\ len \in Nat /\ Linked(q, len, first, last, next, prev) /\ (Items = <<>> <=> len = 0)
      /\ Items \in [1 .. len -> Data]
      /\ len = 0 => last = NULL
      /\ len # 0 => last = q[len - 1]
      /\ \A i \in 1 .. len : q[i - 1] \in Node /\ q[i - 1] # NULL
  BY SeenFacts, EmptySeen DEF Before
<1>2. /\ k = 0 => b = NULL
      /\ k # 0 => k \in 1 .. len /\ b = q[k - 1] /\ b # NULL
  BY PlaceFacts DEF Before
<1>3. /\ \/ b = last /\ \E c \in Node : AddChild(c, d) /\ crashed' = FALSE
         \/ b # NULL /\ b # last /\ (\E c \in Node : Link(b, c, d, next[b])) /\ crashed' = FALSE
         \/ b = NULL /\ b # last /\ crashed' = TRUE /\ UNCHANGED queue
      /\ ~ crashed /\ call' = <<name, <<before, d>>>> /\ ret' = NULL
  BY DEF InsertAfter
<1>4. /\ len = 0 => k = 0 /\ 0 + 1 = len + 1 /\ len + 1 \in 1 .. (len + 1)
      /\ len # 0 => len \in 1 .. len
  <2>1. 1 .. 0 = {}
    BY SMT
  <2> QED  BY <1>1, <1>2, <2>1, SMT
<1> HIDE DEF k, b, Items
<1>5. Called(name, <<before, d>>, NULL) \/ crashed' = TRUE
  BY <1>3 DEF Called
<1>6. CASE b = last /\ \E c \in Node : AddChild(c, d) /\ crashed' = FALSE
  <2>1. PICK c \in Node : AddChild(c, d)
    BY <1>6
  <2>2. Items' = Abstract!InsertAt(Items, len + 1, d) /\ Kept
    BY <2>1, LinkEndSeen
  <2>3. k = len /\ (len = 0 \/ k # 0)
    <3>1. CASE len = 0
      BY <1>4, <3>1
    <3>2. CASE len # 0
      <4>1. b # NULL /\ k # 0 /\ q[k - 1] = q[len - 1]
        BY <1>1, <1>2, <1>4, <1>6, <3>2
      <4>2. k - 1 \in 0 .. (len - 1) /\ len - 1 \in 0 .. (len - 1)
        BY <1>1, <1>2, <3>2, <4>1, SMT
      <4>3. k - 1 = len - 1
        BY <1>1, <4>1, <4>2 DEF Linked
      <4> QED  BY <1>1, <1>2, <4>1, <4>3, SMT
    <3> QED  BY <3>1, <3>2
  <2>5. Items = <<>> \/ k # 0
    BY <1>1, <2>3
  <2>6. Called(name, <<before, d>>, NULL)
    BY <1>5, <1>6 DEF Called
  <2> QED  BY <2>2, <2>3, <2>5, <2>6, DoesSo DEF Abstract!Insert, k
<1>7. CASE b # NULL /\ b # last /\ (\E c \in Node : Link(b, c, d, next[b])) /\ crashed' = FALSE
  <2>1. PICK c \in Node : Link(b, c, d, next[b])
    BY <1>7
  <2>2. k # 0 /\ k \in 1 .. len /\ b = q[k - 1]
    BY <1>2, <1>7
  <2>3. /\ k \in 0 .. len /\ k - 1 \in 0 .. (len - 1) /\ (k - 1) + 1 = k
        /\ (k = len <=> k - 1 = len - 1) /\ len # 0
    BY <1>1, <2>2, SMT
  <2>4. k # len /\ next[b] = q[k]
    BY <1>1, <1>7, <2>2, <2>3 DEF Linked
  <2>5. Link(IF k = 0 THEN NULL ELSE q[k - 1], c, d, IF k = len THEN NULL ELSE q[k])
    BY <2>1, <2>2, <2>4
  <2>6. Items' = Abstract!InsertAt(Items, k + 1, d) /\ Kept
    BY <2>3, <2>5, LinkSeen
  <2>7. Called(name, <<before, d>>, NULL)
    BY <1>5, <1>7 DEF Called
  <2> QED  BY <2>2, <2>6, <2>7, DoesSo DEF Abstract!Insert, k
<1>8. CASE b = NULL /\ b # last /\ crashed' = TRUE /\ UNCHANGED queue
  <2>1. Items # <<>> /\ k = 0
    BY <1>1, <1>2, <1>8
  <2>2. Items' = Items /\ Kept
    BY <1>8, SameSeen
  <2> QED  BY <1>3, <1>8, <2>1, <2>2 DEF Abstract!Insert, k
<1> QED  BY <1>3, <1>6, <1>7, <1>8

\* bb_queue_insert_before_bb_child.
LEMMA InsertBeforeChildSeen ==
    ASSUME NEW q, Before(q), NEW after, NEW d \in Data, bb_queue_insert_before_bb_child(after, d)
    PROVE  Abstract!InsertBeforeChild(after, d) /\ Kept
<1> DEFINE k == Abstract!Place(after)
           a == PickChild(after)
<1>1. /\ len \in Nat /\ Linked(q, len, first, last, next, prev) /\ (Items = <<>> <=> len = 0)
      /\ Items \in [1 .. len -> Data]
      /\ len = 0 => first = NULL
      /\ len # 0 => first = q[0]
      /\ \A i \in 1 .. len : q[i - 1] \in Node /\ q[i - 1] # NULL
  BY SeenFacts, EmptySeen DEF Before
<1>2. /\ k = 0 => a = NULL
      /\ k # 0 => k \in 1 .. len /\ a = q[k - 1] /\ a # NULL
  BY PlaceFacts DEF Before
<1>3. /\ \/ a = first /\ \E c \in Node : PushChild(c, d) /\ crashed' = FALSE
         \/ a # NULL /\ a # first /\ (\E c \in Node : Link(prev[a], c, d, a)) /\ crashed' = FALSE
         \/ a = NULL /\ a # first /\ crashed' = TRUE /\ UNCHANGED queue
      /\ ~ crashed /\ call' = <<"insert_before_bb_child", <<after, d>>>> /\ ret' = NULL
  BY DEF bb_queue_insert_before_bb_child
<1>4. /\ 1 \in 1 .. (len + 1)
      /\ len # 0 => 1 \in 1 .. len /\ 1 - 1 = 0
  BY <1>1, SMT
<1> HIDE DEF k, a, Items
<1> DEFINE place == IF Items = <<>> THEN 1 ELSE k
<1>5. Called("insert_before_bb_child", <<after, d>>, NULL) \/ crashed' = TRUE
  BY <1>3 DEF Called
<1>6. CASE a = first /\ \E c \in Node : PushChild(c, d) /\ crashed' = FALSE
  <2>1. PICK c \in Node : PushChild(c, d)
    BY <1>6
  <2>2. Items' = Abstract!InsertAt(Items, 1, d) /\ Kept
    BY <2>1, LinkEndSeen
  <2>3. place = 1 /\ (Items = <<>> \/ k # 0)
    <3>1. CASE len = 0
      BY <1>1, <3>1
    <3>2. CASE len # 0
      <4>1. a # NULL /\ k # 0 /\ q[k - 1] = q[0]
        BY <1>1, <1>2, <1>4, <1>6, <3>2
      <4>2. k - 1 \in 0 .. (len - 1) /\ 0 \in 0 .. (len - 1)
        BY <1>1, <1>2, <3>2, <4>1, SMT
      <4>3. k - 1 = 0
        BY <1>1, <4>1, <4>2 DEF Linked
      <4>4. k = 1
        BY <1>2, <4>1, <4>3, SMT
      <4> QED  BY <1>1, <3>2, <4>1, <4>4
    <3> QED  BY <3>1, <3>2
  <2> HIDE DEF place
  <2>6. Called("insert_before_bb_child", <<after, d>>, NULL)
    BY <1>5, <1>6 DEF Called
  <2>7. Abstract!Does("insert_before_bb_child", <<after, d>>, NULL,
                      Abstract!InsertAt(Items, place, d))
    BY <2>2, <2>3, <2>6, DoesSo
  <2> QED  BY <2>2, <2>3, <2>7 DEF Abstract!InsertBeforeChild, k, place
<1>7. CASE a # NULL /\ a # first /\ (\E c \in Node : Link(prev[a], c, d, a)) /\ crashed' = FALSE
  <2>1. PICK c \in Node : Link(prev[a], c, d, a)
    BY <1>7
  <2>2. k # 0 /\ k \in 1 .. len /\ a = q[k - 1]
    BY <1>2, <1>7
  <2> DEFINE j == k - 1
  <2>3. j \in 0 .. len /\ j \in 0 .. (len - 1) /\ j + 1 = k /\ j # len /\ len # 0
    BY <1>1, <2>2, SMT
  <2> HIDE DEF j
  <2>4. a = q[j]
    BY <2>2 DEF j
  <2>5. j # 0 /\ prev[a] = q[j - 1]
    BY <1>1, <1>7, <2>3, <2>4 DEF Linked
  <2>6. Link(IF j = 0 THEN NULL ELSE q[j - 1], c, d, IF j = len THEN NULL ELSE q[j])
    BY <2>1, <2>3, <2>4, <2>5
  <2>7. Items' = Abstract!InsertAt(Items, j + 1, d) /\ Kept
    BY <2>3, <2>6, LinkSeen
  <2>8. place = j + 1
    BY <1>1, <2>3
  <2> HIDE DEF place
  <2>9. Called("insert_before_bb_child", <<after, d>>, NULL)
    BY <1>5, <1>7 DEF Called
  <2>10. Abstract!Does("insert_before_bb_child", <<after, d>>, NULL,
                      Abstract!InsertAt(Items, place, d))
    BY <2>7, <2>8, <2>9, DoesSo
  <2> QED  BY <2>2, <2>7, <2>10 DEF Abstract!InsertBeforeChild, k, place
<1>8. CASE a = NULL /\ a # first /\ crashed' = TRUE /\ UNCHANGED queue
  <2>1. Items # <<>> /\ k = 0
    BY <1>1, <1>2, <1>8
  <2>2. Items' = Items /\ Kept
    BY <1>8, SameSeen
  <2> QED  BY <1>3, <1>8, <2>1, <2>2 DEF Abstract!InsertBeforeChild, k
<1> QED  BY <1>3, <1>6, <1>7, <1>8

\* bb_queue_add_nth, of a caller that is careful.
LEMMA AddNthSeen ==
    ASSUME NEW q, Before(q), Careful, NEW d \in Data, NEW pos \in Position,
           bb_queue_add_nth(d, pos)
    PROVE  Abstract!AddNth(d, pos) /\ Kept
<1>1. /\ len \in Nat /\ Len(Items) = len /\ Items \in [1 .. len -> Data]
  BY SeenFacts DEF Before
<1>2. TypeOK /\ Ordered(q) /\ Items = ItemsOf(q, len, data) /\ Met' /\ pos \in Int
  BY NodeAssumption DEF Before, Seen
<1> HIDE DEF Items
<1>3. /\ Called("add_nth", <<d, pos>>, NULL)
      /\ Careful => ~ (pos > 0 /\ pos = len - 1)
  BY DEF bb_queue_add_nth
<1>4. /\ pos < 0 => Holding(Items)
      /\ pos >= 0 => Holding(Gained(Items, len, PlaceOf(pos), d))
  BY <1>2, AddNthStep
<1>5. ASSUME NEW sequel, Items' = sequel,
             sequel = IF pos < 0 THEN Items
                      ELSE IF pos = 0 THEN <<d>> \o Items
                      ELSE IF pos >= len THEN Append(Items, d)
                      ELSE Abstract!InsertAt(Items, pos + 2, d)
      PROVE  Abstract!AddNth(d, pos)
  <2>1. Abstract!Does("add_nth", <<d, pos>>, NULL, sequel)
    BY <1>3, <1>5, DoesSo
  <2> QED  BY <1>1, <1>3, <1>5, <2>1 DEF Abstract!AddNth
<1>6. CASE pos < 0
  <2>1. Items' = Items
    BY <1>2, <1>4, <1>6, SeenNext
  <2>2. len' = len
    <3>1. ~ (pos >= 0) /\ pos # 0 /\ pos # len /\ ~ (pos > 0)
      BY <1>1, <1>2, <1>6, SMT
    <3>2. UNCHANGED queue
      BY <1>6, <3>1 DEF bb_queue_add_nth
    <3> QED  BY <3>2 DEF queue
  <2> QED  BY <1>1, <1>5, <1>6, <2>1, <2>2 DEF Kept
<1>7. CASE ~ (pos < 0)
  <2> DEFINE k == PlaceOf(pos)
  <2>1. pos >= 0 /\ k \in 1 .. (len + 1)
    BY <1>1, <1>2, <1>7, SMT DEF PlaceOf
  <2>2. Items' = Gained(Items, len, k, d)
    BY <1>2, <1>4, <2>1, SeenNext
  <2>3. len' = len + 1
    BY <1>7 DEF bb_queue_add_nth, Link
  <2>4. /\ Gained(Items, len, k, d) \in [1 .. (len + 1) -> Data]
        /\ Gained(Items, len, k, d) = Abstract!InsertAt(Items, k, d)
    <3> HIDE DEF k
    <3> QED  BY <1>1, <2>1, GainedSeq
  <2>5. Kept
    BY <2>2, <2>3, <2>4 DEF Kept
  <2>6. <<d>> \o Items = Gained(Items, len, 1, d)
    BY <1>1, PushedSeq
  <2>7. Append(Items, d) = Gained(Items, len, len + 1, d)
    BY <1>1, AppendedSeq
  <2>8. Items' = IF pos = 0 THEN <<d>> \o Items
                 ELSE IF pos >= len THEN Append(Items, d)
                 ELSE Abstract!InsertAt(Items, pos + 2, d)
    BY <2>2, <2>4, <2>6, <2>7 DEF PlaceOf
  <2> QED  BY <1>5, <1>7, <2>5, <2>8
<1> QED  BY <1>6, <1>7

\* An item put back at its place.
LEMMA PutBack ==
    ASSUME NEW S, NEW n \in Nat, NEW s \in [1 .. n -> S], NEW k \in 1 .. n
    PROVE  Gained(Lost(s, n, k), n - 1, k, s[k]) = s
<1> DEFINE m == n - 1
           t == Lost(s, n, k)
<1>1. m + 1 = n
  BY SMT
<1>2. ASSUME NEW i \in 1 .. n
      PROVE  s[i] = IF i < k THEN t[i] ELSE IF i = k THEN s[k] ELSE t[i - 1]
  <2>1. /\ i < k => i \in 1 .. (n - 1)
        /\ ~ (i < k) /\ i # k => i - 1 \in 1 .. (n - 1) /\ ~ (i - 1 < k) /\ (i - 1) + 1 = i
    BY SMT
  <2> QED  BY <2>1 DEF Lost
<1> HIDE DEF m, t
<1>3. Gained(t, m, k, s[k]) = s
  BY <1>1, <1>2 DEF Gained
<1> QED  BY <1>3 DEF m, t

\* An item already at that end stays there.
LEMMA AtEndSeq ==
    ASSUME NEW S, NEW n \in Nat, n # 0, NEW s \in [1 .. n -> S]
    PROVE  /\ Append(Abstract!RemoveAt(s, n), s[n]) = s
           /\ <<s[1]>> \o Abstract!RemoveAt(s, 1) = s
<1>1. 1 \in 1 .. n /\ n \in 1 .. n /\ n - 1 \in Nat /\ (n - 1) + 1 = n
  BY SMT
<1>2. ASSUME NEW k \in 1 .. n
      PROVE  /\ Lost(s, n, k) \in [1 .. (n - 1) -> S]
             /\ Lost(s, n, k) = Abstract!RemoveAt(s, k)
  <2>1. Lost(s, n, k) \in [1 .. (n - 1) -> S]
    BY LostSeq
  <2>2. Lost(s, n, k) = Abstract!RemoveAt(s, k)
    BY LostSeq
  <2> QED  BY <2>1, <2>2
<1> DEFINE m == n - 1
<1> HIDE DEF m
<1>3. ASSUME NEW t \in [1 .. m -> S], NEW e \in S
      PROVE  Append(t, e) = Gained(t, m, m + 1, e) /\ <<e>> \o t = Gained(t, m, 1, e)
  <2>1. m \in Nat
    BY <1>1 DEF m
  <2> QED  BY <2>1, AppendedSeq, PushedSeq
<1>4. /\ m + 1 = n
      /\ \A k \in 1 .. n : /\ Gained(Lost(s, n, k), m, k, s[k]) = s
                           /\ Lost(s, n, k) \in [1 .. m -> S] /\ s[k] \in S
  BY <1>1, <1>2, PutBack DEF m
<1>5. Append(Lost(s, n, n), s[n]) = s
  BY <1>1, <1>3, <1>4
<1>6. <<s[1]>> \o Lost(s, n, 1) = s
  BY <1>1, <1>3, <1>4
<1> QED  BY <1>1, <1>2, <1>5, <1>6

\* bb_queue_put_last.
LEMMA PutLastSeen ==
    ASSUME NEW q, Before(q), NEW d, bb_queue_put_last(d)
    PROVE  Abstract!PutLast(d) /\ Kept
<1> DEFINE k == Abstract!Place(d)
           c == PickChild(d)
           sequel == IF len = 1 \/ k = 0 THEN Items ELSE Append(Abstract!RemoveAt(Items, k), d)
           answer == IF len = 1 \/ k # 0 THEN 1 ELSE 0
<1>1. /\ len \in Nat /\ Len(Items) = len /\ Items \in [1 .. len -> Data]
      /\ Linked(q, len, first, last, next, prev)
      /\ len # 0 => last = q[len - 1]
      /\ \A i \in 1 .. len : Items[i] = data[q[i - 1]]
  BY SeenFacts DEF Before
<1>2. /\ k = 0 => c = NULL
      /\ k # 0 => /\ k \in 1 .. len /\ k - 1 \in 0 .. (len - 1) /\ Items[k] = d
                  /\ c = q[k - 1] /\ c # NULL
  BY PlaceFacts DEF Before
<1>3. TypeOK /\ Ordered(q) /\ Items = ItemsOf(q, len, data) /\ Met'
  BY DEF Before, Seen
<1> HIDE DEF k, c, Items
<1>4. Called("put_last", d, answer)
  BY <1>1, <1>2 DEF bb_queue_put_last, c
<1>5. len' = len
  BY DEF bb_queue_put_last, queue
<1>6. ASSUME Items' = sequel PROVE Abstract!PutLast(d)
  <2>1. /\ (IF Len(Items) = 1 \/ k # 0 THEN 1 ELSE 0) = answer
        /\ (IF Len(Items) = 1 \/ k = 0 THEN Items ELSE Append(Abstract!Without(k), d)) = sequel
    BY <1>1 DEF Abstract!Without
  <2> HIDE DEF sequel, answer
  <2>2. Abstract!Does("put_last", d, answer, sequel)
    BY <1>4, <1>6, DoesSo
  <2> QED  BY <2>1, <2>2 DEF Abstract!PutLast, k
<1>7. CASE len = 1 \/ c = NULL \/ last = c
  <2>1. UNCHANGED queue
    BY <1>7 DEF bb_queue_put_last, c
  <2>2. Items' = Items /\ Kept
    BY <2>1, SameSeen
  <2>3. sequel = Items
    <3>1. CASE len = 1 \/ k = 0
      BY <3>1
    <3>2. CASE len # 1 /\ k # 0
      <4>1. len # 0 /\ len - 1 \in 0 .. (len - 1) /\ 0 \in 0 .. (len - 1)
        BY <1>1, <1>2, <3>2, SMT
      <4>2. q[k - 1] = q[len - 1]
        BY <1>1, <1>2, <1>7, <3>2, <4>1
      <4>3. k - 1 = len - 1
        BY <1>1, <1>2, <3>2, <4>1, <4>2 DEF Linked
      <4>4. k = len
        BY <1>1, <1>2, <3>2, <4>3, SMT
      <4>5. Append(Abstract!RemoveAt(Items, len), Items[len]) = Items
        BY <1>1, <4>1, AtEndSeq
      <4> QED  BY <1>2, <3>2, <4>4, <4>5
    <3> QED  BY <3>1, <3>2
  <2> HIDE DEF sequel
  <2> QED  BY <1>6, <2>2, <2>3
<1>8. CASE len # 1 /\ c # NULL /\ last # c
  <2>1. MovesTo(len, q, c)
    BY <1>3, <1>8, PutLastStep DEF c
  <2>2. PICK j \in 0 .. (len - 1) :
          /\ c = q[j]
          /\ Holding(Gained(Lost(Items, len, j + 1), len - 1, len, data[q[j]]))
    BY <1>3, <2>1 DEF MovesTo
  <2>3. k # 0 /\ k \in 1 .. len /\ k - 1 = j
    BY <1>1, <1>2, <1>8, <2>2 DEF Linked
  <2>4. j + 1 = k /\ data[q[j]] = d /\ d \in Data
    <3>1. j + 1 = k
      BY <1>1, <2>3, SMT
    <3> QED  BY <1>1, <1>2, <2>3, <3>1
  <2> DEFINE t == Lost(Items, len, k)
             m == len - 1
  <2>5. Items' = Gained(t, m, len, d)
    BY <1>3, <2>2, <2>4, SeenNext
  <2>6. t \in [1 .. m -> Data] /\ t = Abstract!RemoveAt(Items, k)
    <3>1. len \in Nat /\ Items \in [1 .. len -> Data] /\ k \in 1 .. len
      BY <1>1, <2>3
    <3> QED  BY <3>1, LostSeq
  <2>8. m \in Nat /\ m + 1 = len /\ len \in 1 .. (m + 1)
    BY <1>1, <2>3, SMT
  <2> HIDE DEF t, m
  <2>9. Append(t, d) = Gained(t, m, m + 1, d)
    BY <2>4, <2>6, <2>8, AppendedSeq
  <2>10. Gained(t, m, m + 1, d) \in [1 .. (m + 1) -> Data]
    BY <2>4, <2>6, <2>8, GainedSeq
  <2>11. Items' = sequel
    BY <1>8, <2>3, <2>5, <2>6, <2>8, <2>9
  <2>12. Kept
    BY <1>5, <2>5, <2>8, <2>10 DEF Kept
  <2> HIDE DEF sequel
  <2> QED  BY <1>6, <2>11, <2>12
<1> QED  BY <1>7, <1>8

\* bb_queue_put_first.
LEMMA PutFirstSeen ==
    ASSUME NEW q, Before(q), NEW d, bb_queue_put_first(d)
    PROVE  Abstract!PutFirst(d) /\ Kept
<1> DEFINE k == Abstract!Place(d)
           c == PickChild(d)
           sequel == IF len = 1 \/ k = 0 THEN Items ELSE <<d>> \o Abstract!RemoveAt(Items, k)
           answer == IF len = 1 \/ k # 0 THEN 1 ELSE 0
<1>1. /\ len \in Nat /\ Len(Items) = len /\ Items \in [1 .. len -> Data]
      /\ Linked(q, len, first, last, next, prev)
      /\ len # 0 => first = q[0]
      /\ \A i \in 1 .. len : Items[i] = data[q[i - 1]]
  BY SeenFacts DEF Before
<1>2. /\ k = 0 => c = NULL
      /\ k # 0 => /\ k \in 1 .. len /\ k - 1 \in 0 .. (len - 1) /\ Items[k] = d
                  /\ c = q[k - 1] /\ c # NULL
  BY PlaceFacts DEF Before
<1>3. TypeOK /\ Ordered(q) /\ Items = ItemsOf(q, len, data) /\ Met'
  BY DEF Before, Seen
<1> HIDE DEF k, c, Items
<1>4. Called("put_first", d, answer)
  BY <1>1, <1>2 DEF bb_queue_put_first, c
<1>5. len' = len
  BY DEF bb_queue_put_first, queue
<1>6. ASSUME Items' = sequel PROVE Abstract!PutFirst(d)
  <2>1. /\ (IF Len(Items) = 1 \/ k # 0 THEN 1 ELSE 0) = answer
        /\ (IF Len(Items) = 1 \/ k = 0 THEN Items ELSE <<d>> \o Abstract!Without(k)) = sequel
    BY <1>1 DEF Abstract!Without
  <2> HIDE DEF sequel, answer
  <2>2. Abstract!Does("put_first", d, answer, sequel)
    BY <1>4, <1>6, DoesSo
  <2> QED  BY <2>1, <2>2 DEF Abstract!PutFirst, k
<1>7. CASE len = 1 \/ c = NULL \/ first = c
  <2>1. UNCHANGED queue
    BY <1>7 DEF bb_queue_put_first, c
  <2>2. Items' = Items /\ Kept
    BY <2>1, SameSeen
  <2>3. sequel = Items
    <3>1. CASE len = 1 \/ k = 0
      BY <3>1
    <3>2. CASE len # 1 /\ k # 0
      <4>1. len # 0 /\ len - 1 \in 0 .. (len - 1) /\ 0 \in 0 .. (len - 1)
        BY <1>1, <1>2, <3>2, SMT
      <4>2. q[k - 1] = q[0]
        BY <1>1, <1>2, <1>7, <3>2, <4>1
      <4>3. k - 1 = 0
        BY <1>1, <1>2, <3>2, <4>1, <4>2 DEF Linked
      <4>4. k = 1
        BY <1>1, <1>2, <3>2, <4>3, SMT
      <4>5. <<Items[1]>> \o Abstract!RemoveAt(Items, 1) = Items
        BY <1>1, <4>1, AtEndSeq
      <4> QED  BY <1>2, <3>2, <4>4, <4>5
    <3> QED  BY <3>1, <3>2
  <2> HIDE DEF sequel
  <2> QED  BY <1>6, <2>2, <2>3
<1>8. CASE len # 1 /\ c # NULL /\ first # c
  <2>1. MovesTo(1, q, c)
    BY <1>3, <1>8, PutFirstStep DEF c
  <2>2. PICK j \in 0 .. (len - 1) :
          /\ c = q[j]
          /\ Holding(Gained(Lost(Items, len, j + 1), len - 1, 1, data[q[j]]))
    BY <1>3, <2>1 DEF MovesTo
  <2>3. k # 0 /\ k \in 1 .. len /\ k - 1 = j
    BY <1>1, <1>2, <1>8, <2>2 DEF Linked
  <2>4. j + 1 = k /\ data[q[j]] = d /\ d \in Data
    <3>1. j + 1 = k
      BY <1>1, <2>3, SMT
    <3> QED  BY <1>1, <1>2, <2>3, <3>1
  <2> DEFINE t == Lost(Items, len, k)
             m == len - 1
  <2>5. Items' = Gained(t, m, 1, d)
    BY <1>3, <2>2, <2>4, SeenNext
  <2>6. t \in [1 .. m -> Data] /\ t = Abstract!RemoveAt(Items, k)
    <3>1. len \in Nat /\ Items \in [1 .. len -> Data] /\ k \in 1 .. len
      BY <1>1, <2>3
    <3> QED  BY <3>1, LostSeq
  <2>8. m \in Nat /\ m + 1 = len /\ 1 \in 1 .. (m + 1)
    BY <1>1, <2>3, SMT
  <2> HIDE DEF t, m
  <2>9. <<d>> \o t = Gained(t, m, 1, d)
    BY <2>4, <2>6, <2>8, PushedSeq
  <2>10. Gained(t, m, 1, d) \in [1 .. (m + 1) -> Data]
    BY <2>4, <2>6, <2>8, GainedSeq
  <2>11. Items' = sequel
    BY <1>8, <2>3, <2>5, <2>6, <2>8, <2>9
  <2>12. Kept
    BY <1>5, <2>5, <2>8, <2>10 DEF Kept
  <2> HIDE DEF sequel
  <2> QED  BY <1>6, <2>11, <2>12
<1> QED  BY <1>7, <1>8

\* f with e at c.
With(f, c, e) == [f EXCEPT ![c] = e]

\* q holds n distinct children.
Distinct(q, n) ==
    /\ \A i \in 1 .. n : q[i - 1] \in Node
    /\ \A i, j \in 1 .. n : q[i - 1] = q[j - 1] => i = j

\* The children in order are distinct.
LEMMA LinkedDistinct ==
    ASSUME NEW n \in Nat, NEW q, NEW fst, NEW lst, NEW nxt, NEW prv,
           Linked(q, n, fst, lst, nxt, prv)
    PROVE  Distinct(q, n)
<1>1. \A i, j \in 1 .. n : i - 1 \in 0 .. (n - 1) /\ (i - 1 = j - 1 => i = j)
  BY SMT
<1> QED  BY <1>1 DEF Linked, Distinct

\* The data of one child is the item at its place.
LEMMA ItemsExcept ==
    ASSUME NEW n \in Nat, NEW q, Distinct(q, n),
           NEW f \in [Node -> Data \cup {NULL}], NEW k \in 1 .. n, NEW e
    PROVE  ItemsOf(q, n, With(f, q[k - 1], e)) = With(ItemsOf(q, n, f), k, e)
<1> DEFINE s == ItemsOf(q, n, f)
           f2 == [f EXCEPT ![q[k - 1]] = e]
<1>2. \A i \in 1 .. n : q[i - 1] \in Node /\ (q[i - 1] = q[k - 1] <=> i = k)
  BY DEF Distinct
<1>3. \A i \in 1 .. n : f2[q[i - 1]] = IF i = k THEN e ELSE f[q[i - 1]]
  BY <1>2
<1>4. /\ DOMAIN s = 1 .. n /\ \A i \in 1 .. n : s[i] = f[q[i - 1]]
      /\ s = [i \in 1 .. n |-> s[i]]
  BY DEF ItemsOf
<1> HIDE DEF s, f2
<1>5. [s EXCEPT ![k] = e] = [i \in 1 .. n |-> IF i = k THEN e ELSE s[i]]
  BY <1>4
<1>6. ItemsOf(q, n, f2) = [i \in 1 .. n |-> IF i = k THEN e ELSE s[i]]
  BY <1>3, <1>4 DEF ItemsOf
<1> QED  BY <1>5, <1>6 DEF s, f2, With

\* The calls that replace data.
LEMMA ReplacesSeen ==
    ASSUME NEW q, Before(q), NEW d1 \in Data, NEW d2 \in Data, NEW pos \in Int
    PROVE  /\ bb_queue_replace_nth(d1, pos) => Abstract!ReplaceNth(d1, pos) /\ Kept
           /\ bb_queue_replace(d1, d2) => Abstract!Replace(d1, d2) /\ Kept
           /\ bb_queue_switch(d1, d2) => Abstract!Switch(d1, d2) /\ Kept
<1>1. /\ len \in Nat /\ Items \in [1 .. len -> Data] /\ Items = ItemsOf(q, len, data)
      /\ Linked(q, len, first, last, next, prev)
      /\ data \in [Node -> Data \cup {NULL}]
      /\ \A i \in 1 .. len : q[i - 1] \in Node /\ Items[i] = data[q[i - 1]]
  BY SeenFacts DEF Before, Seen, TypeOK
<1> HIDE DEF Items
<1>2. ASSUME UNCHANGED <<ends, links, allocated>>, data' \in [Node -> Data \cup {NULL}],
             NEW sequel \in [1 .. len -> Data], ItemsOf(q, len, data') = sequel
      PROVE  Items' = sequel /\ Kept
  <2>1. Items' = sequel
    BY <1>2, DataSeen
  <2>2. len' = len
    BY <1>2 DEF ends
  <2> QED  BY <1>2, <2>1, <2>2 DEF Kept
<1>3. ASSUME NEW k \in 1 .. len, NEW e \in Data
      PROVE  /\ [data EXCEPT ![q[k - 1]] = e] \in [Node -> Data \cup {NULL}]
             /\ [Items EXCEPT ![k] = e] \in [1 .. len -> Data]
             /\ ItemsOf(q, len, [data EXCEPT ![q[k - 1]] = e]) = [Items EXCEPT ![k] = e]
  <2> DEFINE c == q[k - 1]
             S == Data \cup {NULL}
  <2>1. e \in S /\ c \in Node /\ data \in [Node -> S]
    BY <1>1
  <2>2. Distinct(q, len)
    BY <1>1, LinkedDistinct
  <2>3. ItemsOf(q, len, With(data, c, e)) = With(Items, k, e)
    BY <1>1, <2>2, ItemsExcept
  <2> HIDE DEF c, S
  <2>4. [data EXCEPT ![c] = e] \in [Node -> S]
    BY <2>1
  <2>5. [Items EXCEPT ![k] = e] \in [1 .. len -> Data]
    BY <1>1
  <2> QED  BY <2>3, <2>4, <2>5 DEF c, S, With
<1>4. ASSUME bb_queue_replace_nth(d1, pos) PROVE Abstract!ReplaceNth(d1, pos) /\ Kept
  <2> DEFINE k == Abstract!At(pos)
             c == PickChildNth(pos)
             sequel == IF k = 0 THEN Items ELSE [Items EXCEPT ![k] = d1]
  <2>1. /\ k = 0 => c = NULL
        /\ k # 0 => k \in 1 .. len /\ c = q[k - 1] /\ c # NULL
    BY AtFacts DEF Before
  <2>2. /\ UNCHANGED <<ends, links, allocated>>
        /\ data' = IF c = NULL THEN data ELSE [data EXCEPT ![c] = d1]
        /\ Called("replace_nth", <<d1, pos>>, IF c = NULL THEN NULL ELSE data[c])
    BY <1>4 DEF bb_queue_replace_nth
  <2> HIDE DEF k, c
  <2>3. Called("replace_nth", <<d1, pos>>, Abstract!Item(k))
    BY <1>1, <2>1, <2>2 DEF Abstract!Item
  <2>4. /\ sequel \in [1 .. len -> Data] /\ ItemsOf(q, len, data') = sequel
        /\ data' \in [Node -> Data \cup {NULL}]
    BY <1>1, <1>3, <2>1, <2>2
  <2> HIDE DEF sequel
  <2>5. Items' = sequel /\ Kept
    BY <1>2, <2>2, <2>4
  <2>6. Abstract!Does("replace_nth", <<d1, pos>>, Abstract!Item(k), sequel)
    BY <2>3, <2>5, DoesSo
  <2> QED  BY <2>5, <2>6 DEF Abstract!ReplaceNth, k, sequel
<1>5. ASSUME bb_queue_replace(d1, d2) PROVE Abstract!Replace(d1, d2) /\ Kept
  <2> DEFINE k == Abstract!Place(d1)
             c == PickChild(d1)
             sequel == IF k = 0 THEN Items ELSE [Items EXCEPT ![k] = d2]
  <2>1. /\ k = 0 => c = NULL
        /\ k # 0 => k \in 1 .. len /\ c = q[k - 1] /\ c # NULL
    BY PlaceFacts DEF Before
  <2>2. /\ UNCHANGED <<ends, links, allocated>>
        /\ data' = IF c = NULL THEN data ELSE [data EXCEPT ![c] = d2]
        /\ Called("replace", <<d1, d2>>, NULL)
    BY <1>5 DEF bb_queue_replace
  <2> HIDE DEF k, c
  <2>4. /\ sequel \in [1 .. len -> Data] /\ ItemsOf(q, len, data') = sequel
        /\ data' \in [Node -> Data \cup {NULL}]
    BY <1>1, <1>3, <2>1, <2>2
  <2> HIDE DEF sequel
  <2>5. Items' = sequel /\ Kept
    BY <1>2, <2>2, <2>4
  <2>6. Abstract!Does("replace", <<d1, d2>>, NULL, sequel)
    BY <2>2, <2>5, DoesSo
  <2> QED  BY <2>5, <2>6 DEF Abstract!Replace, k, sequel
<1>6. ASSUME bb_queue_switch(d1, d2) PROVE Abstract!Switch(d1, d2) /\ Kept
  <2> DEFINE k1 == Abstract!Place(d1)
             k2 == Abstract!Place(d2)
             c1 == PickChild(d1)
             c2 == PickChild(d2)
             sequel == IF k1 = 0 \/ k2 = 0 THEN Items
                       ELSE [Items EXCEPT ![k1] = d2, ![k2] = d1]
             f == [data EXCEPT ![c1] = d2]
             s == [Items EXCEPT ![k1] = d2]
  <2>1. /\ k1 = 0 => c1 = NULL
        /\ k1 # 0 => k1 \in 1 .. len /\ c1 = q[k1 - 1] /\ c1 # NULL
        /\ k2 = 0 => c2 = NULL
        /\ k2 # 0 => k2 \in 1 .. len /\ c2 = q[k2 - 1] /\ c2 # NULL
    BY PlaceFacts DEF Before
  <2>2. /\ UNCHANGED <<ends, links, allocated>>
        /\ data' = IF c1 = NULL \/ c2 = NULL THEN data
                   ELSE [data EXCEPT ![c1] = d2, ![c2] = d1]
        /\ Called("switch", <<d1, d2>>, NULL)
    BY <1>6 DEF bb_queue_switch
  <2> HIDE DEF k1, k2, c1, c2
  <2>3. CASE k1 = 0 \/ k2 = 0
    <3>1. data' = data /\ sequel = Items
      BY <2>1, <2>2, <2>3
    <3>2. /\ sequel \in [1 .. len -> Data] /\ ItemsOf(q, len, data') = sequel
          /\ data' \in [Node -> Data \cup {NULL}]
      BY <1>1, <3>1
    <3> HIDE DEF sequel
    <3>3. Items' = sequel /\ Kept
      BY <1>2, <2>2, <3>2
    <3>4. Abstract!Does("switch", <<d1, d2>>, NULL, sequel)
      BY <2>2, <3>3, DoesSo
    <3> QED  BY <3>3, <3>4 DEF Abstract!Switch, k1, k2, sequel
  <2>4. CASE k1 # 0 /\ k2 # 0
    <3>1. /\ f \in [Node -> Data \cup {NULL}] /\ s \in [1 .. len -> Data]
          /\ ItemsOf(q, len, f) = s
      BY <1>3, <2>1, <2>4
    <3>2. data' = [f EXCEPT ![q[k2 - 1]] = d1]
      BY <2>1, <2>2, <2>4
    <3>3. sequel = [s EXCEPT ![k2] = d1]
      BY <2>4
    <3> HIDE DEF f, s, sequel
    <3>4. ItemsOf(q, len, With(f, q[k2 - 1], d1)) = With(ItemsOf(q, len, f), k2, d1)
      <4>1. Distinct(q, len)
        BY <1>1, LinkedDistinct
      <4>2. len \in Nat /\ k2 \in 1 .. len
        BY <1>1, <2>1, <2>4
      <4> QED  BY <3>1, <4>1, <4>2, ItemsExcept
    <3>5. /\ sequel \in [1 .. len -> Data] /\ ItemsOf(q, len, data') = sequel
          /\ data' \in [Node -> Data \cup {NULL}]
      <4>1. q[k2 - 1] \in Node /\ k2 \in 1 .. len /\ d1 \in Data
        BY <1>1, <2>1, <2>4
      <4>2. With(f, q[k2 - 1], d1) \in [Node -> Data \cup {NULL}]
        BY <3>1, <4>1 DEF With
      <4>3. With(s, k2, d1) \in [1 .. len -> Data]
        BY <3>1, <4>1 DEF With
      <4>4. data' = With(f, q[k2 - 1], d1) /\ sequel = With(s, k2, d1)
        BY <3>2, <3>3 DEF With
      <4> QED  BY <3>1, <3>4, <4>2, <4>3, <4>4
    <3>6. Items' = sequel /\ Kept
      BY <1>2, <2>2, <3>5
    <3>7. Abstract!Does("switch", <<d1, d2>>, NULL, sequel)
      BY <2>2, <3>6, DoesSo
    <3> QED  BY <3>6, <3>7 DEF Abstract!Switch, k1, k2, sequel
  <2> QED  BY <2>3, <2>4
<1> QED  BY <1>4, <1>5, <1>6

-------------------------------------------------------------------------------
(* Sorting.                                                                      *)

\* One step of a round, on the items: those at i and after it in order.
Sifted(t, i) == IF t[i] > t[i + 1] THEN With(With(t, i, t[i + 1]), i + 1, t[i]) ELSE t

\* No item before place j is greater than the one there.
Top(t, j) == \A a \in 1 .. j : t[a] <= t[j]

\* The last k of n places hold what they will hold.
Settled(t, n, k) == \A j \in 1 .. n : j > n - k => Top(t, j)

\* So they do in a round, whose first i steps have brought the greatest to place i + 1.
Sinking(t, n, k, i) ==
    /\ Settled(t, n, k)
    /\ Top(t, i + 1)
    /\ i + 1 >= n - k /\ n - k >= 1 => Top(t, n - k)

\* p permutes the places of a list of n.
Permutes(p, n) ==
    /\ p \in [1 .. n -> 1 .. n]
    /\ \A i, j \in 1 .. n : p[i] = p[j] => i = j
    /\ \A i \in 1 .. n : \E j \in 1 .. n : p[j] = i

\* t is a rearrangement of s.
Rearranged(s, t, n) == \E p : Permutes(p, n) /\ t = [i \in 1 .. n |-> s[p[i]]]

\* The exchange at a place leaves two items in order and the others alone.
LEMMA SiftedItems ==
    ASSUME NEW n \in Nat, NEW t \in [1 .. n -> Data], NEW i \in 1 .. (n - 1)
    PROVE  /\ Sifted(t, i) \in [1 .. n -> Data]
           /\ t[i] <= t[i + 1] => Sifted(t, i) = t
           /\ t[i] > t[i + 1] => /\ Sifted(t, i)[i] = t[i + 1] /\ Sifted(t, i)[i + 1] = t[i]
                                 /\ \A j \in 1 .. n : j # i /\ j # i + 1 => Sifted(t, i)[j] = t[j]
<1>1. i \in 1 .. n /\ i + 1 \in 1 .. n /\ i # i + 1
  BY SMT
<1>2. t[i] \in Data /\ t[i + 1] \in Data
  BY <1>1
<1>3. t[i] \in Int /\ t[i + 1] \in Int
  BY <1>2, NodeAssumption
<1>4. t[i] <= t[i + 1] <=> ~ (t[i] > t[i + 1])
  BY <1>3, SMT
<1>5. ASSUME t[i] > t[i + 1]
      PROVE  /\ Sifted(t, i) \in [1 .. n -> Data]
             /\ Sifted(t, i)[i] = t[i + 1] /\ Sifted(t, i)[i + 1] = t[i]
             /\ \A j \in 1 .. n : j # i /\ j # i + 1 => Sifted(t, i)[j] = t[j]
  <2> DEFINE k == i + 1
             x == t[i]
             y == t[k]
             v == [t EXCEPT ![i] = y]
             w == [v EXCEPT ![k] = x]
  <2>1. Sifted(t, i) = w
    BY <1>5 DEF Sifted, With
  <2>2. i \in 1 .. n /\ k \in 1 .. n /\ i # k /\ x \in Data /\ y \in Data
    BY <1>1, <1>2
  <2> HIDE DEF k, x, y
  <2>3. v \in [1 .. n -> Data] /\ v[i] = y /\ \A j \in 1 .. n : j # i => v[j] = t[j]
    BY <2>2
  <2> HIDE DEF v
  <2>4. w \in [1 .. n -> Data] /\ w[k] = x /\ \A j \in 1 .. n : j # k => w[j] = v[j]
    BY <2>2, <2>3
  <2> HIDE DEF w
  <2>5. w[i] = y /\ \A j \in 1 .. n : j # i /\ j # k => w[j] = t[j]
    BY <2>2, <2>3, <2>4
  <2> QED  BY <2>1, <2>4, <2>5 DEF k, x, y
<1>6. ASSUME t[i] <= t[i + 1] PROVE Sifted(t, i) = t
  BY <1>4, <1>6 DEF Sifted
<1> QED  BY <1>4, <1>5, <1>6

\* It permutes them.
LEMMA SiftedRearranges ==
    ASSUME NEW n \in Nat, NEW s \in [1 .. n -> Data], NEW t \in [1 .. n -> Data],
           NEW i \in 1 .. (n - 1), Rearranged(s, t, n)
    PROVE  Rearranged(s, Sifted(t, i), n)
<1> DEFINE k == i + 1
           u == Sifted(t, i)
<1>1. i \in 1 .. n /\ k \in 1 .. n /\ i # k
  BY SMT
<1>2. CASE t[i] <= t[k]
  BY <1>2, SiftedItems
<1>3. CASE ~ (t[i] <= t[k])
  <2>1. PICK p : Permutes(p, n) /\ t = [j \in 1 .. n |-> s[p[j]]]
    BY DEF Rearranged
  <2>2. t[i] > t[k]
    <3>1. t[i] \in Int /\ t[k] \in Int
      BY <1>1, NodeAssumption
    <3> QED  BY <1>3, <3>1, SMT
  <2>3. /\ u \in [1 .. n -> Data] /\ u[i] = t[k] /\ u[k] = t[i]
        /\ \A j \in 1 .. n : j # i /\ j # k => u[j] = t[j]
    BY <2>2, SiftedItems
  <2> DEFINE r == [j \in 1 .. n |-> IF j = i THEN p[k] ELSE IF j = k THEN p[i] ELSE p[j]]
  <2> HIDE DEF u, k
  <2>4. /\ p \in [1 .. n -> 1 .. n]
        /\ \A a, b \in 1 .. n : p[a] = p[b] => a = b
        /\ \A a \in 1 .. n : \E b \in 1 .. n : p[b] = a
    BY <2>1 DEF Permutes
  <2>5. r \in [1 .. n -> 1 .. n]
    BY <1>1, <2>4
  <2>6. /\ r[i] = p[k] /\ r[k] = p[i]
        /\ \A j \in 1 .. n : j # i /\ j # k => r[j] = p[j]
    BY <1>1
  <2> HIDE DEF r
  <2>7. ASSUME NEW a \in 1 .. n, NEW b \in 1 .. n, r[a] = r[b] PROVE a = b
    <3> DEFINE From(j) == IF j = i THEN k ELSE IF j = k THEN i ELSE j
    <3>1. From(a) \in 1 .. n /\ From(b) \in 1 .. n /\ r[a] = p[From(a)] /\ r[b] = p[From(b)]
      BY <1>1, <2>6
    <3>2. From(a) = From(b)
      <4> HIDE DEF From
      <4> QED  BY <2>4, <2>7, <3>1
    <3> QED  BY <1>1, <3>2
  <2>8. ASSUME NEW a \in 1 .. n PROVE \E b \in 1 .. n : r[b] = a
    <3>1. PICK b \in 1 .. n : p[b] = a
      BY <2>4
    <3> QED  BY <1>1, <2>6, <3>1
  <2>9. Permutes(r, n)
    BY <2>5, <2>7, <2>8 DEF Permutes
  <2>10. \A j \in 1 .. n : t[j] = s[p[j]]
    BY <2>1
  <2>11. \A j \in 1 .. n : u[j] = s[r[j]]
    BY <1>1, <2>3, <2>6, <2>10
  <2>12. u = [j \in 1 .. n |-> s[r[j]]]
    BY <2>3, <2>11
  <2>13. Rearranged(s, u, n)
    BY <2>9, <2>12 DEF Rearranged
  <2> QED  BY <2>13 DEF u
<1> QED  BY <1>2, <1>3

\* A step of a round sinks one more place.
LEMMA SinkStep ==
    ASSUME NEW n \in Nat, NEW t \in [1 .. n -> Data], NEW k \in 0 .. n,
           NEW i \in 1 .. (n - 1), Sinking(t, n, k, i - 1)
    PROVE  Sinking(Sifted(t, i), n, k, i)
<1> DEFINE l == i + 1
           m == n - k
           u == Sifted(t, i)
<1>1. /\ i \in 1 .. n /\ l \in 1 .. n /\ i # l /\ i < l /\ l \in Int /\ m \in Int /\ i \in Int
      /\ (i - 1) + 1 = i /\ (~ (l <= m) => l > m)
      /\ \A j \in 1 .. n : j \in Int
      /\ \A j \in 1 .. n : t[j] \in Int
  <2>1. \A j \in 1 .. n : t[j] \in Int
    BY NodeAssumption
  <2>2. /\ i \in 1 .. n /\ l \in 1 .. n /\ i # l /\ i < l /\ l \in Int /\ m \in Int /\ i \in Int
        /\ (i - 1) + 1 = i /\ (~ (l <= m) => l > m)
        /\ \A j \in 1 .. n : j \in Int
    BY SMT
  <2> QED  BY <2>1, <2>2
<1>2. /\ u \in [1 .. n -> Data]
      /\ t[i] <= t[l] => u = t
      /\ t[i] > t[l] => /\ u[i] = t[l] /\ u[l] = t[i]
                        /\ \A j \in 1 .. n : j # i /\ j # l => u[j] = t[j]
  BY SiftedItems
<1>3. /\ Settled(t, n, k) /\ Top(t, i)
      /\ i >= m /\ m >= 1 => Top(t, m)
  BY <1>1 DEF Sinking
<1>4. SUFFICES /\ Settled(u, n, k) /\ Top(u, l)
               /\ l >= m /\ m >= 1 => Top(u, m)
  BY DEF Sinking
<1> HIDE DEF u
<1>5. CASE ~ (l <= m)
  <2>1. Top(t, l)
    BY <1>1, <1>3, <1>5 DEF Settled
  <2>2. i \in 1 .. l
    BY SMT
  <2>3. u = t
    BY <1>2, <2>1, <2>2 DEF Top
  <2>4. i >= m
    BY <1>1, <1>5, SMT
  <2> QED  BY <1>3, <2>1, <2>3, <2>4
<1>6. CASE l <= m /\ t[i] <= t[l]
  <2>1. Top(t, l)
    <3> SUFFICES ASSUME NEW a \in 1 .. l PROVE t[a] <= t[l]
      BY DEF Top
    <3>1. a \in 1 .. n /\ (a = l \/ a \in 1 .. i)
      BY <1>1, SMT
    <3>2. a \in 1 .. i => t[a] <= t[i]
      BY <1>3 DEF Top
    <3>3. t[a] \in Int /\ t[i] \in Int /\ t[l] \in Int
      BY <1>1, <3>1
    <3> QED  BY <1>6, <3>1, <3>2, <3>3, SMT
  <2>2. l >= m => l = m
    BY <1>1, <1>6, SMT
  <2> QED  BY <1>2, <1>3, <1>6, <2>1, <2>2
<1>7. CASE l <= m /\ ~ (t[i] <= t[l])
  <2>1. t[i] > t[l]
    <3>1. t[i] \in Int /\ t[l] \in Int
      BY <1>1
    <3> QED  BY <1>7, <3>1, SMT
  <2>2. /\ u[i] = t[l] /\ u[l] = t[i]
        /\ \A j \in 1 .. n : j # i /\ j # l => u[j] = t[j]
    BY <1>2, <2>1
  <2>3. Top(u, l)
    <3> SUFFICES ASSUME NEW a \in 1 .. l PROVE u[a] <= u[l]
      BY DEF Top
    <3>1. a \in 1 .. n /\ (a # l => a \in 1 .. i)
      BY <1>1, SMT
    <3>2. a # l => t[a] <= t[i]
      BY <1>3, <3>1 DEF Top
    <3>3. t[a] \in Int /\ t[i] \in Int /\ t[l] \in Int
      BY <1>1, <3>1
    <3>4. a = i \/ a = l \/ (u[a] = t[a] /\ a # l)
      BY <2>2, <3>1
    <3> QED  BY <2>1, <2>2, <3>2, <3>3, <3>4, SMT
  <2>4. l >= m => l = m
    BY <1>1, <1>7, SMT
  <2>5. Settled(u, n, k)
    <3> SUFFICES ASSUME NEW j \in 1 .. n, j > m, NEW a \in 1 .. j PROVE u[a] <= u[j]
      BY DEF Settled, Top
    <3>1. a \in 1 .. n /\ j # i /\ j # l /\ i \in 1 .. j /\ l \in 1 .. j
      BY <1>1, <1>7, SMT
    <3>2. \A b \in 1 .. j : t[b] <= t[j]
      BY <1>3 DEF Settled, Top
    <3>3. u[j] = t[j] /\ \E b \in 1 .. j : u[a] = t[b]
      BY <2>2, <3>1
    <3> QED  BY <3>2, <3>3
  <2> QED  BY <2>3, <2>4, <2>5
<1> QED  BY <1>5, <1>6, <1>7

\* A round begins with one item sunk, and ends with one more settled.
LEMMA RoundEnds ==
    ASSUME NEW n \in Nat, n # 0, NEW t \in [1 .. n -> Data], NEW k \in 0 .. (n - 1)
    PROVE  /\ Settled(t, n, k) => Sinking(t, n, k, 0)
           /\ Sinking(t, n, k, n - 1) => Settled(t, n, k + 1)
<1>1. /\ 0 + 1 = 1 /\ 1 \in 1 .. n /\ 1 .. 1 = {1} /\ (0 + 1 >= n - k /\ n - k >= 1 => n - k = 1)
      /\ (n - 1) + 1 >= n - k /\ n - k >= 1
      /\ \A j \in 1 .. n : j > n - (k + 1) => j = n - k \/ j > n - k
  BY SMT
<1>2. t[1] \in Int
  BY <1>1, NodeAssumption
<1>3. t[1] <= t[1]
  BY <1>2, SMT
<1>4. Top(t, 1)
  BY <1>1, <1>3 DEF Top
<1>5. ASSUME Settled(t, n, k) PROVE Sinking(t, n, k, 0)
  BY <1>1, <1>4, <1>5 DEF Sinking
<1>6. ASSUME Sinking(t, n, k, n - 1) PROVE Settled(t, n, k + 1)
  <2>1. Settled(t, n, k) /\ Top(t, n - k)
    BY <1>1, <1>6 DEF Sinking
  <2> QED  BY <1>1, <2>1 DEF Settled
<1> QED  BY <1>5, <1>6

\* What k rounds have made of the items s.
Progress(s, t, n, k) ==
    t \in [1 .. n -> Data] /\ Rearranged(s, t, n) /\ Settled(t, n, k)

\* The exchange of the data of a child and the next one is that of their items.
LEMMA SiftSeen ==
    ASSUME NEW n \in Nat, NEW q, Distinct(q, n), NEW i \in 1 .. (n - 1),
           next[q[i - 1]] = q[i],
           NEW f \in [Node -> Data \cup {NULL}], ItemsOf(q, n, f) \in [1 .. n -> Data]
    PROVE  ItemsOf(q, n, InOrder(f, q[i - 1])) = Sifted(ItemsOf(q, n, f), i)
<1> DEFINE k == i + 1
           t == ItemsOf(q, n, f)
           v == With(f, q[i - 1], f[q[k - 1]])
<1>1. i \in 1 .. n /\ k \in 1 .. n /\ k - 1 = i
  BY SMT
<1>2. t[i] = f[q[i - 1]] /\ t[k] = f[q[k - 1]]
  BY <1>1 DEF ItemsOf
<1>3. q[i - 1] \in Node /\ q[k - 1] \in Node
  BY <1>1 DEF Distinct
<1>4. next[q[i - 1]] = q[k - 1]
  BY <1>1
<1> HIDE DEF k
<1>5. InOrder(f, q[i - 1]) = IF t[i] > t[k] THEN With(v, q[k - 1], f[q[i - 1]]) ELSE f
  <2> HIDE DEF t
  <2> QED  BY <1>2, <1>4 DEF InOrder, With
<1>6. f[q[k - 1]] \in Data \cup {NULL}
  BY <1>3
<1>7. v \in [Node -> Data \cup {NULL}]
  BY <1>3, <1>6 DEF With
<1>8. ItemsOf(q, n, v) = With(t, i, f[q[k - 1]])
  BY <1>1, ItemsExcept
<1> HIDE DEF v
<1>9. ItemsOf(q, n, With(v, q[k - 1], f[q[i - 1]])) = With(ItemsOf(q, n, v), k, f[q[i - 1]])
  BY <1>1, <1>7, ItemsExcept
<1>10. Sifted(t, i) = IF t[i] > t[k] THEN With(With(t, i, t[k]), k, t[i]) ELSE t
  BY DEF Sifted, k
<1>11. CASE t[i] > t[k]
  BY <1>2, <1>5, <1>8, <1>9, <1>10, <1>11
<1>12. CASE ~ (t[i] > t[k])
  BY <1>5, <1>10, <1>12
<1> QED  BY <1>11, <1>12

\* A round of the sort settles one more item.
LEMMA RoundSeen ==
    ASSUME TypeOK, NEW q, Ordered(q), len # 0, NEW f \in [Node -> Data \cup {NULL}],
           NEW s \in [1 .. len -> Data], NEW k \in 0 .. (len - 1),
           Progress(s, ItemsOf(q, len, f), len, k)
    PROVE  Progress(s, ItemsOf(q, len, Round(f)), len, k + 1)
<1>1. PICK g : IsRound(g, f, q)
  BY RoundIterates
<1>2. len \in Nat /\ Linked(q, len, first, last, next, prev)
  BY SMT DEF TypeOK, Ordered
<1>3. Distinct(q, len)
  BY <1>2, LinkedDistinct
<1>4. /\ k \in 0 .. len /\ len - 1 \in Nat /\ 0 \in 0 .. (len - 1) /\ len - 1 \in 0 .. (len - 1)
      /\ \A i \in 1 .. (len - 1) : /\ i - 1 \in 0 .. (len - 1) /\ i - 1 \in 0 .. (len - 2)
                                   /\ (i - 1) + 1 = i /\ i \in 0 .. (len - 1) /\ i - 1 # len - 1
      /\ \A i \in 0 .. ((len - 1) - 1) : i \in Nat /\ i + 1 \in Nat /\ i + 1 \in 1 .. (len - 1)
                                         /\ (i + 1) - 1 = i
  BY <1>2, SMT
<1>5. \A i \in 1 .. (len - 1) : next[q[i - 1]] = q[i]
  BY <1>2, <1>4 DEF Linked
<1> DEFINE T(i) == ItemsOf(q, len, g[i])
           Fine(i) == /\ T(i) \in [1 .. len -> Data] /\ Rearranged(s, T(i), len)
                      /\ Sinking(T(i), len, k, i)
           S == {i \in Nat : Fine(i)}
<1>6. 0 \in S
  <2>1. T(0) \in [1 .. len -> Data] /\ Rearranged(s, T(0), len) /\ Settled(T(0), len, k)
    BY <1>1 DEF IsRound, Progress
  <2> HIDE DEF T
  <2>2. Sinking(T(0), len, k, 0)
    BY <1>2, <2>1, RoundEnds
  <2> QED  BY <2>1, <2>2
<1>7. ASSUME NEW i \in 0 .. ((len - 1) - 1), i \in S PROVE i + 1 \in S
  <2> DEFINE j == i + 1
  <2>1. j \in 1 .. (len - 1) /\ j - 1 = i /\ j \in Nat /\ i \in 0 .. (len - 1)
    BY <1>4
  <2>2. g[j] = InOrder(g[i], q[j - 1]) /\ g[i] \in [Node -> Data \cup {NULL}]
    BY <1>1, <2>1 DEF IsRound
  <2>3. next[q[j - 1]] = q[j]
    BY <1>5, <2>1
  <2>4. T(i) \in [1 .. len -> Data] /\ Rearranged(s, T(i), len) /\ Sinking(T(i), len, k, j - 1)
    BY <1>7, <2>1
  <2> HIDE DEF j
  <2>5. T(j) = Sifted(T(i), j)
    BY <1>2, <1>3, <2>1, <2>2, <2>3, <2>4, SiftSeen
  <2> HIDE DEF T
  <2>6. Sifted(T(i), j) \in [1 .. len -> Data]
    BY <1>2, <2>1, <2>4, SiftedItems
  <2>7. Rearranged(s, Sifted(T(i), j), len)
    BY <1>2, <2>1, <2>4, SiftedRearranges
  <2>8. Sinking(Sifted(T(i), j), len, k, j)
    BY <1>2, <1>4, <2>1, <2>4, SinkStep
  <2>9. j \in S
    BY <2>1, <2>5, <2>6, <2>7, <2>8
  <2> QED  BY <2>9 DEF j
<1>8. Fine(len - 1)
  <2> HIDE DEF Fine
  <2>1. 0 .. (len - 1) \subseteq S
    <3> HIDE DEF S
    <3> QED  BY <1>4, <1>6, <1>7, UpTo
  <2> QED  BY <1>4, <2>1
<1>9. Settled(T(len - 1), len, k + 1)
  <2> HIDE DEF T
  <2> QED  BY <1>2, <1>8, RoundEnds
<1>10. T(len - 1) = ItemsOf(q, len, Round(f))
  BY <1>1 DEF IsRound
<1> QED  BY <1>8, <1>9, <1>10 DEF Progress

\* bb_queue_bubble_sort leaves the items in ascending order.
LEMMA SortSeen ==
    ASSUME NEW q, Before(q), bb_queue_bubble_sort
    PROVE  Abstract!Sort /\ Kept
<1>1. /\ len \in Nat /\ Items \in [1 .. len -> Data] /\ Items = ItemsOf(q, len, data)
      /\ TypeOK /\ Ordered(q) /\ DOMAIN Items = 1 .. len
  BY SeenFacts DEF Before, Seen
<1> HIDE DEF Items
<1>2. PICK r : IsSort(r)
  BY <1>1, SortIterates
<1> DEFINE T(k) == ItemsOf(q, len, r[k])
           S == {k \in Nat : Progress(Items, T(k), len, k)}
<1>3. /\ 0 \in 0 .. len /\ len \in 0 .. len /\ len - len = 0
      /\ \A k \in 0 .. (len - 1) : k \in 0 .. len /\ k + 1 \in 1 .. len /\ (k + 1) - 1 = k
                                   /\ k + 1 \in Nat /\ len # 0
      /\ \A j \in 1 .. len : j > 0 /\ ~ (j > len)
      /\ \A i, j \in 1 .. len : i <= j => i \in 1 .. j
  BY <1>1, SMT
<1>4. 0 \in S
  <2>1. Permutes([i \in 1 .. len |-> i], len)
    BY DEF Permutes
  <2>2. Items = [i \in 1 .. len |-> Items[[j \in 1 .. len |-> j][i]]]
    BY <1>1
  <2>3. Rearranged(Items, Items, len)
    BY <2>1, <2>2 DEF Rearranged
  <2>4. len - 0 = len
    BY <1>1, SMT
  <2>5. Settled(Items, len, 0)
    BY <1>3, <2>4 DEF Settled
  <2>6. T(0) = Items
    BY <1>1, <1>2 DEF IsSort
  <2> QED  BY <1>1, <2>3, <2>5, <2>6 DEF Progress
<1>5. ASSUME NEW k \in 0 .. (len - 1), k \in S PROVE k + 1 \in S
  <2>1. r[k] \in [Node -> Data \cup {NULL}] /\ r[k + 1] = Round(r[k])
    BY <1>2, <1>3 DEF IsSort
  <2>2. Progress(Items, T(k + 1), len, k + 1)
    <3>1. Progress(Items, ItemsOf(q, len, r[k]), len, k)
      BY <1>5
    <3>2. Progress(Items, ItemsOf(q, len, Round(r[k])), len, k + 1)
      BY <1>1, <1>3, <2>1, <3>1, RoundSeen
    <3> QED  BY <2>1, <3>2
  <2> QED  BY <1>3, <2>2
<1>6. Progress(Items, T(len), len, len)
  <2>1. 0 .. len \subseteq S
    <3> HIDE DEF S
    <3> QED  BY <1>1, <1>4, <1>5, UpTo
  <2> QED  BY <1>3, <2>1
<1>7. /\ UNCHANGED <<ends, links, allocated>> /\ Called("bubble_sort", NULL, NULL)
      /\ data' \in [Node -> Data \cup {NULL}] /\ data' = r[len]
  BY <1>2, <1>3 DEF bb_queue_bubble_sort, IsSort
<1>8. Items' = ItemsOf(q, len, data') /\ len' = len
  BY <1>7, DataSeen DEF ends
<1>9. Progress(Items, Items', len, len)
  BY <1>6, <1>7, <1>8
<1>10. PICK p : Permutes(p, len) /\ Items' = [i \in 1 .. len |-> Items[p[i]]]
  BY <1>9 DEF Progress, Rearranged
<1>11. p \in Abstract!Bijection(DOMAIN Items, DOMAIN Items)
  BY <1>1, <1>10 DEF Permutes, Abstract!Bijection, Abstract!Injection, Abstract!Surjection,
     Abstract!IsInjective
<1>12. Abstract!Ascending([i \in 1 .. len |-> Items[p[i]]])
  <2>1. \A j \in 1 .. len : Top(Items', j)
    BY <1>3, <1>9 DEF Progress, Settled
  <2>2. \A i, j \in 1 .. len : i <= j => Items'[i] <= Items'[j]
    BY <1>3, <2>1 DEF Top
  <2> QED  BY <1>10, <2>2 DEF Abstract!Ascending
<1>13. Abstract!Does("bubble_sort", NULL, NULL, [i \in 1 .. len |-> Items[p[i]]])
  BY <1>7, <1>10, DoesSo
<1>14. Abstract!Sort
  BY <1>1, <1>11, <1>12, <1>13 DEF Abstract!Sort
<1> QED  BY <1>8, <1>9, <1>14 DEF Progress, Kept

-------------------------------------------------------------------------------
(* The refinement.                                                               *)

\* The items a walk meets are data: never what a freed child held.
HoldsData == Items \in [1 .. len -> Data]

\* A new queue is an empty sequence.
LEMMA InitSeen == Init => HoldsData /\ Abstract!Init
<1> SUFFICES ASSUME Init PROVE HoldsData /\ Abstract!Init
  OBVIOUS
<1>1. 1 .. 0 = {}
  BY SMT
<1>2. len = 0
  BY DEF Init
<1>3. Items = <<>>
  BY <1>1, <1>2 DEF Items
<1>4. HoldsData
  BY <1>1, <1>2, <1>3 DEF HoldsData
<1> QED  BY <1>3, <1>4 DEF Init, Abstract!Init

\* Each call a careful caller makes is the call of that name on the sequence.
LEMMA NextSeen ==
    ASSUME NEW q, Before(q), Careful, Next
    PROVE  Abstract!Next /\ Kept
<1>1. Position \subseteq Int
  BY NodeAssumption
<1>2. CASE \/ bb_queue_get_first \/ bb_queue_pop \/ bb_queue_clear
           \/ bb_queue_bubble_sort \/ bb_queue_pick_first \/ bb_queue_pick_last
  <2>1. /\ \/ Abstract!Pop \/ Abstract!GetFirst \/ Abstract!Clear
           \/ Abstract!Sort \/ Abstract!PickFirst \/ Abstract!PickLast
        /\ Kept
    BY <1>2, GetFirstSeen, PopSeen, ClearSeen, SortSeen, ReadsSeen
  <2> QED  BY <2>1 DEF Abstract!Next
<1>3. ASSUME NEW d \in Data,
             \/ bb_queue_add(d) \/ bb_queue_push(d) \/ bb_queue_remv(d)
             \/ bb_queue_put_last(d) \/ bb_queue_put_first(d)
             \/ bb_queue_get_index(d) \/ bb_queue_exists(d)
      PROVE  Abstract!Next /\ Kept
  <2>1. /\ \/ Abstract!Add(d) \/ Abstract!Push(d) \/ Abstract!Remv(d)
           \/ Abstract!PutLast(d) \/ Abstract!PutFirst(d)
           \/ Abstract!GetIndex(d) \/ Abstract!Exists(d)
        /\ Kept
    BY <1>3, AddsSeen, RemvSeen, PutLastSeen, PutFirstSeen, ReadsSeen
  <2> QED  BY <2>1 DEF Abstract!Next
<1>4. ASSUME NEW pos \in Position,
             bb_queue_remv_nth(pos) \/ bb_queue_get_nth(pos) \/ bb_queue_pick_nth(pos)
      PROVE  Abstract!Next /\ Kept
  <2>1. pos \in Int
    BY <1>1
  <2>2. /\ Abstract!RemvNth(pos) \/ Abstract!GetNth(pos) \/ Abstract!PickNth(pos)
        /\ Kept
    BY <1>4, <2>1, RemvNthSeen, GetNthSeen, ReadsSeen
  <2> QED  BY <2>2 DEF Abstract!Next
<1>5. ASSUME NEW d \in Data, NEW pos \in Position,
             bb_queue_add_nth(d, pos) \/ bb_queue_replace_nth(d, pos)
      PROVE  Abstract!Next /\ Kept
  <2>1. pos \in Int
    BY <1>1
  <2>2. (Abstract!AddNth(d, pos) \/ Abstract!ReplaceNth(d, pos)) /\ Kept
    BY <1>5, <2>1, AddNthSeen, ReplacesSeen
  <2> QED  BY <2>2 DEF Abstract!Next
<1>6. ASSUME NEW d1 \in Data, NEW d2 \in Data,
             \/ bb_queue_replace(d1, d2) \/ bb_queue_switch(d1, d2)
             \/ bb_queue_insert_after(d1, d2) \/ bb_queue_insert_before(d1, d2)
             \/ bb_queue_insert_before_bb_child(d1, d2)
      PROVE  Abstract!Next /\ Kept
  <2>1. CASE bb_queue_replace(d1, d2) \/ bb_queue_switch(d1, d2)
    <3>1. 0 \in Int
      OBVIOUS
    <3>2. (Abstract!Replace(d1, d2) \/ Abstract!Switch(d1, d2)) /\ Kept
      BY <2>1, <3>1, ReplacesSeen
    <3> QED  BY <3>2 DEF Abstract!Next
  <2>2. CASE bb_queue_insert_after(d1, d2) \/ bb_queue_insert_before(d1, d2)
    <3>1. PICK name \in {"insert_after", "insert_before"} : InsertAfter(name, d1, d2)
      BY <2>2 DEF bb_queue_insert_after, bb_queue_insert_before
    <3>2. Abstract!Insert(name, d1, d2) /\ Kept
      BY <3>1, InsertSeen
    <3> QED  BY <3>2 DEF Abstract!Next
  <2>3. CASE bb_queue_insert_before_bb_child(d1, d2)
    <3>1. Abstract!InsertBeforeChild(d1, d2) /\ Kept
      BY <2>3, InsertBeforeChildSeen
    <3> QED  BY <3>1 DEF Abstract!Next
  <2> QED  BY <1>6, <2>1, <2>2, <2>3
<1> QED  BY <1>2, <1>3, <1>4, <1>5, <1>6 DEF Next

\* A step of the queue is a step of the sequence, or leaves it alone.
LEMMA StepSeen ==
    ASSUME Careful, IInv, IInv', Met, Met', HoldsData, [Next]_vars
    PROVE  HoldsData' /\ [Abstract!Next]_(Abstract!svars)
<1>1. PICK q : Ordered(q)
  BY DEF IInv
<1>2. CASE Next
  <2>1. TypeOK /\ TypeOK' /\ Items = ItemsOf(q, len, data)
    BY <1>1 DEF IInv, Met
  <2>2. Answered
    BY <2>1 DEF TypeOK, Answered
  <2>3. Before(q)
    BY <1>1, <2>1, <2>2 DEF Before, Seen, HoldsData
  <2>4. Abstract!Next /\ Kept
    BY <1>2, <2>3, NextSeen
  <2> QED  BY <2>4 DEF Kept, HoldsData
<1>3. CASE UNCHANGED vars
  <2>1. Ordered(q)'
    BY <1>1, <1>3 DEF Ordered, vars
  <2>2. Items = ItemsOf(q, len, data) /\ Items' = ItemsOf(q, len', data')
    BY <1>1, <2>1 DEF Met
  <2>3. Items' = Items /\ len' = len
    BY <1>3, <2>2 DEF vars
  <2>4. UNCHANGED Abstract!svars
    BY <1>3, <2>3 DEF vars, Abstract!svars
  <2> QED  BY <2>3, <2>4 DEF HoldsData
<1> QED  BY <1>2, <1>3

\* BbQueue.c implements the sequence: whatever calls careful callers make, every call
\* returns what the sequence of data says and leaves the sequence it says, the sort
\* and the fatal insertions included.
THEOREM ImplementsSequenceCorrect == ASSUME Careful PROVE Spec => ImplementsSequence
<1>1. Spec => []IInv
  BY IInvInductive
<1>2. IInv => Met
  BY OrderedIsMet
<1>3. Init => HoldsData /\ Abstract!Init
  BY InitSeen
<1>4. IInv /\ IInv' /\ Met /\ Met' /\ HoldsData /\ [Next]_vars
        => HoldsData' /\ [Abstract!Next]_(Abstract!svars)
  BY StepSeen
<1> QED  BY <1>1, <1>2, <1>3, <1>4, PTL DEF Spec, ImplementsSequence, Abstract!Spec

===============================================================================
