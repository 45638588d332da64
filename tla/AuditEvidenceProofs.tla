------------------------ MODULE AuditEvidenceProofs ------------------------
(***************************************************************************)
(* What the audit takes for granted of its evidence, for all inputs: the   *)
(* anchors of a checkpoint, for any nonces, roots, times and TSAs; and the *)
(* inclusion proofs of its entries, for logs of any length.  A verifier    *)
(* accepts one proof for an entry and its index, the one that              *)
(* inclusionProof makes, and no other sequence of hashes.                  *)
(* Then the papers, for any bank, blueprint and stream: every draw is as   *)
(* likely as any other, the order in which the bank is stored has no part, *)
(* and what validateBank accepts can be assembled.                         *)
(***************************************************************************)
EXTENDS AuditEvidence, ExamAuditProofs

-----------------------------------------------------------------------------
(* Where a tree is split.                                                  *)

\* A set that holds each number when it holds the smaller ones holds all.
LEMMA CompleteInduction ==
  ASSUME NEW S, \A m \in Nat : (\A j \in Nat : j < m => j \in S) => m \in S
  PROVE  \A m \in Nat : m \in S
<1> SUFFICES ASSUME Nat \ S # {} PROVE FALSE
  OBVIOUS
<1>1. PICK m \in Nat \ S : \A k \in Nat \ S : m <= k
  BY LeastNatural
<1>2. \A j \in Nat : j < m => j \in S
  BY <1>1
<1> QED BY <1>1, <1>2

\* The loop, from m on.
LoopFrom(f, n, m) == f = [k \in m..n |-> IF k * 2 < n THEN f[k * 2] ELSE k]

LEMMA LoopIsDefined ==
  ASSUME NEW n \in Nat, n >= 1
  PROVE  LoopFrom(Doublings(n), n, 1)
<1> DEFINE S == {d \in Nat : d < n => \E f : LoopFrom(f, n, n - d)}
<1>1. ASSUME NEW d \in Nat, \A j \in Nat : j < d => j \in S
      PROVE  d \in S
  <2> SUFFICES ASSUME d < n PROVE \E f : LoopFrom(f, n, n - d)
    OBVIOUS
  <2>1. CASE d = 0
    <3>1. PICK f : f = [k \in n..n |-> k]
      OBVIOUS
    <3>2. LoopFrom(f, n, n - d)
      BY <2>1, <3>1 DEF LoopFrom
    <3> QED BY <3>2
  <2>2. CASE d > 0
    <3>1. d - 1 \in Nat /\ d - 1 < d /\ d - 1 < n
      BY <2>2
    <3>2. PICK f : LoopFrom(f, n, n - (d - 1))
      BY <1>1, <3>1
    <3>3. PICK m \in 1..n : m = n - d
      OBVIOUS
    <3>4. f = [k \in (m + 1)..n |-> IF k * 2 < n THEN f[k * 2] ELSE k]
      BY <3>2, <3>3 DEF LoopFrom
    <3>5. PICK g : g = [k \in m..n |-> IF k = m THEN IF m * 2 < n THEN f[m * 2] ELSE m ELSE f[k]]
      OBVIOUS
    <3>6. \A k \in m..n : g[k] = IF k * 2 < n THEN g[k * 2] ELSE k
      <4> TAKE k \in m..n
      <4>1. k * 2 # m /\ (k * 2 < n => k * 2 \in (m + 1)..n)
        BY <3>3
      <4>2. k * 2 < n => g[k * 2] = f[k * 2]
        BY <3>5, <4>1
      <4>3. CASE k = m
        BY <3>5, <4>2, <4>3
      <4>4. CASE k # m
        <5>1. k \in (m + 1)..n
          BY <4>4
        <5>2. f[k] = IF k * 2 < n THEN f[k * 2] ELSE k
          BY <3>4, <5>1
        <5>3. g[k] = f[k]
          BY <3>5, <4>4
        <5> QED BY <4>2, <5>2, <5>3
      <4> QED BY <4>3, <4>4
    <3>7. g = [k \in m..n |-> IF k * 2 < n THEN g[k * 2] ELSE k]
      BY <3>5, <3>6
    <3> QED BY <3>3, <3>7 DEF LoopFrom
  <2> QED BY <2>1, <2>2
<1>2. \A d \in Nat : d \in S
  <2> HIDE DEF S
  <2> QED BY <1>1, CompleteInduction
<1>3. PICK m \in Nat : m = n - 1
  OBVIOUS
<1>4. \E f : LoopFrom(f, n, 1)
  <2>1. m < n /\ n - m = 1 /\ m \in S
    BY <1>2, <1>3
  <2> QED BY <2>1
<1> QED BY <1>4 DEF Doublings, LoopFrom

\* The powers of two, up to the m-th.
Powers(f, m) == f = [i \in 0..m |-> IF i = 0 THEN 1 ELSE 2 * f[i - 1]]

LEMMA PowersAreDefined ==
  ASSUME NEW n \in Nat
  PROVE  \E f : Powers(f, n) /\ PowersOfTwo(n) = {f[i] : i \in 0..n}
<1> DEFINE S == {m \in Nat : \E f : Powers(f, m)}
<1>1. ASSUME NEW m \in Nat, \A j \in Nat : j < m => j \in S
      PROVE  m \in S
  <2>1. CASE m = 0
    <3>1. PICK f : f = [i \in 0..0 |-> 1]
      OBVIOUS
    <3>2. Powers(f, m)
      BY <2>1, <3>1 DEF Powers
    <3> QED BY <3>2
  <2>2. CASE m > 0
    <3>1. PICK f : Powers(f, m - 1)
      BY <1>1, <2>2
    <3>2. PICK g : g = [i \in 0..m |-> IF i = m THEN 2 * f[m - 1] ELSE f[i]]
      OBVIOUS
    <3>3. \A i \in 0..m : g[i] = IF i = 0 THEN 1 ELSE 2 * g[i - 1]
      <4> TAKE i \in 0..m
      <4>1. CASE i = m
        BY <2>2, <3>2, <4>1
      <4>2. CASE i # m
        <5>1. i \in 0..(m - 1) /\ g[i] = f[i]
          BY <3>2, <4>2
        <5>2. i # 0 => g[i - 1] = f[i - 1]
          BY <3>2, <5>1
        <5>3. f[i] = IF i = 0 THEN 1 ELSE 2 * f[i - 1]
          BY <3>1, <5>1 DEF Powers
        <5> QED BY <5>1, <5>2, <5>3
      <4> QED BY <4>1, <4>2
    <3>4. Powers(g, m)
      BY <3>2, <3>3 DEF Powers
    <3> QED BY <3>4
  <2> QED BY <2>1, <2>2
<1>2. \A m \in Nat : m \in S
  <2> HIDE DEF S
  <2> QED BY <1>1, CompleteInduction
<1>3. \E f : Powers(f, n)
  BY <1>2
<1>4. PICK f : f = CHOOSE g : Powers(g, n)
  OBVIOUS
<1>5. Powers(f, n)
  BY <1>3, <1>4
<1>6. PowersOfTwo(n) = {f[i] : i \in 0..n}
  BY <1>4 DEF PowersOfTwo, Powers
<1> QED BY <1>5, <1>6

\* The powers grow, so that the next one of a smaller than n is among them.
LEMMA NextPower ==
  ASSUME NEW n \in Nat, NEW k \in PowersOfTwo(n), k < n
  PROVE  k \in Nat /\ 2 * k \in PowersOfTwo(n)
<1>1. PICK f : Powers(f, n) /\ PowersOfTwo(n) = {f[i] : i \in 0..n}
  BY PowersAreDefined
<1> DEFINE S == {m \in Nat : m <= n => f[m] \in Nat /\ f[m] > m}
<1>2. ASSUME NEW m \in Nat, \A j \in Nat : j < m => j \in S
      PROVE  m \in S
  <2> SUFFICES ASSUME m <= n PROVE f[m] \in Nat /\ f[m] > m
    OBVIOUS
  <2>1. f[m] = IF m = 0 THEN 1 ELSE 2 * f[m - 1]
    BY <1>1 DEF Powers
  <2>2. CASE m = 0
    BY <2>1, <2>2
  <2>3. CASE m > 0
    <3>1. m - 1 \in S
      BY <1>2, <2>3
    <3>2. f[m - 1] \in Nat /\ f[m - 1] > m - 1
      BY <2>3, <3>1
    <3> QED BY <2>1, <2>3, <3>2
  <2> QED BY <2>2, <2>3
<1>3. \A m \in Nat : m \in S
  <2> HIDE DEF S
  <2> QED BY <1>2, CompleteInduction
<1>4. PICK i \in 0..n : k = f[i]
  BY <1>1
<1>5. k \in Nat /\ i < k
  BY <1>3, <1>4
<1>6. i + 1 \in 0..n /\ f[i + 1] = 2 * f[i]
  <2>1. i + 1 \in 0..n
    BY <1>5
  <2> QED BY <1>1, <2>1 DEF Powers
<1> QED BY <1>1, <1>4, <1>5, <1>6

\* largestPowerOfTwoBelow returns what its name says.
LEMMA SplitIsRight ==
  ASSUME NEW n \in Nat, n > 1
  PROVE  /\ LargestPowerOfTwoBelow(n) \in 1..(n - 1)
         /\ LargestPowerOfTwoBelow(n) \in PowersOfTwo(n)
         /\ n <= 2 * LargestPowerOfTwoBelow(n)
<1>1. PICK f : f = Doublings(n)
  OBVIOUS
<1>2. f = [k \in 1..n |-> IF k * 2 < n THEN f[k * 2] ELSE k]
  BY <1>1, LoopIsDefined DEF LoopFrom
<1> DEFINE S == {d \in Nat : d < n /\ d > 0 /\ n - d \in PowersOfTwo(n) =>
                   f[n - d] \in 1..(n - 1) /\ f[n - d] \in PowersOfTwo(n) /\ n <= 2 * f[n - d]}
<1>3. ASSUME NEW d \in Nat, \A j \in Nat : j < d => j \in S
      PROVE  d \in S
  <2> SUFFICES ASSUME d < n, d > 0, n - d \in PowersOfTwo(n)
               PROVE  f[n - d] \in 1..(n - 1) /\ f[n - d] \in PowersOfTwo(n) /\ n <= 2 * f[n - d]
    OBVIOUS
  <2>1. PICK k \in 1..(n - 1) : k = n - d
    OBVIOUS
  <2>2. f[k] = IF k * 2 < n THEN f[k * 2] ELSE k
    BY <1>2, <2>1
  <2>3. CASE k * 2 < n
    <3>1. PICK e \in Nat : e = n - k * 2
      BY <2>3
    <3>2. e < d /\ e > 0 /\ e < n /\ n - e = 2 * k /\ 2 * k = k * 2
      BY <2>1, <2>3, <3>1
    <3>3. 2 * k \in PowersOfTwo(n)
      <4>1. k \in PowersOfTwo(n) /\ k < n
        BY <2>1
      <4> QED BY <4>1, NextPower
    <3>4. f[n - e] \in 1..(n - 1) /\ f[n - e] \in PowersOfTwo(n) /\ n <= 2 * f[n - e]
      BY <1>3, <3>2, <3>3
    <3>5. f[k] = f[n - e]
      BY <2>2, <2>3, <3>2
    <3> QED BY <2>1, <3>4, <3>5
  <2>4. CASE ~(k * 2 < n)
    BY <2>1, <2>2, <2>4
  <2> QED BY <2>3, <2>4
<1>4. \A d \in Nat : d \in S
  <2> HIDE DEF S
  <2> QED BY <1>3, CompleteInduction
<1>5. 1 \in PowersOfTwo(n)
  <2>1. PICK g : Powers(g, n) /\ PowersOfTwo(n) = {g[i] : i \in 0..n}
    BY PowersAreDefined
  <2>2. 0 \in 0..n /\ g[0] = 1
    BY <2>1 DEF Powers
  <2> QED BY <2>1, <2>2
<1>6. PICK e \in Nat : e = n - 1
  OBVIOUS
<1>7. e < n /\ e > 0 /\ n - e = 1 /\ e \in S
  BY <1>4, <1>6
<1>8. f[1] \in 1..(n - 1) /\ f[1] \in PowersOfTwo(n) /\ n <= 2 * f[1]
  BY <1>5, <1>7
<1> QED BY <1>1, <1>8 DEF LargestPowerOfTwoBelow

-----------------------------------------------------------------------------
(* Each recursion over slices is a function of their sizes, whose value at *)
(* a size is made from those at the two sizes that it is split into.       *)

NodeRow(hashes, f, size) ==
  IF size = 1 THEN [first \in 0..(Len(hashes) - 1) |-> LeafHash(hashes[first + 1])]
  ELSE LET k == LargestPowerOfTwoBelow(size)
       IN [first \in 0..(Len(hashes) - size) |-> NodeHash(f[k][first], f[size - k][first + k])]

LEMMA NodesAgree ==
  ASSUME NEW hashes, NEW f, NEW g, NEW size \in Nat, size >= 1,
         \A s \in 1..(size - 1) : f[s] = g[s]
  PROVE  NodeRow(hashes, f, size) = NodeRow(hashes, g, size)
<1>1. CASE size = 1
  BY <1>1 DEF NodeRow
<1>2. CASE size # 1
  <2>1. PICK k : k = LargestPowerOfTwoBelow(size)
    OBVIOUS
  <2>2. k \in 1..(size - 1) /\ size - k \in 1..(size - 1)
    <3>1. size > 1
      BY <1>2
    <3>2. LargestPowerOfTwoBelow(size) \in 1..(size - 1)
      BY <3>1, SplitIsRight
    <3> QED BY <2>1, <3>2
  <2>3. f[k] = g[k] /\ f[size - k] = g[size - k]
    BY <2>2
  <2>4. /\ NodeRow(hashes, f, size) =
             [first \in 0..(Len(hashes) - size) |-> NodeHash(f[k][first], f[size - k][first + k])]
        /\ NodeRow(hashes, g, size) =
             [first \in 0..(Len(hashes) - size) |-> NodeHash(g[k][first], g[size - k][first + k])]
    BY <1>2, <2>1, Zenon DEF NodeRow
  <2> QED BY <2>3, <2>4
<1> QED BY <1>1, <1>2

LEMMA NodesAreDefined ==
  ASSUME NEW hashes, Len(hashes) \in Nat
  PROVE  /\ DOMAIN Nodes(hashes) = 1..Len(hashes)
         /\ \A size \in 1..Len(hashes) : Nodes(hashes)[size] = NodeRow(hashes, Nodes(hashes), size)
<1> DEFINE Fits(f, m) == f = [size \in 1..m |-> NodeRow(hashes, f, size)]
<1> DEFINE S == {m \in Nat : \E f : Fits(f, m)}
<1>1. ASSUME NEW m \in Nat, \A j \in Nat : j < m => j \in S
      PROVE  m \in S
  <2>1. CASE m = 0
    <3>1. PICK f : f = [size \in 1..0 |-> size]
      OBVIOUS
    <3>2. Fits(f, m)
      BY <2>1, <3>1
    <3> QED BY <3>2
  <2>2. CASE m > 0
    <3>1. PICK f : Fits(f, m - 1)
      BY <1>1, <2>2
    <3>2. PICK g : g = [size \in 1..m |-> IF size = m THEN NodeRow(hashes, f, m) ELSE f[size]]
      OBVIOUS
    <3>3. \A size \in 1..m : g[size] = NodeRow(hashes, g, size)
      <4> TAKE size \in 1..m
      <4>1. \A s \in 1..(size - 1) : f[s] = g[s]
        BY <3>2
      <4>2. NodeRow(hashes, f, size) = NodeRow(hashes, g, size)
        BY <4>1, NodesAgree
      <4>3. CASE size = m
        BY <3>2, <4>2, <4>3
      <4>4. CASE size # m
        <5>1. size \in 1..(m - 1) /\ g[size] = f[size]
          BY <3>2, <4>4
        <5>2. f[size] = NodeRow(hashes, f, size)
          BY <3>1, <5>1
        <5> QED BY <4>2, <5>1, <5>2
      <4> QED BY <4>3, <4>4
    <3>4. g = [size \in 1..m |-> NodeRow(hashes, g, size)]
      <4> HIDE DEF Fits
      <4>1. DOMAIN g = 1..m /\ g = [size \in 1..m |-> g[size]]
        BY <3>2
      <4> QED BY <3>3, <4>1, Zenon
    <3> QED BY <3>4
  <2> QED BY <2>1, <2>2
<1>2. \A m \in Nat : m \in S
  <2> HIDE DEF S
  <2> QED BY <1>1, CompleteInduction
<1>3. \E f : Fits(f, Len(hashes))
  BY <1>2
<1>4. Fits(Nodes(hashes), Len(hashes))
  BY <1>3 DEF Nodes, NodeRow
<1> QED BY <1>4

SiblingRow(hashes, f, size) ==
  IF size = 1 THEN [first \in 0..(Len(hashes) - 1) |-> [index \in {0} |-> <<>>]]
  ELSE LET k == LargestPowerOfTwoBelow(size)
       IN [first \in 0..(Len(hashes) - size) |-> [index \in 0..(size - 1) |->
             IF index < k THEN Append(f[k][first][index], Nodes(hashes)[size - k][first + k])
             ELSE Append(f[size - k][first + k][index - k], Nodes(hashes)[k][first])]]

LEMMA SiblingsAgree ==
  ASSUME NEW hashes, NEW f, NEW g, NEW size \in Nat, size >= 1,
         \A s \in 1..(size - 1) : f[s] = g[s]
  PROVE  SiblingRow(hashes, f, size) = SiblingRow(hashes, g, size)
<1>1. CASE size = 1
  BY <1>1 DEF SiblingRow
<1>2. CASE size # 1
  <2>1. PICK k : k = LargestPowerOfTwoBelow(size)
    OBVIOUS
  <2>2. k \in 1..(size - 1) /\ size - k \in 1..(size - 1)
    <3>1. size > 1
      BY <1>2
    <3>2. LargestPowerOfTwoBelow(size) \in 1..(size - 1)
      BY <3>1, SplitIsRight
    <3> QED BY <2>1, <3>2
  <2>3. f[k] = g[k] /\ f[size - k] = g[size - k]
    BY <2>2
  <2>4. /\ SiblingRow(hashes, f, size) =
             [first \in 0..(Len(hashes) - size) |-> [index \in 0..(size - 1) |->
                IF index < k THEN Append(f[k][first][index], Nodes(hashes)[size - k][first + k])
                ELSE Append(f[size - k][first + k][index - k], Nodes(hashes)[k][first])]]
        /\ SiblingRow(hashes, g, size) =
             [first \in 0..(Len(hashes) - size) |-> [index \in 0..(size - 1) |->
                IF index < k THEN Append(g[k][first][index], Nodes(hashes)[size - k][first + k])
                ELSE Append(g[size - k][first + k][index - k], Nodes(hashes)[k][first])]]
    BY <1>2, <2>1, Zenon DEF SiblingRow
  <2> QED BY <2>3, <2>4, Zenon
<1> QED BY <1>1, <1>2

LEMMA SiblingsAreDefined ==
  ASSUME NEW hashes, Len(hashes) \in Nat
  PROVE  /\ DOMAIN Siblings(hashes) = 1..Len(hashes)
         /\ \A size \in 1..Len(hashes) : Siblings(hashes)[size] = SiblingRow(hashes, Siblings(hashes), size)
<1> DEFINE Fits(f, m) == f = [size \in 1..m |-> SiblingRow(hashes, f, size)]
<1> DEFINE S == {m \in Nat : \E f : Fits(f, m)}
<1>1. ASSUME NEW m \in Nat, \A j \in Nat : j < m => j \in S
      PROVE  m \in S
  <2>1. CASE m = 0
    <3>1. PICK f : f = [size \in 1..0 |-> size]
      OBVIOUS
    <3>2. Fits(f, m)
      BY <2>1, <3>1
    <3> QED BY <3>2
  <2>2. CASE m > 0
    <3>1. PICK f : Fits(f, m - 1)
      BY <1>1, <2>2
    <3>2. PICK g : g = [size \in 1..m |-> IF size = m THEN SiblingRow(hashes, f, m) ELSE f[size]]
      OBVIOUS
    <3>3. \A size \in 1..m : g[size] = SiblingRow(hashes, g, size)
      <4> TAKE size \in 1..m
      <4>1. \A s \in 1..(size - 1) : f[s] = g[s]
        BY <3>2
      <4>2. SiblingRow(hashes, f, size) = SiblingRow(hashes, g, size)
        BY <4>1, SiblingsAgree
      <4>3. CASE size = m
        BY <3>2, <4>2, <4>3
      <4>4. CASE size # m
        <5>1. size \in 1..(m - 1) /\ g[size] = f[size]
          BY <3>2, <4>4
        <5>2. f[size] = SiblingRow(hashes, f, size)
          BY <3>1, <5>1
        <5> QED BY <4>2, <5>1, <5>2
      <4> QED BY <4>3, <4>4
    <3>4. g = [size \in 1..m |-> SiblingRow(hashes, g, size)]
      <4> HIDE DEF Fits
      <4>1. DOMAIN g = 1..m /\ g = [size \in 1..m |-> g[size]]
        BY <3>2
      <4> QED BY <3>3, <4>1, Zenon
    <3> QED BY <3>4
  <2> QED BY <2>1, <2>2
<1>2. \A m \in Nat : m \in S
  <2> HIDE DEF S
  <2> QED BY <1>1, CompleteInduction
<1>3. \E f : Fits(f, Len(hashes))
  BY <1>2
<1>4. Fits(Siblings(hashes), Len(hashes))
  BY <1>3 DEF Siblings, SiblingRow
<1> QED BY <1>4

ComputedRow(hash, proof, f, n) ==
  IF n = 1 THEN [at \in {0} |-> [p \in 0..Len(proof) |-> IF p = 0 THEN hash ELSE NoHash]]
  ELSE LET k == LargestPowerOfTwoBelow(n)
       IN [at \in 0..(n - 1) |-> [p \in 0..Len(proof) |->
             IF p = 0 THEN NoHash
             ELSE IF at < k THEN Above(f[k][at][p - 1], proof[p], TRUE)
             ELSE Above(f[n - k][at - k][p - 1], proof[p], FALSE)]]

LEMMA ComputedAgree ==
  ASSUME NEW hash, NEW proof, NEW f, NEW g, NEW n \in Nat, n >= 1,
         \A s \in 1..(n - 1) : f[s] = g[s]
  PROVE  ComputedRow(hash, proof, f, n) = ComputedRow(hash, proof, g, n)
<1>1. CASE n = 1
  BY <1>1 DEF ComputedRow
<1>2. CASE n # 1
  <2>1. PICK k : k = LargestPowerOfTwoBelow(n)
    OBVIOUS
  <2>2. k \in 1..(n - 1) /\ n - k \in 1..(n - 1)
    <3>1. n > 1
      BY <1>2
    <3>2. LargestPowerOfTwoBelow(n) \in 1..(n - 1)
      BY <3>1, SplitIsRight
    <3> QED BY <2>1, <3>2
  <2>3. f[k] = g[k] /\ f[n - k] = g[n - k]
    BY <2>2
  <2>4. /\ ComputedRow(hash, proof, f, n) =
             [at \in 0..(n - 1) |-> [p \in 0..Len(proof) |->
                IF p = 0 THEN NoHash
                ELSE IF at < k THEN Above(f[k][at][p - 1], proof[p], TRUE)
                ELSE Above(f[n - k][at - k][p - 1], proof[p], FALSE)]]
        /\ ComputedRow(hash, proof, g, n) =
             [at \in 0..(n - 1) |-> [p \in 0..Len(proof) |->
                IF p = 0 THEN NoHash
                ELSE IF at < k THEN Above(g[k][at][p - 1], proof[p], TRUE)
                ELSE Above(g[n - k][at - k][p - 1], proof[p], FALSE)]]
    BY <1>2, <2>1, Zenon DEF ComputedRow
  <2> QED BY <2>3, <2>4, Zenon
<1> QED BY <1>1, <1>2

LEMMA ComputedIsDefined ==
  ASSUME NEW hash, NEW size \in Nat, NEW proof
  PROVE  /\ DOMAIN Computed(hash, size, proof) = 1..size
         /\ \A n \in 1..size : Computed(hash, size, proof)[n] =
              ComputedRow(hash, proof, Computed(hash, size, proof), n)
<1> DEFINE Fits(f, m) == f = [n \in 1..m |-> ComputedRow(hash, proof, f, n)]
<1> DEFINE S == {m \in Nat : \E f : Fits(f, m)}
<1>1. ASSUME NEW m \in Nat, \A j \in Nat : j < m => j \in S
      PROVE  m \in S
  <2>1. CASE m = 0
    <3>1. PICK f : f = [n \in 1..0 |-> n]
      OBVIOUS
    <3>2. Fits(f, m)
      BY <2>1, <3>1
    <3> QED BY <3>2
  <2>2. CASE m > 0
    <3>1. PICK f : Fits(f, m - 1)
      BY <1>1, <2>2
    <3>2. PICK g : g = [n \in 1..m |-> IF n = m THEN ComputedRow(hash, proof, f, m) ELSE f[n]]
      OBVIOUS
    <3>3. \A n \in 1..m : g[n] = ComputedRow(hash, proof, g, n)
      <4> TAKE n \in 1..m
      <4>1. \A s \in 1..(n - 1) : f[s] = g[s]
        BY <3>2
      <4>2. ComputedRow(hash, proof, f, n) = ComputedRow(hash, proof, g, n)
        BY <4>1, ComputedAgree
      <4>3. CASE n = m
        BY <3>2, <4>2, <4>3
      <4>4. CASE n # m
        <5>1. n \in 1..(m - 1) /\ g[n] = f[n]
          BY <3>2, <4>4
        <5>2. f[n] = ComputedRow(hash, proof, f, n)
          BY <3>1, <5>1
        <5> QED BY <4>2, <5>1, <5>2
      <4> QED BY <4>3, <4>4
    <3>4. g = [n \in 1..m |-> ComputedRow(hash, proof, g, n)]
      <4> HIDE DEF Fits
      <4>1. DOMAIN g = 1..m /\ g = [n \in 1..m |-> g[n]]
        BY <3>2
      <4> QED BY <3>3, <4>1, Zenon
    <3> QED BY <3>4
  <2> QED BY <2>1, <2>2
<1>2. \A m \in Nat : m \in S
  <2> HIDE DEF S
  <2> QED BY <1>1, CompleteInduction
<1>3. \E f : Fits(f, size)
  BY <1>2
<1>4. Fits(Computed(hash, size, proof), size)
  BY <1>3 DEF Computed, ComputedRow
<1> QED BY <1>4

-----------------------------------------------------------------------------
(* Inclusion proofs.                                                       *)

\* The values of the recursions at a slice of one leaf, and at one that is split.
IsLeaf(hashes, first) ==
  /\ Nodes(hashes)[1][first] = LeafHash(hashes[first + 1])
  /\ Siblings(hashes)[1][first][0] = <<>>

IsSplit(hashes, size, first, k) ==
  /\ Nodes(hashes)[size][first] =
       NodeHash(Nodes(hashes)[k][first], Nodes(hashes)[size - k][first + k])
  /\ \A index \in 0..(size - 1) :
       Siblings(hashes)[size][first][index] =
         IF index < k
           THEN Append(Siblings(hashes)[k][first][index], Nodes(hashes)[size - k][first + k])
           ELSE Append(Siblings(hashes)[size - k][first + k][index - k], Nodes(hashes)[k][first])

LEMMA LeavesAre ==
  ASSUME NEW hashes, Len(hashes) \in Nat, NEW first \in 0..(Len(hashes) - 1)
  PROVE  IsLeaf(hashes, first)
<1>1. 1 \in 1..Len(hashes)
  OBVIOUS
<1>2. Nodes(hashes)[1] = NodeRow(hashes, Nodes(hashes), 1)
  BY <1>1, NodesAreDefined
<1>3. Siblings(hashes)[1] = SiblingRow(hashes, Siblings(hashes), 1)
  BY <1>1, SiblingsAreDefined
<1>4. Nodes(hashes)[1] = [x \in 0..(Len(hashes) - 1) |-> LeafHash(hashes[x + 1])]
  BY <1>2 DEF NodeRow
<1>5. Siblings(hashes)[1] = [x \in 0..(Len(hashes) - 1) |-> [index \in {0} |-> <<>>]]
  BY <1>3 DEF SiblingRow
<1> QED BY <1>4, <1>5 DEF IsLeaf

LEMMA SlicesAreSplit ==
  ASSUME NEW hashes, Len(hashes) \in Nat,
         NEW size \in 2..Len(hashes), NEW first \in 0..(Len(hashes) - size)
  PROVE  IsSplit(hashes, size, first, LargestPowerOfTwoBelow(size))
<1>1. PICK k : k = LargestPowerOfTwoBelow(size)
  OBVIOUS
<1>2. PICK node : node = Nodes(hashes)
  OBVIOUS
<1>3. PICK built : built = Siblings(hashes)
  OBVIOUS
<1>4. size \in 1..Len(hashes) /\ size # 1
  OBVIOUS
<1>5. node[size] = NodeRow(hashes, node, size)
  BY <1>2, <1>4, NodesAreDefined
<1>6. node[size] = [x \in 0..(Len(hashes) - size) |-> NodeHash(node[k][x], node[size - k][x + k])]
  BY <1>1, <1>4, <1>5, Zenon DEF NodeRow
<1>7. node[size][first] = NodeHash(node[k][first], node[size - k][first + k])
  BY <1>6
<1>8. built[size] = SiblingRow(hashes, built, size)
  BY <1>3, <1>4, SiblingsAreDefined
<1>9. built[size] =
        [x \in 0..(Len(hashes) - size) |-> [i \in 0..(size - 1) |->
           IF i < k THEN Append(built[k][x][i], node[size - k][x + k])
           ELSE Append(built[size - k][x + k][i - k], node[k][x])]]
  BY <1>1, <1>2, <1>4, <1>8, Zenon DEF SiblingRow
<1>10. ASSUME NEW index \in 0..(size - 1)
       PROVE  built[size][first][index] =
                IF index < k THEN Append(built[k][first][index], node[size - k][first + k])
                ELSE Append(built[size - k][first + k][index - k], node[k][first])
  BY <1>9
<1>11. IsSplit(hashes, size, first, k)
  BY <1>2, <1>3, <1>7, <1>10, Zenon DEF IsSplit
<1> QED BY <1>1, <1>11

\* What is computed of a single leaf, and at a place of a tree that is split.
ComputesLeaf(hash, n, proof, p) ==
  Computed(hash, n, proof)[1][0][p] = IF p = 0 THEN hash ELSE NoHash

ComputesSplit(hash, n, proof, size, at, p, k) ==
  Computed(hash, n, proof)[size][at][p] =
    IF p = 0 THEN NoHash
    ELSE IF at < k THEN Above(Computed(hash, n, proof)[k][at][p - 1], proof[p], TRUE)
    ELSE Above(Computed(hash, n, proof)[size - k][at - k][p - 1], proof[p], FALSE)

LEMMA LeafIsComputed ==
  ASSUME NEW hash, NEW n \in Nat, n >= 1, NEW proof, NEW p \in 0..Len(proof)
  PROVE  ComputesLeaf(hash, n, proof, p)
<1>1. 1 \in 1..n
  OBVIOUS
<1>2. Computed(hash, n, proof)[1] = ComputedRow(hash, proof, Computed(hash, n, proof), 1)
  BY <1>1, ComputedIsDefined
<1>3. Computed(hash, n, proof)[1] =
        [at \in {0} |-> [q \in 0..Len(proof) |-> IF q = 0 THEN hash ELSE NoHash]]
  BY <1>2 DEF ComputedRow
<1> QED BY <1>3 DEF ComputesLeaf

LEMMA SplitIsComputed ==
  ASSUME NEW hash, NEW n \in Nat, NEW proof, NEW size \in 2..n, NEW at \in 0..(size - 1), NEW p \in 0..Len(proof)
  PROVE  ComputesSplit(hash, n, proof, size, at, p, LargestPowerOfTwoBelow(size))
<1>1. PICK k : k = LargestPowerOfTwoBelow(size)
  OBVIOUS
<1>2. PICK computed : computed = Computed(hash, n, proof)
  OBVIOUS
<1>3. size \in 1..n /\ size # 1
  OBVIOUS
<1>4. computed[size] = ComputedRow(hash, proof, computed, size)
  BY <1>2, <1>3, ComputedIsDefined
<1>5. computed[size] =
        [a \in 0..(size - 1) |-> [q \in 0..Len(proof) |->
           IF q = 0 THEN NoHash
           ELSE IF a < k THEN Above(computed[k][a][q - 1], proof[q], TRUE)
           ELSE Above(computed[size - k][a - k][q - 1], proof[q], FALSE)]]
  BY <1>1, <1>3, <1>4, Zenon DEF ComputedRow
<1>6. computed[size][at][p] =
        IF p = 0 THEN NoHash
        ELSE IF at < k THEN Above(computed[k][at][p - 1], proof[p], TRUE)
        ELSE Above(computed[size - k][at - k][p - 1], proof[p], FALSE)
  BY <1>5
<1>7. ComputesSplit(hash, n, proof, size, at, p, k)
  BY <1>2, <1>6, Zenon DEF ComputesSplit
<1> QED BY <1>1, <1>7

\* A part of a sequence is another one with an element at its end.
LEMMA LastOfPart ==
  ASSUME NEW U, NEW proof \in Seq(U), NEW q \in 1..Len(proof), NEW s \in Seq(U), NEW e \in U
  PROVE  SubSeq(proof, 1, q) = Append(s, e) <=> SubSeq(proof, 1, q - 1) = s /\ proof[q] = e
<1>1. PICK part : part = SubSeq(proof, 1, q)
  OBVIOUS
<1>2. PICK rest : rest = SubSeq(proof, 1, q - 1)
  OBVIOUS
<1>3. part \in Seq(U) /\ Len(part) = q /\ \A i \in 1..q : part[i] = proof[i]
  BY <1>1
<1>4. rest \in Seq(U) /\ Len(rest) = q - 1 /\ \A i \in 1..(q - 1) : rest[i] = proof[i]
  BY <1>2
<1>5. PICK whole : whole = Append(s, e)
  OBVIOUS
<1>6. /\ whole \in Seq(U) /\ Len(whole) = Len(s) + 1 /\ whole[Len(s) + 1] = e
      /\ \A i \in 1..Len(s) : whole[i] = s[i]
  BY <1>5
<1>7. ASSUME part = whole PROVE rest = s /\ proof[q] = e
  <2>1. Len(s) = q - 1
    BY <1>3, <1>6, <1>7
  <2>2. proof[q] = e
    BY <1>3, <1>6, <1>7, <2>1
  <2>3. \A i \in 1..(q - 1) : rest[i] = s[i]
    BY <1>3, <1>4, <1>6, <1>7, <2>1
  <2> QED BY <1>4, <2>1, <2>2, <2>3, SeqEqual
<1>8. ASSUME rest = s, proof[q] = e PROVE part = whole
  <2>1. Len(s) = q - 1 /\ Len(part) = Len(whole)
    BY <1>3, <1>4, <1>6, <1>8
  <2>2. \A i \in 1..q : part[i] = whole[i]
    <3> TAKE i \in 1..q
    <3>1. CASE i = q
      BY <1>3, <1>6, <1>8, <2>1, <3>1
    <3>2. CASE i # q
      <4>1. i \in 1..(q - 1)
        BY <3>2
      <4> QED BY <1>3, <1>4, <1>6, <1>8, <2>1, <4>1
    <3> QED BY <3>1, <3>2
  <2> QED BY <1>3, <1>6, <2>1, <2>2, SeqEqual
<1> QED BY <1>1, <1>2, <1>5, <1>7, <1>8

\* Leaves, nodes and failures are different, and a node is its two children.
LEMMA HashesDiffer ==
  ASSUME NEW h, NEW g, NEW l, NEW r, NEW x, NEW y
  PROVE  /\ LeafHash(h) = LeafHash(g) <=> h = g
         /\ LeafHash(h) # NodeHash(l, r) /\ LeafHash(h) # NoHash /\ NodeHash(l, r) # NoHash
         /\ NodeHash(l, r) = NodeHash(x, y) <=> l = x /\ r = y
<1>1. LeafHash(h) = LeafHash(g) <=> h = g
  <2>1. LeafHash(h).of = h /\ LeafHash(g).of = g
    BY DEF LeafHash
  <2> QED BY <2>1
<1>2. LeafHash(h).kind = "leaf" /\ NodeHash(l, r).kind = "node" /\ NoHash.kind = "none"
  BY DEF LeafHash, NodeHash, NoHash
<1>3. NodeHash(l, r) = NodeHash(x, y) <=> l = x /\ r = y
  <2>1. /\ NodeHash(l, r).left = l /\ NodeHash(l, r).right = r
        /\ NodeHash(x, y).left = x /\ NodeHash(x, y).right = y
    BY DEF NodeHash
  <2> QED BY <2>1
<1> QED BY <1>1, <1>2, <1>3

LEMMA NodesAreHashes ==
  ASSUME NEW hashes, Len(hashes) \in Nat,
         NEW size \in 1..Len(hashes), NEW first \in 0..(Len(hashes) - size)
  PROVE  Nodes(hashes)[size][first] # NoHash
<1>1. CASE size = 1
  <2>1. IsLeaf(hashes, first)
    BY <1>1, LeavesAre
  <2>2. LeafHash(hashes[first + 1]) # NoHash
    BY HashesDiffer
  <2> QED BY <1>1, <2>1, <2>2 DEF IsLeaf
<1>2. CASE size # 1
  <2>1. size \in 2..Len(hashes)
    BY <1>2
  <2>2. PICK k : IsSplit(hashes, size, first, k)
    BY <2>1, SlicesAreSplit
  <2>3. NodeHash(Nodes(hashes)[k][first], Nodes(hashes)[size - k][first + k]) # NoHash
    BY HashesDiffer
  <2> QED BY <2>2, <2>3 DEF IsSplit
<1> QED BY <1>1, <1>2

\* The nodes of a tree.
NodesOf(hashes) ==
  {Nodes(hashes)[s][f] : s \in 1..Len(hashes), f \in 0..Len(hashes)}

LEMMA NodesAreNodes ==
  ASSUME NEW hashes, NEW s \in 1..Len(hashes), NEW f \in 0..Len(hashes)
  PROVE  Nodes(hashes)[s][f] \in NodesOf(hashes)
  BY DEF NodesOf

\* How a slice is split, and where an index of it goes.
LEMMA PlacesOfSplit ==
  ASSUME NEW n \in Nat, NEW size \in 2..n, NEW first \in 0..(n - size), NEW index \in 0..(size - 1),
         NEW k, k = LargestPowerOfTwoBelow(size)
  PROVE  /\ k \in 1..(size - 1) /\ k \in 1..n /\ size - k \in 1..n /\ k < size /\ size - k < size
         /\ k \in Nat /\ size - k \in Nat
         /\ first \in 0..(n - k) /\ first + k \in 0..(n - (size - k))
         /\ first \in 0..n /\ first + k \in 0..n
         /\ index < k => index \in 0..(k - 1)
         /\ ~(index < k) =>
              index - k \in 0..((size - k) - 1) /\ (first + k) + (index - k) + 1 = first + index + 1
<1>1. k \in 1..(size - 1)
  <2>1. LargestPowerOfTwoBelow(size) \in 1..(size - 1)
    BY SplitIsRight
  <2> QED BY <2>1
<1> QED BY <1>1

\* The siblings of the leaves of a slice are nodes of the tree.
SiblingsIn(hashes, U, size) ==
  \A first \in 0..(Len(hashes) - size) : \A index \in 0..(size - 1) :
    Siblings(hashes)[size][first][index] \in Seq(U)

LEMMA SiblingsOfSplit ==
  ASSUME NEW hashes, Len(hashes) \in Nat, NEW U, NodesOf(hashes) \subseteq U,
         NEW size \in 2..Len(hashes), NEW k, k = LargestPowerOfTwoBelow(size),
         SiblingsIn(hashes, U, k), SiblingsIn(hashes, U, size - k)
  PROVE  SiblingsIn(hashes, U, size)
<1>0. PICK n \in Nat : n = Len(hashes)
  OBVIOUS
<1> SUFFICES ASSUME NEW first \in 0..(n - size), NEW index \in 0..(size - 1)
             PROVE  Siblings(hashes)[size][first][index] \in Seq(U)
  BY <1>0 DEF SiblingsIn
<1>1. /\ k \in 1..n /\ size - k \in 1..n
      /\ first \in 0..(n - k) /\ first + k \in 0..(n - (size - k))
      /\ first \in 0..n /\ first + k \in 0..n
      /\ index < k => index \in 0..(k - 1)
      /\ ~(index < k) => index - k \in 0..((size - k) - 1)
  BY <1>0, PlacesOfSplit
<1>2. IsSplit(hashes, size, first, k)
  BY <1>0, SlicesAreSplit
<1>3. Siblings(hashes)[size][first][index] =
        IF index < k
          THEN Append(Siblings(hashes)[k][first][index], Nodes(hashes)[size - k][first + k])
          ELSE Append(Siblings(hashes)[size - k][first + k][index - k], Nodes(hashes)[k][first])
  BY <1>2 DEF IsSplit
<1>4. Nodes(hashes)[k][first] \in U /\ Nodes(hashes)[size - k][first + k] \in U
  <2>1. Nodes(hashes)[k][first] \in NodesOf(hashes)
    BY <1>0, <1>1, NodesAreNodes
  <2>2. Nodes(hashes)[size - k][first + k] \in NodesOf(hashes)
    BY <1>0, <1>1, NodesAreNodes
  <2> QED BY <2>1, <2>2
<1>5. CASE index < k
  <2>1. Siblings(hashes)[k][first][index] \in Seq(U)
    BY <1>0, <1>1, <1>5 DEF SiblingsIn
  <2> QED BY <1>3, <1>4, <1>5, <2>1, AppendProperties
<1>6. CASE ~(index < k)
  <2>1. Siblings(hashes)[size - k][first + k][index - k] \in Seq(U)
    BY <1>0, <1>1, <1>6 DEF SiblingsIn
  <2> QED BY <1>3, <1>4, <1>6, <2>1, AppendProperties
<1> QED BY <1>5, <1>6

LEMMA SiblingsOfLeaf ==
  ASSUME NEW hashes, Len(hashes) \in Nat, NEW U
  PROVE  SiblingsIn(hashes, U, 1)
<1> SUFFICES ASSUME NEW first \in 0..(Len(hashes) - 1)
             PROVE  Siblings(hashes)[1][first][0] \in Seq(U)
  BY DEF SiblingsIn
<1>1. IsLeaf(hashes, first)
  BY LeavesAre
<1>2. <<>> \in Seq(U)
  OBVIOUS
<1> QED BY <1>1, <1>2 DEF IsLeaf

LEMMA SiblingsAreNodes ==
  ASSUME NEW hashes, Len(hashes) \in Nat, NEW U, NodesOf(hashes) \subseteq U, NEW size \in 1..Len(hashes)
  PROVE  SiblingsIn(hashes, U, size)
<1> DEFINE G == {m \in Nat : m \in 1..Len(hashes) => SiblingsIn(hashes, U, m)}
<1>1. ASSUME NEW m \in Nat, \A j \in Nat : j < m => j \in G
      PROVE  m \in G
  <2> SUFFICES ASSUME m \in 1..Len(hashes) PROVE SiblingsIn(hashes, U, m)
    OBVIOUS
  <2>1. CASE m = 1
    BY <2>1, SiblingsOfLeaf
  <2>2. CASE m > 1
    <3>1. PICK k : k = LargestPowerOfTwoBelow(m)
      OBVIOUS
    <3>2. k \in 1..(m - 1)
      <4>1. LargestPowerOfTwoBelow(m) \in 1..(m - 1)
        BY <2>2, SplitIsRight
      <4> QED BY <3>1, <4>1
    <3>3. k \in 1..Len(hashes) /\ m - k \in 1..Len(hashes) /\ k < m /\ m - k < m /\ k \in Nat /\ m - k \in Nat
      BY <3>2
    <3>4. SiblingsIn(hashes, U, k) /\ SiblingsIn(hashes, U, m - k)
      BY <1>1, <3>3
    <3>5. m \in 2..Len(hashes)
      BY <2>2
    <3> HIDE DEF G
    <3> QED BY <3>1, <3>4, <3>5, SiblingsOfSplit
  <2> QED BY <2>1, <2>2
<1>2. \A m \in Nat : m \in G
  <2> HIDE DEF G
  <2> QED BY <1>1, CompleteInduction
<1> QED BY <1>2

\* The hash of an entry and some siblings give a node exactly if the entry is
\* at that place below it, and the siblings are its own.
IsRight(hashes, hash, proof, size, first, at, q) ==
  Computed(LeafHash(hash), Len(hashes), proof)[size][at][q] = Nodes(hashes)[size][first] <=>
    /\ hash = hashes[first + at + 1]
    /\ SubSeq(proof, 1, q) = Siblings(hashes)[size][first][at]

SizeIsRight(hashes, hash, proof, size) ==
  \A first \in 0..(Len(hashes) - size) : \A at \in 0..(size - 1) : \A q \in 0..Len(proof) :
    IsRight(hashes, hash, proof, size, first, at, q)

LEMMA LeafIsRight ==
  ASSUME NEW hashes, Len(hashes) \in Nat, Len(hashes) >= 1,
         NEW T, NEW proof \in Seq(T), NEW hash
  PROVE  SizeIsRight(hashes, hash, proof, 1)
<1> SUFFICES ASSUME NEW first \in 0..(Len(hashes) - 1), NEW q \in 0..Len(proof)
             PROVE  IsRight(hashes, hash, proof, 1, first, 0, q)
  BY DEF SizeIsRight
<1>1. SubSeq(proof, 1, q) = <<>> <=> q = 0
  <2>1. Len(SubSeq(proof, 1, q)) = q
    OBVIOUS
  <2> QED BY <2>1
<1>2. IsLeaf(hashes, first)
  BY LeavesAre
<1>3. PICK leaf : leaf = LeafHash(hash)
  OBVIOUS
<1>4. ComputesLeaf(leaf, Len(hashes), proof, q)
  BY LeafIsComputed
<1>5. LeafHash(hashes[first + 1]) # NoHash
  BY HashesDiffer
<1>6. LeafHash(hash) = LeafHash(hashes[first + 1]) <=> hash = hashes[first + 1]
  BY HashesDiffer
<1>7. first + 0 + 1 = first + 1
  OBVIOUS
<1>8. /\ Nodes(hashes)[1][first] = LeafHash(hashes[first + 1])
      /\ Siblings(hashes)[1][first][0] = <<>>
      /\ Computed(LeafHash(hash), Len(hashes), proof)[1][0][q] = IF q = 0 THEN LeafHash(hash) ELSE NoHash
  BY <1>2, <1>3, <1>4 DEF IsLeaf, ComputesLeaf
<1> QED BY <1>1, <1>5, <1>6, <1>7, <1>8, Zenon DEF IsRight

LEMMA SplitIsRightThere ==
  ASSUME NEW hashes, Len(hashes) \in Nat, NEW T, NEW proof \in Seq(T), NEW hash,
         NEW size \in 2..Len(hashes), NEW k, k = LargestPowerOfTwoBelow(size),
         SizeIsRight(hashes, hash, proof, k), SizeIsRight(hashes, hash, proof, size - k)
  PROVE  SizeIsRight(hashes, hash, proof, size)
<1>0. PICK n \in Nat : n = Len(hashes)
  OBVIOUS
<1> SUFFICES ASSUME NEW first \in 0..(n - size), NEW at \in 0..(size - 1), NEW q \in 0..Len(proof)
             PROVE  IsRight(hashes, hash, proof, size, first, at, q)
  BY <1>0 DEF SizeIsRight
<1>1. /\ k \in 1..n /\ size - k \in 1..n
      /\ first \in 0..(n - k) /\ first + k \in 0..(n - (size - k))
      /\ first \in 0..n /\ first + k \in 0..n
      /\ at < k => at \in 0..(k - 1)
      /\ ~(at < k) =>
           at - k \in 0..((size - k) - 1) /\ (first + k) + (at - k) + 1 = first + at + 1
  <2>1. k \in 1..(size - 1)
    <3>1. LargestPowerOfTwoBelow(size) \in 1..(size - 1)
      BY SplitIsRight
    <3> QED BY <3>1
  <2>2. k \in Int /\ size \in Int /\ first \in Int /\ at \in Int
    BY <1>0, <2>1
  <2>3. 1 <= k /\ k < size /\ size <= n /\ 0 <= first /\ first + size <= n /\ 0 <= at /\ at < size
    BY <1>0, <2>1
  <2>4. k \in 1..n /\ size - k \in 1..n
    BY <2>2, <2>3
  <2>5. first \in 0..(n - k) /\ first + k \in 0..(n - (size - k)) /\ first \in 0..n /\ first + k \in 0..n
    BY <2>2, <2>3
  <2>6. at < k => at \in 0..(k - 1)
    BY <2>2, <2>3
  <2>7. ~(at < k) => at - k \in 0..((size - k) - 1) /\ (first + k) + (at - k) + 1 = first + at + 1
    BY <2>2, <2>3
  <2> QED BY <2>4, <2>5, <2>6, <2>7
<1>2. PICK left : left = Nodes(hashes)[k][first]
  OBVIOUS
<1>3. PICK right : right = Nodes(hashes)[size - k][first + k]
  OBVIOUS
<1>4. PICK U : U = T \cup NodesOf(hashes)
  OBVIOUS
<1>5. left \in U /\ right \in U
  <2>1. Nodes(hashes)[k][first] \in NodesOf(hashes)
    BY <1>0, <1>1, NodesAreNodes
  <2>2. Nodes(hashes)[size - k][first + k] \in NodesOf(hashes)
    BY <1>0, <1>1, NodesAreNodes
  <2> QED BY <1>2, <1>3, <1>4, <2>1, <2>2
<1>6. proof \in Seq(U)
  BY <1>4
<1>7. IsSplit(hashes, size, first, k)
  BY <1>0, SlicesAreSplit
<1>8. Nodes(hashes)[size][first] = NodeHash(left, right)
  BY <1>2, <1>3, <1>7 DEF IsSplit
<1>9. PICK leaf : leaf = LeafHash(hash)
  OBVIOUS
<1>10. ComputesSplit(leaf, n, proof, size, at, q, k)
  BY <1>0, SplitIsComputed
<1>11. left # NoHash /\ right # NoHash
  <2>1. Nodes(hashes)[k][first] # NoHash
    BY <1>0, <1>1, NodesAreHashes
  <2>2. Nodes(hashes)[size - k][first + k] # NoHash
    BY <1>0, <1>1, NodesAreHashes
  <2> QED BY <1>2, <1>3, <2>1, <2>2
<1>12. PICK value : value = Computed(leaf, n, proof)[size][at][q]
  OBVIOUS
<1>13. PICK whole : whole = Siblings(hashes)[size][first][at]
  OBVIOUS
<1>14. SiblingsIn(hashes, U, k) /\ SiblingsIn(hashes, U, size - k)
  <2>1. NodesOf(hashes) \subseteq U
    BY <1>4
  <2> QED BY <1>0, <1>1, <2>1, SiblingsAreNodes
<1>15. CASE at < k
  <2>1. PICK path : path = Siblings(hashes)[k][first][at]
    OBVIOUS
  <2>2. path \in Seq(U)
    BY <1>0, <1>1, <1>14, <1>15, <2>1 DEF SiblingsIn
  <2>3. whole = Append(path, right)
    BY <1>3, <1>7, <1>13, <1>15, <2>1 DEF IsSplit
  <2>4. CASE q = 0
    <3>1. value = NoHash /\ NoHash # NodeHash(left, right)
      BY <1>10, <1>12, <2>4, HashesDiffer DEF ComputesSplit
    <3>2. SubSeq(proof, 1, 0) = <<>>
      OBVIOUS
    <3>3. Append(path, right) # <<>>
      <4>1. Len(Append(path, right)) = Len(path) + 1 /\ Len(path) \in Nat
        BY <1>5, <2>2, AppendProperties
      <4> QED BY <4>1
    <3> QED BY <1>0, <1>8, <1>9, <1>12, <1>13, <2>3, <2>4, <3>1, <3>2, <3>3, Zenon DEF IsRight
  <2>5. CASE q # 0
    <3>1. q \in 1..Len(proof) /\ q - 1 \in 0..Len(proof)
      BY <2>5
    <3>2. PICK sub : sub = Computed(leaf, n, proof)[k][at][q - 1]
      OBVIOUS
    <3>3. sub = left <=> hash = hashes[first + at + 1] /\ SubSeq(proof, 1, q - 1) = path
      <4>1. IsRight(hashes, hash, proof, k, first, at, q - 1)
        BY <1>0, <1>1, <1>15, <3>1 DEF SizeIsRight
      <4> QED BY <1>0, <1>2, <1>9, <2>1, <3>2, <4>1, Zenon DEF IsRight
    <3>4. value = IF sub = NoHash THEN NoHash ELSE NodeHash(sub, proof[q])
      BY <1>10, <1>12, <1>15, <2>5, <3>2 DEF ComputesSplit, Above
    <3>5. value = NodeHash(left, right) <=> sub = left /\ proof[q] = right
      <4>1. NoHash # NodeHash(left, right)
        BY HashesDiffer
      <4>2. NodeHash(sub, proof[q]) = NodeHash(left, right) <=> sub = left /\ proof[q] = right
        BY HashesDiffer
      <4> QED BY <1>11, <3>4, <4>1, <4>2
    <3>6. SubSeq(proof, 1, q) = Append(path, right) <=>
            SubSeq(proof, 1, q - 1) = path /\ proof[q] = right
      BY <1>5, <1>6, <2>2, <3>1, LastOfPart
    <3> QED BY <1>0, <1>8, <1>9, <1>12, <1>13, <2>3, <3>3, <3>5, <3>6, Zenon DEF IsRight
  <2> QED BY <2>4, <2>5
<1>16. CASE ~(at < k)
  <2>1. PICK path : path = Siblings(hashes)[size - k][first + k][at - k]
    OBVIOUS
  <2>2. path \in Seq(U)
    BY <1>0, <1>1, <1>14, <1>16, <2>1 DEF SiblingsIn
  <2>3. whole = Append(path, left)
    BY <1>2, <1>7, <1>13, <1>16, <2>1 DEF IsSplit
  <2>4. CASE q = 0
    <3>1. value = NoHash /\ NoHash # NodeHash(left, right)
      BY <1>10, <1>12, <2>4, HashesDiffer DEF ComputesSplit
    <3>2. SubSeq(proof, 1, 0) = <<>>
      OBVIOUS
    <3>3. Append(path, left) # <<>>
      <4>1. Len(Append(path, left)) = Len(path) + 1 /\ Len(path) \in Nat
        BY <1>5, <2>2, AppendProperties
      <4> QED BY <4>1
    <3> QED BY <1>0, <1>8, <1>9, <1>12, <1>13, <2>3, <2>4, <3>1, <3>2, <3>3, Zenon DEF IsRight
  <2>5. CASE q # 0
    <3>1. q \in 1..Len(proof) /\ q - 1 \in 0..Len(proof)
      BY <2>5
    <3>2. PICK sub : sub = Computed(leaf, n, proof)[size - k][at - k][q - 1]
      OBVIOUS
    <3>3. sub = right <=> hash = hashes[first + at + 1] /\ SubSeq(proof, 1, q - 1) = path
      <4>1. IsRight(hashes, hash, proof, size - k, first + k, at - k, q - 1)
        BY <1>0, <1>1, <1>16, <3>1 DEF SizeIsRight
      <4>2. (first + k) + (at - k) + 1 = first + at + 1
        BY <1>1, <1>16
      <4> QED BY <1>0, <1>3, <1>9, <2>1, <3>2, <4>1, <4>2, Zenon DEF IsRight
    <3>4. value = IF sub = NoHash THEN NoHash ELSE NodeHash(proof[q], sub)
      BY <1>10, <1>12, <1>16, <2>5, <3>2 DEF ComputesSplit, Above
    <3>5. value = NodeHash(left, right) <=> sub = right /\ proof[q] = left
      <4>1. NoHash # NodeHash(left, right)
        BY HashesDiffer
      <4>2. NodeHash(proof[q], sub) = NodeHash(left, right) <=> proof[q] = left /\ sub = right
        BY HashesDiffer
      <4> QED BY <1>11, <3>4, <4>1, <4>2
    <3>6. SubSeq(proof, 1, q) = Append(path, left) <=>
            SubSeq(proof, 1, q - 1) = path /\ proof[q] = left
      BY <1>5, <1>6, <2>2, <3>1, LastOfPart
    <3> QED BY <1>0, <1>8, <1>9, <1>12, <1>13, <2>3, <3>3, <3>5, <3>6, Zenon DEF IsRight
  <2> QED BY <2>4, <2>5
<1> QED BY <1>15, <1>16

LEMMA EverySizeIsRight ==
  ASSUME NEW hashes, Len(hashes) \in Nat, NEW T, NEW proof \in Seq(T), NEW hash, NEW size \in 1..Len(hashes)
  PROVE  SizeIsRight(hashes, hash, proof, size)
<1> DEFINE G == {m \in Nat : m \in 1..Len(hashes) => SizeIsRight(hashes, hash, proof, m)}
<1>1. ASSUME NEW m \in Nat, \A j \in Nat : j < m => j \in G
      PROVE  m \in G
  <2> SUFFICES ASSUME m \in 1..Len(hashes) PROVE SizeIsRight(hashes, hash, proof, m)
    OBVIOUS
  <2>1. CASE m = 1
    <3>1. SizeIsRight(hashes, hash, proof, 1)
      BY LeafIsRight
    <3> QED BY <2>1, <3>1
  <2>2. CASE m > 1
    <3>1. PICK k : k = LargestPowerOfTwoBelow(m)
      OBVIOUS
    <3>2. k \in 1..(m - 1)
      <4>1. LargestPowerOfTwoBelow(m) \in 1..(m - 1)
        BY <2>2, SplitIsRight
      <4> QED BY <3>1, <4>1
    <3>3. k \in 1..Len(hashes) /\ m - k \in 1..Len(hashes) /\ k < m /\ m - k < m /\ k \in Nat /\ m - k \in Nat
      BY <3>2
    <3>4. SizeIsRight(hashes, hash, proof, k) /\ SizeIsRight(hashes, hash, proof, m - k)
      BY <1>1, <3>3
    <3>5. m \in 2..Len(hashes)
      BY <2>2
    <3> HIDE DEF G
    <3> QED BY <3>1, <3>4, <3>5, SplitIsRightThere
  <2> QED BY <2>1, <2>2
<1>2. \A m \in Nat : m \in G
  <2> HIDE DEF G
  <2> QED BY <1>1, CompleteInduction
<1> QED BY <1>2

(* A verifier accepts a proof for an entry at an index of a log of any      *)
(* length exactly if the entry is at that index and the proof is the one    *)
(* that inclusionProof makes of it: of all sequences of hashes, no other is *)
(* accepted (verifyInclusion, inclusionProof, merkleRoot of merkle.ts).     *)
THEOREM OnlyTheProofVerifies ==
  ASSUME NEW S, NEW hashes \in Seq(S), hashes # <<>>,
         NEW T, NEW proof \in Seq(T), NEW hash, NEW index \in Int
  PROVE  VerifyInclusion(hash, index, Len(hashes), proof, MerkleRoot(hashes)) <=>
           /\ index \in 0..(Len(hashes) - 1)
           /\ hash = hashes[index + 1]
           /\ proof = InclusionProof(hashes, index)
<1>1. Len(hashes) \in Nat /\ Len(hashes) >= 1
  OBVIOUS
<1>2. MerkleRoot(hashes) = Nodes(hashes)[Len(hashes)][0]
  BY DEF MerkleRoot
<1>3. CASE index \in 0..(Len(hashes) - 1)
  <2>1. SizeIsRight(hashes, hash, proof, Len(hashes))
    BY <1>1, EverySizeIsRight
  <2>2. IsRight(hashes, hash, proof, Len(hashes), 0, index, Len(proof))
    <3>1. 0 \in 0..(Len(hashes) - Len(hashes)) /\ Len(proof) \in 0..Len(proof)
      BY <1>1
    <3> QED BY <1>3, <2>1, <3>1 DEF SizeIsRight
  <2>3. SubSeq(proof, 1, Len(proof)) = proof /\ 0 + index + 1 = index + 1
    OBVIOUS
  <2> QED BY <1>2, <1>3, <2>2, <2>3, Zenon DEF IsRight, VerifyInclusion, Recompute, InclusionProof
<1>4. CASE ~(index \in 0..(Len(hashes) - 1))
  BY <1>4 DEF VerifyInclusion
<1> QED BY <1>3, <1>4

\* Slices with the same node begin with the same entry.
FirstIsTold(hashes, size) ==
  \A first \in 0..(Len(hashes) - size) : \A other \in 1..Len(hashes) : \A place \in 0..(Len(hashes) - other) :
    Nodes(hashes)[size][first] = Nodes(hashes)[other][place] => hashes[first + 1] = hashes[place + 1]

LEMMA NodesTellTheFirst ==
  ASSUME NEW hashes, Len(hashes) \in Nat, NEW size \in 1..Len(hashes)
  PROVE  FirstIsTold(hashes, size)
<1> DEFINE G == {m \in Nat : m \in 1..Len(hashes) => FirstIsTold(hashes, m)}
<1>1. ASSUME NEW m \in Nat, \A j \in Nat : j < m => j \in G
      PROVE  m \in G
  <2> SUFFICES ASSUME m \in 1..Len(hashes) PROVE FirstIsTold(hashes, m)
    OBVIOUS
  <2>1. CASE m = 1
    <3> SUFFICES ASSUME NEW first \in 0..(Len(hashes) - 1), NEW other \in 1..Len(hashes),
                        NEW place \in 0..(Len(hashes) - other),
                        Nodes(hashes)[1][first] = Nodes(hashes)[other][place]
                 PROVE  hashes[first + 1] = hashes[place + 1]
      BY <2>1 DEF FirstIsTold
    <3>1. Nodes(hashes)[1][first] = LeafHash(hashes[first + 1])
      BY LeavesAre DEF IsLeaf
    <3>2. CASE other = 1
      <4>1. IsLeaf(hashes, place)
        BY <3>2, LeavesAre
      <4>2. LeafHash(hashes[first + 1]) = LeafHash(hashes[place + 1])
        BY <3>1, <3>2, <4>1 DEF IsLeaf
      <4> QED BY <4>2, HashesDiffer
    <3>3. CASE other # 1
      <4>1. other \in 2..Len(hashes)
        BY <3>3
      <4>2. PICK k : IsSplit(hashes, other, place, k)
        BY <4>1, SlicesAreSplit
      <4>3. LeafHash(hashes[first + 1])
              # NodeHash(Nodes(hashes)[k][place], Nodes(hashes)[other - k][place + k])
        BY HashesDiffer
      <4> QED BY <3>1, <4>2, <4>3 DEF IsSplit
    <3> QED BY <3>2, <3>3
  <2>2. CASE m > 1
    <3> SUFFICES ASSUME NEW first \in 0..(Len(hashes) - m), NEW other \in 1..Len(hashes),
                        NEW place \in 0..(Len(hashes) - other),
                        Nodes(hashes)[m][first] = Nodes(hashes)[other][place]
                 PROVE  hashes[first + 1] = hashes[place + 1]
      BY DEF FirstIsTold
    <3>1. PICK k : k = LargestPowerOfTwoBelow(m)
      OBVIOUS
    <3>2. k \in 1..(m - 1)
      <4>1. LargestPowerOfTwoBelow(m) \in 1..(m - 1)
        BY <2>2, SplitIsRight
      <4> QED BY <3>1, <4>1
    <3>3. m \in 2..Len(hashes)
      BY <2>2
    <3>4. IsSplit(hashes, m, first, k)
      BY <3>1, <3>3, SlicesAreSplit
    <3>5. CASE other = 1
      <4>1. IsLeaf(hashes, place)
        BY <3>5, LeavesAre
      <4>2. LeafHash(hashes[place + 1])
              # NodeHash(Nodes(hashes)[k][first], Nodes(hashes)[m - k][first + k])
        BY HashesDiffer
      <4> QED BY <3>4, <3>5, <4>1, <4>2 DEF IsSplit, IsLeaf
    <3>6. CASE other # 1
      <4>1. other \in 2..Len(hashes)
        BY <3>6
      <4>2. PICK j : j = LargestPowerOfTwoBelow(other)
        OBVIOUS
      <4>3. j \in 1..(other - 1)
        <5>1. LargestPowerOfTwoBelow(other) \in 1..(other - 1)
          BY <4>1, SplitIsRight
        <5> QED BY <4>2, <5>1
      <4>4. IsSplit(hashes, other, place, j)
        BY <4>1, <4>2, SlicesAreSplit
      <4>5. NodeHash(Nodes(hashes)[k][first], Nodes(hashes)[m - k][first + k]) =
            NodeHash(Nodes(hashes)[j][place], Nodes(hashes)[other - j][place + j])
        BY <3>4, <4>4 DEF IsSplit
      <4>6. Nodes(hashes)[k][first] = Nodes(hashes)[j][place]
        BY <4>5, HashesDiffer
      <4>7. k < m /\ k \in Nat /\ k \in 1..Len(hashes) /\ first \in 0..(Len(hashes) - k)
            /\ j \in 1..Len(hashes) /\ place \in 0..(Len(hashes) - j)
        BY <3>2, <4>3
      <4>8. FirstIsTold(hashes, k)
        BY <1>1, <4>7
      <4> QED BY <4>6, <4>7, <4>8 DEF FirstIsTold
    <3> QED BY <3>5, <3>6
  <2> QED BY <2>1, <2>2
<1>2. \A m \in Nat : m \in G
  <2> HIDE DEF G
  <2> QED BY <1>1, CompleteInduction
<1> QED BY <1>2

\* The entries of a log differ.
AllDiffer(hashes) == \A i, j \in 1..Len(hashes) : hashes[i] = hashes[j] => i = j

\* Two leaves of a slice have different siblings.
PathsDiffer(hashes, size) ==
  \A first \in 0..(Len(hashes) - size) : \A a \in 0..(size - 1) : \A b \in 0..(size - 1) :
    Siblings(hashes)[size][first][a] = Siblings(hashes)[size][first][b] => a = b

\* What a path to the left and one to the right of a split end with.
LEMMA LastDiffers ==
  ASSUME NEW U, NEW s \in Seq(U), NEW t \in Seq(U), NEW d \in U, NEW e \in U
  PROVE  Append(s, d) = Append(t, e) => s = t /\ d = e
<1> SUFFICES ASSUME Append(s, d) = Append(t, e) PROVE s = t /\ d = e
  OBVIOUS
<1>1. PICK w : w = Append(s, d)
  OBVIOUS
<1>2. /\ Len(w) = Len(s) + 1 /\ w[Len(s) + 1] = d
      /\ \A i \in 1..Len(s) : w[i] = s[i]
  BY <1>1
<1>3. /\ Len(w) = Len(t) + 1 /\ w[Len(t) + 1] = e
      /\ \A i \in 1..Len(t) : w[i] = t[i]
  BY <1>1
<1>4. Len(s) = Len(t)
  BY <1>2, <1>3
<1>5. s = t
  BY <1>2, <1>3, <1>4, SeqEqual
<1> QED BY <1>2, <1>3, <1>4, <1>5

LEMMA SplitPathsDiffer ==
  ASSUME NEW hashes, Len(hashes) \in Nat, AllDiffer(hashes), NEW size \in 2..Len(hashes),
         NEW k, k = LargestPowerOfTwoBelow(size),
         PathsDiffer(hashes, k), PathsDiffer(hashes, size - k)
  PROVE  PathsDiffer(hashes, size)
<1>0. PICK n \in Nat : n = Len(hashes)
  OBVIOUS
<1> SUFFICES ASSUME NEW first \in 0..(n - size), NEW a \in 0..(size - 1), NEW b \in 0..(size - 1),
                    Siblings(hashes)[size][first][a] = Siblings(hashes)[size][first][b]
             PROVE  a = b
  BY <1>0 DEF PathsDiffer
<1>1. k \in 1..(size - 1)
  <2>1. LargestPowerOfTwoBelow(size) \in 1..(size - 1)
    BY SplitIsRight
  <2> QED BY <2>1
<1>2. /\ k \in 1..n /\ size - k \in 1..n
      /\ first \in 0..(n - k) /\ first + k \in 0..(n - (size - k))
      /\ first \in 0..n /\ first + k \in 0..n
  BY <1>0, <1>1
<1>3. IsSplit(hashes, size, first, k)
  BY <1>0, SlicesAreSplit
<1>4. PICK U : U = NodesOf(hashes)
  OBVIOUS
<1>5. PICK left \in U : left = Nodes(hashes)[k][first]
  BY <1>0, <1>2, <1>4, NodesAreNodes
<1>6. PICK right \in U : right = Nodes(hashes)[size - k][first + k]
  BY <1>0, <1>2, <1>4, NodesAreNodes
<1>7. left # right
  <2>1. FirstIsTold(hashes, k)
    BY <1>0, <1>2, NodesTellTheFirst
  <2>2. left = right => hashes[first + 1] = hashes[(first + k) + 1]
    BY <1>0, <1>2, <1>5, <1>6, <2>1 DEF FirstIsTold
  <2>3. first + 1 \in 1..n /\ (first + k) + 1 \in 1..n /\ first + 1 # (first + k) + 1
    BY <1>1
  <2> QED BY <1>0, <2>2, <2>3 DEF AllDiffer
<1>8. SiblingsIn(hashes, U, k) /\ SiblingsIn(hashes, U, size - k)
  BY <1>0, <1>2, <1>4, SiblingsAreNodes
<1>9. ASSUME NEW i \in 0..(size - 1)
      PROVE  /\ i < k => /\ i \in 0..(k - 1)
                         /\ Siblings(hashes)[k][first][i] \in Seq(U)
                         /\ Siblings(hashes)[size][first][i] = Append(Siblings(hashes)[k][first][i], right)
             /\ ~(i < k) => /\ i - k \in 0..((size - k) - 1)
                            /\ Siblings(hashes)[size - k][first + k][i - k] \in Seq(U)
                            /\ Siblings(hashes)[size][first][i] =
                                 Append(Siblings(hashes)[size - k][first + k][i - k], left)
  <2>1. CASE i < k
    <3>1. i \in 0..(k - 1)
      BY <1>1, <2>1
    <3>2. Siblings(hashes)[k][first][i] \in Seq(U)
      BY <1>0, <1>2, <1>8, <3>1 DEF SiblingsIn
    <3>3. Siblings(hashes)[size][first][i] = Append(Siblings(hashes)[k][first][i], right)
      BY <1>3, <1>6, <2>1 DEF IsSplit
    <3> QED BY <2>1, <3>1, <3>2, <3>3
  <2>2. CASE ~(i < k)
    <3>1. i - k \in 0..((size - k) - 1)
      BY <1>1, <2>2
    <3>2. Siblings(hashes)[size - k][first + k][i - k] \in Seq(U)
      BY <1>0, <1>2, <1>8, <3>1 DEF SiblingsIn
    <3>3. Siblings(hashes)[size][first][i] = Append(Siblings(hashes)[size - k][first + k][i - k], left)
      BY <1>3, <1>5, <2>2 DEF IsSplit
    <3> QED BY <2>2, <3>1, <3>2, <3>3
  <2> QED BY <2>1, <2>2
<1>10. CASE a < k /\ b < k
  <2>1. Siblings(hashes)[k][first][a] = Siblings(hashes)[k][first][b]
    <3>1. PICK s \in Seq(U) : s = Siblings(hashes)[k][first][a]
      BY <1>9, <1>10
    <3>2. PICK t \in Seq(U) : t = Siblings(hashes)[k][first][b]
      BY <1>9, <1>10
    <3>3. Append(s, right) = Append(t, right)
      BY <1>9, <1>10, <3>1, <3>2
    <3>4. s = t
      BY <1>6, <3>3, LastDiffers
    <3> QED BY <3>1, <3>2, <3>4
  <2> QED BY <1>0, <1>2, <1>9, <1>10, <2>1 DEF PathsDiffer
<1>11. CASE ~(a < k) /\ ~(b < k)
  <2>1. Siblings(hashes)[size - k][first + k][a - k] = Siblings(hashes)[size - k][first + k][b - k]
    <3>1. PICK s \in Seq(U) : s = Siblings(hashes)[size - k][first + k][a - k]
      BY <1>9, <1>11
    <3>2. PICK t \in Seq(U) : t = Siblings(hashes)[size - k][first + k][b - k]
      BY <1>9, <1>11
    <3>3. Append(s, left) = Append(t, left)
      BY <1>9, <1>11, <3>1, <3>2
    <3>4. s = t
      BY <1>5, <3>3, LastDiffers
    <3> QED BY <3>1, <3>2, <3>4
  <2>2. a - k = b - k
    BY <1>0, <1>2, <1>9, <1>11, <2>1 DEF PathsDiffer
  <2> QED BY <1>1, <2>2
<1>12. ASSUME NEW x \in 0..(size - 1), NEW y \in 0..(size - 1), x < k, ~(y < k),
              Siblings(hashes)[size][first][x] = Siblings(hashes)[size][first][y]
       PROVE  FALSE
  <2>1. PICK s \in Seq(U) : s = Siblings(hashes)[k][first][x]
    BY <1>9, <1>12
  <2>2. PICK t \in Seq(U) : t = Siblings(hashes)[size - k][first + k][y - k]
    BY <1>9, <1>12
  <2>3. Append(s, right) = Append(t, left)
    BY <1>9, <1>12, <2>1, <2>2
  <2>4. Append(s, right) = Append(t, left) => s = t /\ right = left
    BY LastDiffers
  <2> QED BY <1>7, <2>3, <2>4
<1> QED BY <1>10, <1>11, <1>12

LEMMA EveryPathDiffers ==
  ASSUME NEW hashes, Len(hashes) \in Nat, AllDiffer(hashes), NEW size \in 1..Len(hashes)
  PROVE  PathsDiffer(hashes, size)
<1> DEFINE G == {m \in Nat : m \in 1..Len(hashes) => PathsDiffer(hashes, m)}
<1>1. ASSUME NEW m \in Nat, \A j \in Nat : j < m => j \in G
      PROVE  m \in G
  <2> SUFFICES ASSUME m \in 1..Len(hashes) PROVE PathsDiffer(hashes, m)
    OBVIOUS
  <2>1. CASE m = 1
    BY <2>1 DEF PathsDiffer
  <2>2. CASE m > 1
    <3>1. PICK k : k = LargestPowerOfTwoBelow(m)
      OBVIOUS
    <3>2. k \in 1..(m - 1)
      <4>1. LargestPowerOfTwoBelow(m) \in 1..(m - 1)
        BY <2>2, SplitIsRight
      <4> QED BY <3>1, <4>1
    <3>3. k \in 1..Len(hashes) /\ m - k \in 1..Len(hashes) /\ k < m /\ m - k < m /\ k \in Nat /\ m - k \in Nat
      BY <3>2
    <3>4. PathsDiffer(hashes, k) /\ PathsDiffer(hashes, m - k)
      BY <1>1, <3>3
    <3>5. m \in 2..Len(hashes)
      BY <2>2
    <3> HIDE DEF G
    <3> QED BY <3>1, <3>4, <3>5, SplitPathsDiffer
  <2> QED BY <2>1, <2>2
<1>2. \A m \in Nat : m \in G
  <2> HIDE DEF G
  <2> QED BY <1>1, CompleteInduction
<1> QED BY <1>2

(* In a tree of any size: it is split where RFC 6962 says, and the proof of *)
(* an entry verifies at its own index and at no other, for no other entry,  *)
(* and not with a sibling missing or added at either end (merkle.ts).       *)
THEOREM ProofsAreExactForEverySize ==
  ASSUME NEW n \in Nat, n >= 1
  PROVE  ProofsAreExact(n)
<1>1. PICK hashes : hashes = [i \in 1..n |-> i]
  OBVIOUS
<1>2. hashes \in Seq(1..n) /\ Len(hashes) = n /\ hashes # <<>> /\ \A i \in 1..n : hashes[i] = i
  BY <1>1
<1>3. PICK root : root = MerkleRoot(hashes)
  OBVIOUS
<1>4. PICK U : U = NodesOf(hashes) \cup {root, LeafHash(1)}
  OBVIOUS
<1>5. n > 1 => /\ LargestPowerOfTwoBelow(n) \in PowersOfTwo(n)
               /\ LargestPowerOfTwoBelow(n) < n /\ n <= 2 * LargestPowerOfTwoBelow(n)
  <2> SUFFICES ASSUME n > 1
               PROVE  /\ LargestPowerOfTwoBelow(n) \in PowersOfTwo(n)
                      /\ LargestPowerOfTwoBelow(n) < n /\ n <= 2 * LargestPowerOfTwoBelow(n)
    OBVIOUS
  <2>1. PICK k : k = LargestPowerOfTwoBelow(n)
    OBVIOUS
  <2>2. k \in 1..(n - 1) /\ k \in PowersOfTwo(n) /\ n <= 2 * k
    BY <2>1, SplitIsRight
  <2> QED BY <2>1, <2>2
<1>6. ASSUME NEW index \in 0..(n - 1), NEW proof, proof = InclusionProof(hashes, index)
      PROVE  IsExact(hashes, root, index, proof)
  <2>1. proof \in Seq(U)
    <3>1. n \in 1..Len(hashes) /\ Len(hashes) \in Nat /\ NodesOf(hashes) \subseteq U
      BY <1>2, <1>4
    <3>2. SiblingsIn(hashes, U, n)
      BY <3>1, SiblingsAreNodes
    <3>3. 0 \in 0..(Len(hashes) - n)
      BY <1>2
    <3>4. Siblings(hashes)[n][0][index] \in Seq(U)
      BY <3>2, <3>3 DEF SiblingsIn
    <3> QED BY <1>2, <1>6, <3>4 DEF InclusionProof
  <2>2. ASSUME NEW p \in Seq(U), NEW hash, NEW at \in Int
        PROVE  VerifyInclusion(hash, at, n, p, root) <=>
                 at \in 0..(n - 1) /\ hash = hashes[at + 1] /\ p = InclusionProof(hashes, at)
    <3>1. VerifyInclusion(hash, at, Len(hashes), p, MerkleRoot(hashes)) <=>
            at \in 0..(Len(hashes) - 1) /\ hash = hashes[at + 1] /\ p = InclusionProof(hashes, at)
      BY <1>2, OnlyTheProofVerifies
    <3> QED BY <1>2, <1>3, <3>1
  <2>3. ASSUME NEW at \in 0..(n - 1), InclusionProof(hashes, at) = proof
        PROVE  at = index
    <3>1. AllDiffer(hashes) /\ Len(hashes) \in Nat /\ n \in 1..Len(hashes)
      BY <1>2 DEF AllDiffer
    <3>2. PathsDiffer(hashes, n)
      BY <3>1, EveryPathDiffers
    <3>3. 0 \in 0..(Len(hashes) - n)
      BY <1>2
    <3>4. Siblings(hashes)[n][0][at] = Siblings(hashes)[n][0][index]
      BY <1>2, <1>6, <2>3 DEF InclusionProof
    <3> QED BY <3>2, <3>3, <3>4 DEF PathsDiffer
  <2>4. ASSUME NEW hash, NEW at \in -1..n
        PROVE  VerifyInclusion(hash, at, n, proof, root) <=> at = index /\ hash = hashes[index + 1]
    <3>1. at \in Int
      OBVIOUS
    <3>2. VerifyInclusion(hash, at, n, proof, root) <=>
            at \in 0..(n - 1) /\ hash = hashes[at + 1] /\ proof = InclusionProof(hashes, at)
      BY <2>1, <2>2, <3>1
    <3> QED BY <1>6, <2>3, <3>2
  <2>5. ASSUME NEW p \in Seq(U), Len(p) # Len(proof)
        PROVE  ~VerifyInclusion(hashes[index + 1], index, n, p, root)
    <3>1. index \in Int
      OBVIOUS
    <3>2. p # InclusionProof(hashes, index)
      BY <1>6, <2>5
    <3> QED BY <2>2, <3>1, <3>2
  <2>6. ASSUME NEW extra \in {root, LeafHash(1)}
        PROVE  /\ ~VerifyInclusion(hashes[index + 1], index, n, <<extra>> \o proof, root)
               /\ ~VerifyInclusion(hashes[index + 1], index, n, Append(proof, extra), root)
    <3>1. extra \in U
      BY <1>4
    <3>2. PICK longer : longer = <<extra>> \o proof
      OBVIOUS
    <3>3. longer \in Seq(U) /\ Len(longer) # Len(proof)
      BY <2>1, <3>1, <3>2
    <3>4. PICK further : further = Append(proof, extra)
      OBVIOUS
    <3>5. further \in Seq(U) /\ Len(further) # Len(proof)
      BY <2>1, <3>1, <3>4
    <3>6. /\ ~VerifyInclusion(hashes[index + 1], index, n, longer, root)
          /\ ~VerifyInclusion(hashes[index + 1], index, n, further, root)
      BY <2>5, <3>3, <3>5
    <3> QED BY <3>2, <3>4, <3>6
  <2>7. ASSUME proof # <<>>
        PROVE  /\ ~VerifyInclusion(hashes[index + 1], index, n, Tail(proof), root)
               /\ ~VerifyInclusion(hashes[index + 1], index, n, SubSeq(proof, 1, Len(proof) - 1), root)
    <3>1. PICK shorter : shorter = Tail(proof)
      OBVIOUS
    <3>2. shorter \in Seq(U) /\ Len(shorter) # Len(proof)
      BY <2>1, <2>7, <3>1
    <3>3. PICK cut : cut = SubSeq(proof, 1, Len(proof) - 1)
      OBVIOUS
    <3>4. cut \in Seq(U) /\ Len(cut) # Len(proof)
      BY <2>1, <2>7, <3>3
    <3>5. /\ ~VerifyInclusion(hashes[index + 1], index, n, shorter, root)
          /\ ~VerifyInclusion(hashes[index + 1], index, n, cut, root)
      BY <2>5, <3>2, <3>4
    <3> QED BY <3>1, <3>3, <3>5
  <2>8. \A hash \in 1..(Len(hashes) + 1), at \in -1..Len(hashes) :
          VerifyInclusion(hash, at, Len(hashes), proof, root) <=> at = index /\ hash = hashes[index + 1]
    BY <1>2, <2>4
  <2> QED BY <1>2, <2>6, <2>7, <2>8, Zenon DEF IsExact
<1>7. \A index \in 0..(n - 1) : IsExact(hashes, root, index, InclusionProof(hashes, index))
  BY <1>6
<1>8. \A index \in 0..(n - 1) :
        IsExact([i \in 1..n |-> i], MerkleRoot([i \in 1..n |-> i]), index, InclusionProof([i \in 1..n |-> i], index))
  BY <1>1, <1>3, <1>7
<1> QED BY <1>5, <1>8, Zenon DEF ProofsAreExact

-----------------------------------------------------------------------------
(* Anchors.                                                                *)

\* The nonce that is sent is a number.
LEMMA NoncesAreNumbers ==
  ASSUME NEW drawn \in Nat
  PROVE  drawn % HalfRange \in Nat
  BY HalfRangeAssumption

\* What is sent for a request.
LEMMA WhatIsSent ==
  ASSUME NEW roots, NEW r \in Requests(roots)
  PROVE  /\ r.alg \in Algorithms /\ r.root \in roots /\ r.drawn % HalfRange \in Nat
         /\ Built(r).nonce = r.drawn % HalfRange
         /\ Built(r).sent = [imprint |-> Digest(r.alg, r.root), alg |-> r.alg,
                             nonce |-> r.drawn % HalfRange]
<1>1. r.alg \in Algorithms /\ r.root \in roots /\ r.drawn \in 0..(2 * HalfRange - 1)
  BY DEF Requests
<1>2. r.drawn % HalfRange \in Nat
  BY <1>1, NoncesAreNumbers, HalfRangeAssumption
<1> QED BY <1>1, <1>2 DEF Built, BuildTimeStampRequest

\* What is stored, and when.
LEMMA WhatIsStored ==
  ASSUME NEW tsa, NEW alg, NEW root, NEW request, NEW reply
  PROVE  /\ Anchored(tsa, alg, root, request, reply) # Refused <=>
              /\ Granted(reply) /\ reply.token.signed
              /\ Binds(reply.token, Digest(alg, root), alg)
              /\ Echoes(reply.token, request.nonce)
         /\ Anchored(tsa, alg, root, request, reply) # Refused =>
              Anchored(tsa, alg, root, request, reply) =
                [backend |-> "rfc3161", tsa |-> tsa, root |-> root, alg |-> alg,
                 token |-> reply.token, genTime |-> reply.token.genTime]
<1>1. [backend |-> "rfc3161", tsa |-> tsa, root |-> root, alg |-> alg,
       token |-> reply.token, genTime |-> reply.token.genTime] # Refused
  BY DEF Refused
<1> QED BY <1>1, Zenon DEF Anchored

\* The answer of a TSA to what was sent.
LEMMA WhatIsReplied ==
  ASSUME NEW sent, NEW at
  PROVE  /\ Granted(Reply(sent, at)) /\ Reply(sent, at).token.signed = TRUE
         /\ Reply(sent, at).token.alg = sent.alg /\ Reply(sent, at).token.imprint = sent.imprint
         /\ Reply(sent, at).token.nonce = sent.nonce /\ Reply(sent, at).token.genTime = at
<1>1. NoToken.signed = FALSE
  BY DEF NoToken
<1> QED BY <1>1 DEF Reply, Granted

LEMMA DigestsDiffer ==
  ASSUME NEW a, NEW b, NEW q, NEW r
  PROVE  Digest(a, q) = Digest(b, r) <=> a = b /\ q = r
  BY DEF Digest

\* The answer to a request is taken for another's exactly if they were the
\* same on the wire.
LEMMA AnswersMatch ==
  ASSUME NEW roots
  PROVE  AnswersAreMatched(roots)
<1> SUFFICES ASSUME NEW asked \in Requests(roots), NEW answered \in Requests(roots), NEW reply,
                    reply = Reply(Built(answered).sent, 0)
             PROVE  LET Taken(with) == Anchored("tsa", asked.alg, asked.root, Built(asked), with) # Refused
                    IN /\ Taken(reply) <=> Built(asked).sent = Built(answered).sent
                       /\ ~Taken(NoReply)
                       /\ ~Taken([reply EXCEPT !.status = 2])
                       /\ ~Taken([reply EXCEPT !.token.signed = FALSE])
  BY Zenon DEF AnswersAreMatched
<1> DEFINE Taken(with) == Anchored("tsa", asked.alg, asked.root, Built(asked), with) # Refused
<1>1. \A with : Taken(with) <=>
        /\ Granted(with) /\ with.token.signed
        /\ Binds(with.token, Digest(asked.alg, asked.root), asked.alg)
        /\ Echoes(with.token, Built(asked).nonce)
  BY WhatIsStored
<1> HIDE DEF Taken
<1>2. Taken(reply) <=> Built(asked).sent = Built(answered).sent
  <2>1. Taken(reply) <=>
          /\ Built(answered).sent.alg = asked.alg
          /\ Built(answered).sent.imprint = Digest(asked.alg, asked.root)
          /\ Built(answered).sent.nonce = Built(asked).nonce
    <3>0. PICK sent : sent = Built(answered).sent
      OBVIOUS
    <3>1. Built(answered).sent.nonce \in Nat
      <4>1. /\ sent = [imprint |-> Digest(answered.alg, answered.root), alg |-> answered.alg,
                       nonce |-> answered.drawn % HalfRange]
            /\ answered.drawn % HalfRange \in Nat
        BY <3>0, WhatIsSent
      <4> QED BY <3>0, <4>1
    <3>2. /\ Granted(reply) /\ reply.token.signed = TRUE
          /\ reply.token.alg = Built(answered).sent.alg
          /\ reply.token.imprint = Built(answered).sent.imprint
          /\ reply.token.nonce = Built(answered).sent.nonce
      <4>1. reply = Reply(sent, 0)
        BY <3>0
      <4>2. /\ Granted(Reply(sent, 0)) /\ Reply(sent, 0).token.signed = TRUE
            /\ Reply(sent, 0).token.alg = sent.alg /\ Reply(sent, 0).token.imprint = sent.imprint
            /\ Reply(sent, 0).token.nonce = sent.nonce
        BY WhatIsReplied
      <4> QED BY <3>0, <4>1, <4>2
    <3>3. Echoes(reply.token, Built(asked).nonce)
            <=> Built(answered).sent.nonce = Built(asked).nonce
      BY <3>1, <3>2 DEF Echoes, Absent
    <3>4. Binds(reply.token, Digest(asked.alg, asked.root), asked.alg)
            <=> /\ Built(answered).sent.alg = asked.alg
                /\ Built(answered).sent.imprint = Digest(asked.alg, asked.root)
      BY <3>2 DEF Binds
    <3> QED BY <1>1, <3>2, <3>3, <3>4
  <2>2. PICK ask : ask = Built(asked).sent
    OBVIOUS
  <2>3. PICK answer : answer = Built(answered).sent
    OBVIOUS
  <2>4. /\ ask = [imprint |-> Digest(asked.alg, asked.root), alg |-> asked.alg,
                  nonce |-> asked.drawn % HalfRange]
        /\ answer = [imprint |-> Digest(answered.alg, answered.root), alg |-> answered.alg,
                     nonce |-> answered.drawn % HalfRange]
        /\ Built(asked).nonce = asked.drawn % HalfRange
    BY <2>2, <2>3, WhatIsSent
  <2>5. ask = answer <=> /\ answer.alg = asked.alg
                         /\ answer.imprint = Digest(asked.alg, asked.root)
                         /\ answer.nonce = Built(asked).nonce
    BY <2>4
  <2> QED BY <2>1, <2>2, <2>3, <2>5
<1>3. ~Taken(NoReply)
  BY <1>1 DEF NoReply, Granted
<1>4. ~Taken([reply EXCEPT !.status = 2])
  BY <1>1 DEF Granted, Reply
<1>5. ~Taken([reply EXCEPT !.token.signed = FALSE])
  BY <1>1 DEF Reply
<1> QED BY <1>2, <1>3, <1>4, <1>5 DEF Taken

\* What is stored of the answer to a request.
LEMMA AnswersAreStored ==
  ASSUME NEW roots, NEW r \in Requests(roots), NEW tsa, NEW at, NEW a,
         a = Anchored(tsa, r.alg, r.root, Built(r), Reply(Built(r).sent, at))
  PROVE  /\ a # Refused
         /\ a.backend = "rfc3161" /\ a.tsa = tsa /\ a.root = r.root /\ a.alg = r.alg
         /\ a.genTime = at
         /\ a.token = [alg |-> r.alg, imprint |-> Digest(r.alg, r.root),
                       nonce |-> r.drawn % HalfRange, genTime |-> at, signed |-> TRUE]
         /\ a = [backend |-> "rfc3161", tsa |-> tsa, root |-> r.root, alg |-> r.alg,
                 token |-> a.token, genTime |-> at]
<1>1. PICK sent : sent = Built(r).sent
  OBVIOUS
<1>2. /\ sent = [imprint |-> Digest(r.alg, r.root), alg |-> r.alg, nonce |-> r.drawn % HalfRange]
      /\ r.drawn % HalfRange \in Nat /\ Built(r).nonce = r.drawn % HalfRange
  BY <1>1, WhatIsSent
<1>3. PICK reply : reply = Reply(sent, at)
  OBVIOUS
<1>4. /\ Granted(reply) /\ reply.token.signed = TRUE
      /\ reply.token.alg = r.alg /\ reply.token.imprint = Digest(r.alg, r.root)
      /\ reply.token.nonce = r.drawn % HalfRange /\ reply.token.genTime = at
  <2>1. /\ Granted(Reply(sent, at)) /\ Reply(sent, at).token.signed = TRUE
        /\ Reply(sent, at).token.alg = sent.alg /\ Reply(sent, at).token.imprint = sent.imprint
        /\ Reply(sent, at).token.nonce = sent.nonce /\ Reply(sent, at).token.genTime = at
    BY WhatIsReplied
  <2>2. sent.alg = r.alg /\ sent.imprint = Digest(r.alg, r.root) /\ sent.nonce = r.drawn % HalfRange
    BY <1>2
  <2> QED BY <1>3, <2>1, <2>2
<1>5. reply.token = [alg |-> r.alg, imprint |-> Digest(r.alg, r.root),
                     nonce |-> r.drawn % HalfRange, genTime |-> at, signed |-> TRUE]
  BY <1>2, <1>3 DEF Reply
<1>6. Binds(reply.token, Digest(r.alg, r.root), r.alg)
  BY <1>4 DEF Binds
<1>7. Echoes(reply.token, Built(r).nonce)
  BY <1>2, <1>4 DEF Echoes, Absent
<1>8. a = Anchored(tsa, r.alg, r.root, Built(r), reply)
  BY <1>1, <1>3
<1>9. a # Refused
  BY <1>4, <1>6, <1>7, <1>8, WhatIsStored
<1>10. a = [backend |-> "rfc3161", tsa |-> tsa, root |-> r.root, alg |-> r.alg,
            token |-> reply.token, genTime |-> reply.token.genTime]
  BY <1>8, <1>9, WhatIsStored
<1> QED BY <1>4, <1>5, <1>9, <1>10

\* What was stored verifies, and ceases to when a part of it is replaced.
LEMMA StoredVerify ==
  ASSUME NEW roots, NEW times
  PROVE  StoredAnchorsVerify(roots, times)
<1> SUFFICES ASSUME NEW a \in StoredAnchors(roots, times), NEW b \in StoredAnchors(roots, times)
             PROVE  /\ Verifies(a, a.root)
                    /\ \A root \in roots \ {a.root} : ~Verifies(a, root)
                    /\ a.root # b.root => ~Verifies([a EXCEPT !.root = b.root], b.root)
                    /\ a.alg # b.alg => ~Verifies([a EXCEPT !.alg = b.alg], a.root)
                    /\ a.genTime # b.genTime => ~Verifies([a EXCEPT !.genTime = b.genTime], a.root)
                    /\ Verifies([a EXCEPT !.token = b.token], a.root) =>
                         b.root = a.root /\ b.genTime = a.genTime
  BY Zenon DEF StoredAnchorsVerify
<1>a. PICK q \in Requests(roots), at \in times :
        a = Anchored("tsa", q.alg, q.root, Built(q), Reply(Built(q).sent, at))
  BY DEF StoredAnchors
<1>b. PICK r \in Requests(roots), then \in times :
        b = Anchored("tsa", r.alg, r.root, Built(r), Reply(Built(r).sent, then))
  BY DEF StoredAnchors
<1>1. /\ a.backend = "rfc3161" /\ a.tsa = "tsa" /\ a.root = q.root /\ a.alg = q.alg
      /\ a.genTime = at
      /\ a.token = [alg |-> q.alg, imprint |-> Digest(q.alg, q.root),
                    nonce |-> q.drawn % HalfRange, genTime |-> at, signed |-> TRUE]
      /\ a = [backend |-> "rfc3161", tsa |-> "tsa", root |-> q.root, alg |-> q.alg,
              token |-> a.token, genTime |-> at]
  BY <1>a, AnswersAreStored
<1>2. /\ b.root = r.root /\ b.alg = r.alg /\ b.genTime = then
      /\ b.token = [alg |-> r.alg, imprint |-> Digest(r.alg, r.root),
                    nonce |-> r.drawn % HalfRange, genTime |-> then, signed |-> TRUE]
  BY <1>b, AnswersAreStored
<1>3. Verifies(a, a.root)
  BY <1>1 DEF Verifies, Binds
<1>4. \A root : root # a.root => ~Verifies(a, root)
  BY DEF Verifies
<1>5. a.root # b.root => ~Verifies([a EXCEPT !.root = b.root], b.root)
  <2>1. PICK x : x = [a EXCEPT !.root = b.root]
    OBVIOUS
  <2>2. x.token.imprint = Digest(q.alg, q.root) /\ x.alg = q.alg
    BY <1>1, <2>1
  <2> QED BY <1>1, <2>1, <2>2, DigestsDiffer DEF Verifies, Binds
<1>6. a.alg # b.alg => ~Verifies([a EXCEPT !.alg = b.alg], a.root)
  <2>1. PICK x : x = [a EXCEPT !.alg = b.alg]
    OBVIOUS
  <2>2. x.token.alg = q.alg /\ x.alg = b.alg
    BY <1>1, <2>1
  <2> QED BY <1>1, <2>1, <2>2 DEF Verifies, Binds
<1>7. a.genTime # b.genTime => ~Verifies([a EXCEPT !.genTime = b.genTime], a.root)
  <2>1. PICK x : x = [a EXCEPT !.genTime = b.genTime]
    OBVIOUS
  <2>2. x.token.genTime = at /\ x.genTime = b.genTime
    BY <1>1, <2>1
  <2> QED BY <1>1, <2>1, <2>2 DEF Verifies
<1>8. Verifies([a EXCEPT !.token = b.token], a.root) => b.root = a.root /\ b.genTime = a.genTime
  <2>1. PICK x : x = [a EXCEPT !.token = b.token]
    OBVIOUS
  <2>2. /\ x.token.imprint = Digest(r.alg, r.root) /\ x.alg = q.alg
        /\ x.token.genTime = then /\ x.genTime = at
    BY <1>1, <1>2, <2>1
  <2> QED BY <1>1, <1>2, <2>1, <2>2, DigestsDiffer DEF Verifies, Binds
<1> QED BY <1>3, <1>4, <1>5, <1>6, <1>7, <1>8

\* The request that is sent to every TSA.
FirstRequest(root) == [alg |-> "sha256", root |-> root, drawn |-> 1]

LEMMA FirstRequestIsDrawn ==
  ASSUME NEW root
  PROVE  FirstRequest(root) \in Requests({root})
<1>1. 1 \in 0..(2 * HalfRange - 1)
  BY HalfRangeAssumption
<1>2. "sha256" \in Algorithms
  BY DEF Algorithms
<1> QED BY <1>1, <1>2 DEF FirstRequest, Requests

\* The anchor of a root that a TSA signed at a time.
IsAnchorOf(a, tsa, root, at) ==
  /\ a.backend = "rfc3161" /\ a.tsa = tsa /\ a.root = root /\ a.alg = "sha256"
  /\ a.genTime = at /\ a.token.signed = TRUE /\ a.token.alg = "sha256"
  /\ a.token.imprint = Digest("sha256", root) /\ a.token.genTime = at

\* A TSA's answer is stored, and only silence is not.
LEMMA OutcomeOfEach ==
  ASSUME NEW tsas, NEW answering, NEW root, NEW times, NEW tsa \in tsas
  PROVE  /\ Outcomes(tsas, answering, root, times)[tsa] # Refused <=> tsa \in answering
         /\ tsa \in answering =>
              IsAnchorOf(Outcomes(tsas, answering, root, times)[tsa], tsa, root, times[tsa])
<1>0. PICK a : a = Outcomes(tsas, answering, root, times)[tsa]
  OBVIOUS
<1>1. PICK r : r = FirstRequest(root)
  OBVIOUS
<1>2. r \in Requests({root}) /\ r.alg = "sha256" /\ r.root = root
  BY <1>1, FirstRequestIsDrawn DEF FirstRequest
<1>3. a = Anchored(tsa, r.alg, r.root, Built(r),
                   IF tsa \in answering THEN Reply(Built(r).sent, times[tsa]) ELSE NoReply)
  BY <1>0, <1>1, <1>2 DEF Outcomes, FirstRequest
<1>4. CASE tsa \in answering
  <2>1. a = Anchored(tsa, r.alg, r.root, Built(r), Reply(Built(r).sent, times[tsa]))
    BY <1>3, <1>4
  <2>2. /\ a # Refused
        /\ a.backend = "rfc3161" /\ a.tsa = tsa /\ a.root = r.root /\ a.alg = r.alg
        /\ a.genTime = times[tsa]
        /\ a.token = [alg |-> r.alg, imprint |-> Digest(r.alg, r.root),
                      nonce |-> r.drawn % HalfRange, genTime |-> times[tsa], signed |-> TRUE]
    BY <1>2, <2>1, AnswersAreStored
  <2> QED BY <1>0, <1>2, <1>4, <2>2 DEF IsAnchorOf
<1>5. CASE tsa \notin answering
  <2>1. a = Anchored(tsa, r.alg, r.root, Built(r), NoReply)
    BY <1>3, <1>5
  <2>2. ~Granted(NoReply)
    BY DEF Granted, NoReply
  <2> QED BY <1>0, <1>5, <2>1, <2>2, WhatIsStored
<1> QED BY <1>4, <1>5

\* What the verifier finds wrong with the anchor of an answering TSA.
LEMMA FindingOnAnswer ==
  ASSUME NEW a, NEW cp, NEW tsas, a.tsa \in tsas, Verifies(a, cp.root), NEW ts \in Int, NEW skew \in Int,
         cp.ts = ts, a.genTime = ts + skew
  PROVE  /\ FindingOn(a, cp, tsas) \in {"none", "ANCHOR_LATE", "ANCHOR_PREDATES_CHECKPOINT"}
         /\ FindingOn(a, cp, tsas) = "none" <=> skew >= -60 /\ skew <= 24 * 60 * 60
<1>1. a.genTime - cp.ts = skew
  OBVIOUS
<1>2. FindingOn(a, cp, tsas) = IF skew < -60 THEN "ANCHOR_PREDATES_CHECKPOINT"
                               ELSE IF skew > 24 * 60 * 60 THEN "ANCHOR_LATE" ELSE "none"
  BY <1>1 DEF FindingOn
<1> QED BY <1>2

LEMMA AnchoringSuffices ==
  ASSUME NEW tsas, IsFiniteSet(tsas), NEW roots, NEW ts \in Int, NEW skews, skews \subseteq Int
  PROVE  AnchoringIsEnough(tsas, roots, ts, skews)
<1> SUFFICES ASSUME NEW root \in roots, NEW answering \in SUBSET tsas, NEW skew \in [tsas -> skews],
                    NEW min \in 1..Cardinality(tsas)
             PROVE  IsEnough(tsas, answering, root, ts, skew, min)
  BY Zenon DEF AnchoringIsEnough
<1>a. PICK times : times = [tsa \in tsas |-> ts + skew[tsa]]
  OBVIOUS
<1>b. PICK outcome : outcome = Outcomes(tsas, answering, root, times)
  OBVIOUS
<1>c. PICK result : result = AnchorToAll(outcome, min)
  OBVIOUS
<1>d. PICK cp : cp = [root |-> root, ts |-> ts]
  OBVIOUS
<1>2. DOMAIN outcome = tsas
  BY <1>b DEF Outcomes
<1>3. \A tsa \in tsas :
        /\ outcome[tsa] # Refused <=> tsa \in answering
        /\ tsa \in answering => IsAnchorOf(outcome[tsa], tsa, root, times[tsa])
  <2>1. \A tsa \in tsas :
          /\ Outcomes(tsas, answering, root, times)[tsa] # Refused <=> tsa \in answering
          /\ tsa \in answering =>
               IsAnchorOf(Outcomes(tsas, answering, root, times)[tsa], tsa, root, times[tsa])
    BY OutcomeOfEach
  <2> QED BY <1>b, <2>1
<1>4. {i \in DOMAIN outcome : outcome[i] # Refused} = answering
  <2>1. \A tsa \in tsas : outcome[tsa] # Refused <=> tsa \in answering
    BY <1>3
  <2>2. answering \subseteq tsas
    OBVIOUS
  <2> QED BY <1>2, <2>1, <2>2, Zenon
<1>5. Cardinality(answering) \in Nat /\ min \in Nat
  <2>1. IsFiniteSet(answering)
    BY FS_Subset
  <2>2. Cardinality(answering) \in Nat /\ Cardinality(tsas) \in Nat
    BY <2>1, FS_CardinalityType
  <2> QED BY <2>2
<1>6. result = IF Cardinality(answering) < min
                 THEN [ok |-> FALSE, anchors |-> {}]
                 ELSE [ok |-> TRUE, anchors |-> {outcome[i] : i \in answering}]
  BY <1>c, <1>4 DEF AnchorToAll
<1>7. result.ok <=> Cardinality(answering) >= min
  BY <1>5, <1>6
<1>8. ASSUME result.ok
      PROVE  /\ AnchoringMeets(result.anchors, min)
             /\ \A a \in result.anchors :
                  /\ FindingOn(a, cp, tsas) \in {"none", "ANCHOR_LATE", "ANCHOR_PREDATES_CHECKPOINT"}
                  /\ FindingOn(a, cp, tsas) = "none"
                       <=> skew[a.tsa] >= -60 /\ skew[a.tsa] <= 24 * 60 * 60
  <2>1. result.anchors = {outcome[i] : i \in answering}
    BY <1>6, <1>8
  <2>2. \A tsa \in answering : outcome[tsa].tsa = tsa
    BY <1>3 DEF IsAnchorOf
  <2>3. {a.tsa : a \in result.anchors} = answering
    BY <2>1, <2>2
  <2>4. AnchoringMeets(result.anchors, min)
    BY <1>7, <1>8, <2>3 DEF AnchoringMeets
  <2>5. ASSUME NEW a \in result.anchors
        PROVE  /\ FindingOn(a, cp, tsas) \in {"none", "ANCHOR_LATE", "ANCHOR_PREDATES_CHECKPOINT"}
               /\ FindingOn(a, cp, tsas) = "none"
                    <=> skew[a.tsa] >= -60 /\ skew[a.tsa] <= 24 * 60 * 60
    <3>1. PICK tsa \in answering : a = outcome[tsa]
      BY <2>1
    <3>2. /\ a.backend = "rfc3161" /\ a.tsa = tsa /\ a.root = root /\ a.alg = "sha256"
          /\ a.genTime = times[tsa] /\ a.token.signed = TRUE /\ a.token.alg = "sha256"
          /\ a.token.imprint = Digest("sha256", root) /\ a.token.genTime = times[tsa]
      BY <1>3, <3>1 DEF IsAnchorOf
    <3>3. PICK s \in Int : s = skew[tsa]
      OBVIOUS
    <3>4. a.genTime = ts + s
      BY <1>a, <3>2, <3>3
    <3>5. Verifies(a, cp.root) /\ cp.ts = ts
      BY <1>d, <3>2 DEF Verifies, Binds
    <3>6. a.tsa \in tsas /\ s = skew[a.tsa]
      BY <3>2, <3>3
    <3>7. /\ FindingOn(a, cp, tsas) \in {"none", "ANCHOR_LATE", "ANCHOR_PREDATES_CHECKPOINT"}
          /\ FindingOn(a, cp, tsas) = "none" <=> s >= -60 /\ s <= 24 * 60 * 60
      BY <3>4, <3>5, <3>6, FindingOnAnswer
    <3> QED BY <3>6, <3>7
  <2> QED BY <2>4, <2>5
<1>9. result = AnchorToAll(Outcomes(tsas, answering, root, [tsa \in tsas |-> ts + skew[tsa]]), min)
  BY <1>a, <1>b, <1>c
<1> QED BY <1>7, <1>8, <1>9, <1>d, Zenon DEF IsEnough

LEMMA InvAnchorsVerify == ShapeInv => AnchorsVerify
<1> SUFFICES ASSUME now \in 0..MaxTime PROVE AnchorsVerify
  BY DEF ShapeInv
<1>1. AnswersAreMatched(Roots) /\ StoredAnchorsVerify(Roots, {now, now + 1})
  BY AnswersMatch, StoredVerify
<1>2. IsFiniteSet(Tsas)
  <2>1. IsFiniteSet({"tsa3"})
    BY FS_Singleton
  <2>2. IsFiniteSet({"tsa3"} \cup {"tsa2"})
    BY <2>1, FS_AddElement
  <2>3. IsFiniteSet(({"tsa3"} \cup {"tsa2"}) \cup {"tsa1"})
    BY <2>2, FS_AddElement
  <2>4. ({"tsa3"} \cup {"tsa2"}) \cup {"tsa1"} = Tsas
    BY DEF Tsas
  <2> QED BY <2>3, <2>4
<1>3. Skews \subseteq Int /\ now \in Int
  BY ExamAssumption DEF Skews
<1>4. AnchoringIsEnough(Tsas, {"root"}, now, Skews)
  BY <1>2, <1>3, AnchoringSuffices
<1> QED BY <1>1, <1>4 DEF AnchorsVerify, AnchoredTimes

(* A checkpoint can be anchored at any time of the exam: an answer is taken *)
(* for its own request only, what is stored verifies for its own root only, *)
(* and what anchorToAll returns satisfies the audit (rfc3161.ts, anchor.ts, *)
(* verifyAnchors).  The lemmas say the same of any roots, times and TSAs.   *)
THEOREM CheckpointsCanBeAnchored == Spec => []AnchorsVerify
  BY ShapeInvariant, InvAnchorsVerify, PTL

LEMMA InvInclusionProofsAreExact == InclusionProofsAreExact
<1> SUFFICES ASSUME NEW n \in 1..MaxTree PROVE n \in ExactSizes
  BY Zenon DEF InclusionProofsAreExact
<1>1. n \in Nat /\ n >= 1
  BY MaxTreeAssumption
<1>2. ProofsAreExact(n)
  BY <1>1, ProofsAreExactForEverySize
<1> QED BY <1>2 DEF ExactSizes

(* The inclusion proofs of the logs are exact at every time of the exam.    *)
THEOREM EntriesCanBeProved == Spec => []InclusionProofsAreExact
<1>1. InclusionProofsAreExact
  BY InvInclusionProofsAreExact
<1> QED BY <1>1, PTL

-----------------------------------------------------------------------------
(* Numbers and loops.                                                      *)

\* What the rounds of a loop keep up, holds after each of them.
LEMMA EveryRound ==
  ASSUME NEW n \in Nat, NEW S, 0 \in S, \A k \in 1..n : k - 1 \in S => k \in S
  PROVE  \A k \in 0..n : k \in S
<1> DEFINE G == {k \in Nat : k <= n => k \in S}
<1>1. ASSUME NEW m \in Nat, \A j \in Nat : j < m => j \in G PROVE m \in G
  <2>1. CASE m = 0
    BY <2>1
  <2>2. CASE m > 0 /\ m <= n
    <3>1. m \in 1..n /\ m - 1 \in Nat /\ m - 1 < m
      BY <2>2
    <3> QED BY <1>1, <3>1
  <2>3. CASE m > n
    BY <2>3
  <2> QED BY <2>1, <2>2, <2>3
<1>2. \A m \in Nat : m \in G
  <2> HIDE DEF G
  <2> QED BY <1>1, CompleteInduction
<1> QED BY <1>2

\* A loop of n rounds, each of which makes a new value of the one before.
Rounds(f, first, step, n) ==
  f = [k \in 0..n |-> IF k = 0 THEN first ELSE step[k][f[k - 1]]]

\* The values after k rounds are in S[k].
LEMMA LoopHasRounds ==
  ASSUME NEW n \in Nat, NEW S, NEW first \in S[0], NEW step,
         \A k \in 1..n : step[k] \in [S[k - 1] -> S[k]]
  PROVE  \E f : Rounds(f, first, step, n) /\ \A k \in 0..n : f[k] \in S[k]
<1> DEFINE G == {m \in Nat : \E f : Rounds(f, first, step, m) /\ \A k \in 0..m : f[k] \in S[k]}
<1>1. 0 \in G
  <2>1. PICK f : f = [k \in 0..0 |-> first]
    OBVIOUS
  <2>2. Rounds(f, first, step, 0) /\ \A k \in 0..0 : f[k] \in S[k]
    BY <2>1 DEF Rounds
  <2> QED BY <2>2
<1>2. ASSUME NEW l \in 1..n, l - 1 \in G PROVE l \in G
  <2>1. PICK m \in Nat : m = l - 1 /\ l = m + 1
    OBVIOUS
  <2>2. PICK f : Rounds(f, first, step, m) /\ \A k \in 0..m : f[k] \in S[k]
    BY <1>2, <2>1
  <2>3. PICK g : g = [k \in 0..(m + 1) |-> IF k = m + 1 THEN step[m + 1][f[m]] ELSE f[k]]
    OBVIOUS
  <2>4. step[m + 1] \in [S[m] -> S[m + 1]] /\ f[m] \in S[m]
    BY <2>1, <2>2
  <2>5. \A k \in 0..(m + 1) : g[k] = IF k = 0 THEN first ELSE step[k][g[k - 1]]
    <3> TAKE k \in 0..(m + 1)
    <3>1. CASE k = m + 1
      BY <2>3, <3>1
    <3>2. CASE k # m + 1
      <4>1. k \in 0..m /\ g[k] = f[k] /\ (k # 0 => g[k - 1] = f[k - 1])
        BY <2>3, <3>2
      <4>2. f[k] = IF k = 0 THEN first ELSE step[k][f[k - 1]]
        BY <2>2, <4>1 DEF Rounds
      <4> QED BY <4>1, <4>2
    <3> QED BY <3>1, <3>2
  <2>6. Rounds(g, first, step, m + 1)
    BY <2>3, <2>5 DEF Rounds
  <2>7. \A k \in 0..(m + 1) : g[k] \in S[k]
    <3> TAKE k \in 0..(m + 1)
    <3>1. CASE k = m + 1
      BY <2>3, <2>4, <3>1
    <3>2. CASE k # m + 1
      BY <2>2, <2>3, <3>2
    <3> QED BY <3>1, <3>2
  <2> QED BY <2>1, <2>6, <2>7
<1>3. \A k \in 0..n : k \in G
  <2> HIDE DEF G
  <2> QED BY <1>1, <1>2, EveryRound
<1> QED BY <1>3

\* The quotient and the remainder are the only numbers with which this holds.
LEMMA Quotients ==
  ASSUME NEW n \in Nat, n >= 1
  PROVE  /\ \A w \in Nat : /\ w \div n \in Nat /\ w % n \in 0..(n - 1)
                           /\ w = n * (w \div n) + (w % n)
         /\ \A q \in Nat, b \in 0..(n - 1) : (n * q + b) % n = b
<1>1. \A w \in Nat : /\ w \div n \in Nat /\ w % n \in 0..(n - 1)
                     /\ w = n * (w \div n) + (w % n)
  OBVIOUS
<1>2. ASSUME NEW q \in Nat, NEW b \in 0..(n - 1)
      PROVE  (n * q + b) % n = b
  <2>1. PICK w \in Nat : w = n * q + b
    <3>1. n * q \in Nat
      OBVIOUS
    <3> QED BY <3>1
  <2>2. PICK d \in Nat, r \in 0..(n - 1) : r = w % n /\ n * q + b = n * d + r
    BY <1>1, <2>1
  <2>3. n * q \in Nat /\ n * d \in Nat
    OBVIOUS
  <2>4. ASSUME q > d PROVE FALSE
    <3>1. PICK e \in Nat : q = d + 1 + e
      <4>1. q - d - 1 \in Nat /\ q = d + 1 + (q - d - 1)
        BY <2>4
      <4> QED BY <4>1
    <3>2. n * q = n * d + n + n * e /\ n * e \in Nat
      BY <3>1
    <3> QED BY <2>2, <2>3, <3>2
  <2>5. ASSUME d > q PROVE FALSE
    <3>1. PICK e \in Nat : d = q + 1 + e
      <4>1. d - q - 1 \in Nat /\ d = q + 1 + (d - q - 1)
        BY <2>5
      <4> QED BY <4>1
    <3>2. n * d = n * q + n + n * e /\ n * e \in Nat
      BY <3>1
    <3> QED BY <2>2, <2>3, <3>2
  <2>6. q = d
    BY <2>4, <2>5
  <2> QED BY <2>1, <2>2, <2>3, <2>6
<1> QED BY <1>1, <1>2

-----------------------------------------------------------------------------
(* The numbers of a stream.                                                *)

LEMMA Words32 ==
  ASSUME NEW m \in Nat, NEW stream \in Streams(m)
  PROVE  Len(stream) = m /\ DOMAIN stream = 1..m /\ \A i \in 1..m : stream[i] \in 0..(Words - 1)
BY WordsAssumption DEF Streams

LEMMA NextIsFirst ==
  ASSUME NEW m \in Nat, NEW stream \in Streams(m), NEW used \in 0..(m + 1),
         NEW n \in Nat, n # 1
  PROVE  LET u == NextBelow(stream, used, n)
         IN /\ u \in (used + 1)..m \/ u = m + 1
            /\ u <= m => u \in Accepted(stream, used, n)
            /\ u = m + 1 => Accepted(stream, used, n) = {}
            /\ \A j \in Accepted(stream, used, n) :
                 /\ u <= j
                 /\ (\A l \in Accepted(stream, used, n) : j <= l) => u = j
<1> DEFINE A == Accepted(stream, used, n)
<1>1. Len(stream) = m /\ A \subseteq (used + 1)..m /\ A \subseteq Nat
  BY Words32 DEF Accepted
<1>2. PICK i \in A \union {m + 1} : \A j \in A : i <= j
  <2>1. CASE A = {}
    BY <2>1
  <2>2. CASE A # {}
    <3> HIDE DEF A
    <3> QED BY <1>1, <2>2, LeastNatural
  <2> QED BY <2>1, <2>2
<1>3. PICK u : u = NextBelow(stream, used, n)
  OBVIOUS
<1> HIDE DEF A
<1>4. u \in A \union {m + 1} /\ \A j \in A : u <= j
  <2>1. u = CHOOSE l \in A \union {m + 1} : \A j \in A : l <= j
    BY <1>1, <1>3 DEF NextBelow, A
  <2> QED BY <1>2, <2>1
<1>5. u \in Nat /\ \A j \in A : j \in (used + 1)..m
  BY <1>1, <1>4
<1>6. \A j \in A : (\A l \in A : j <= l) => u = j
  BY <1>1, <1>4, <1>5
<1>7. u = m + 1 => A = {}
  BY <1>1, <1>4
<1>8. (u \in (used + 1)..m \/ u = m + 1) /\ (u <= m => u \in A)
  BY <1>1, <1>4, <1>5
<1> QED BY <1>3, <1>4, <1>6, <1>7, <1>8 DEF A

LEMMA NextOfOne ==
  ASSUME NEW stream, NEW used PROVE NextBelow(stream, used, 1) = used
BY DEF NextBelow

LEMMA NextIsTyped ==
  ASSUME NEW m \in Nat, NEW stream \in Streams(m), NEW used \in 0..(m + 1), NEW n \in Nat
  PROVE  /\ NextBelow(stream, used, n) \in 0..(m + 1)
         /\ used <= NextBelow(stream, used, n)
<1>1. CASE n = 1
  BY <1>1, NextOfOne
<1>2. CASE n # 1
  <2>1. PICK u : u = NextBelow(stream, used, n)
    OBVIOUS
  <2>2. u \in (used + 1)..m \/ u = m + 1
    BY <1>2, <2>1, NextIsFirst
  <2> QED BY <2>1, <2>2
<1> QED BY <1>1, <1>2

\* The words used after each round are as far as the draws have come.
AreUses(u, m, stream, used, L, bounds) ==
  /\ u[0] = used
  /\ \A r \in 0..L : u[r] \in 0..(m + 1)
  /\ \A r \in 1..L : u[r] = NextBelow(stream, u[r - 1], bounds[r])

LEMMA UsesAre ==
  ASSUME NEW m \in Nat, NEW stream \in Streams(m), NEW used \in 0..(m + 1),
         NEW L \in Nat, NEW bounds \in [1..L -> Nat]
  PROVE  AreUses(Uses(stream, used, bounds), m, stream, used, L, bounds)
<1>1. Len(bounds) = L
  OBVIOUS
<1> DEFINE S == [k \in Nat |-> 0..(m + 1)]
           step == [k \in 1..L |-> [v \in 0..(m + 1) |-> NextBelow(stream, v, bounds[k])]]
<1>2. \A k \in 1..L : step[k] \in [S[k - 1] -> S[k]]
  <2> TAKE k \in 1..L
  <2>1. bounds[k] \in Nat /\ k - 1 \in Nat /\ k \in Nat
    OBVIOUS
  <2>2. \A v \in 0..(m + 1) : NextBelow(stream, v, bounds[k]) \in 0..(m + 1)
    BY <2>1, NextIsTyped
  <2> QED BY <2>1, <2>2
<1>3. PICK p : Rounds(p, used, step, L) /\ \A k \in 0..L : p[k] \in 0..(m + 1)
  <2>1. used \in S[0]
    OBVIOUS
  <2>2. PICK p : Rounds(p, used, step, L) /\ \A k \in 0..L : p[k] \in S[k]
    <3> HIDE DEF S, step
    <3> QED BY <1>2, <2>1, LoopHasRounds, Zenon
  <2>3. \A k \in 0..L : S[k] = 0..(m + 1)
    OBVIOUS
  <2> HIDE DEF S, step
  <2> QED BY <2>2, <2>3
<1> DEFINE Loop(f) ==
      f = [r \in 0..Len(bounds) |->
             IF r = 0 THEN used ELSE NextBelow(stream, f[r - 1], bounds[r])]
<1>4. Loop(p)
  <2>1. ASSUME NEW k \in 0..L
        PROVE  (IF k = 0 THEN used ELSE step[k][p[k - 1]]) =
               (IF k = 0 THEN used ELSE NextBelow(stream, p[k - 1], bounds[k]))
    <3>1. CASE k = 0
      BY <3>1
    <3>2. CASE k # 0
      <4>1. k \in 1..L /\ k - 1 \in 0..L /\ p[k - 1] \in 0..(m + 1)
        BY <1>3, <3>2
      <4> QED BY <3>2, <4>1
    <3> QED BY <3>1, <3>2
  <2>2. p = [k \in 0..L |-> IF k = 0 THEN used ELSE step[k][p[k - 1]]]
    BY <1>3 DEF Rounds
  <2> HIDE DEF step
  <2>3. p = [k \in 0..L |-> IF k = 0 THEN used ELSE NextBelow(stream, p[k - 1], bounds[k])]
    BY <2>1, <2>2
  <2> QED BY <1>1, <2>3
<1>5. PICK q : q = Uses(stream, used, bounds) /\ Loop(q)
  <2>1. Uses(stream, used, bounds) = CHOOSE f : Loop(f)
    BY Zenon DEF Uses
  <2> HIDE DEF Loop
  <2> QED BY <1>4, <2>1
<1>6. q[0] = used /\ \A r \in 1..L : q[r] = NextBelow(stream, q[r - 1], bounds[r])
  BY <1>1, <1>5
<1> DEFINE G == {k \in 0..L : q[k] \in 0..(m + 1)}
<1>7. 0 \in G
  BY <1>6
<1>8. ASSUME NEW k \in 1..L, k - 1 \in G PROVE k \in G
  <2>1. PICK v \in 0..(m + 1), n \in Nat : v = q[k - 1] /\ n = bounds[k]
    BY <1>8
  <2>2. NextBelow(stream, v, n) \in 0..(m + 1)
    BY NextIsTyped
  <2> QED BY <1>6, <2>1, <2>2
<1>9. \A k \in 0..L : k \in G
  <2> HIDE DEF G
  <2> QED BY <1>7, <1>8, EveryRound
<1> QED BY <1>5, <1>6, <1>9 DEF AreUses

\* What a draw uses comes after what the ones before it used.
Grows(u, m, L, bounds) ==
  /\ \A r \in 0..L : \A q \in r..L : u[r] <= u[q]
  /\ \A r \in 1..L : bounds[r] # 1 =>
       /\ u[r] \in 1..(m + 1)
       /\ \A q \in 0..(r - 1) : u[r] <= m => u[q] < u[r]

LEMMA UsesGrow ==
  ASSUME NEW m \in Nat, NEW stream \in Streams(m), NEW used \in 0..(m + 1),
         NEW L \in Nat, NEW bounds \in [1..L -> Nat]
  PROVE  Grows(Uses(stream, used, bounds), m, L, bounds)
<1>0. PICK u : u = Uses(stream, used, bounds)
  OBVIOUS
<1>1. /\ \A r \in 0..L : u[r] \in 0..(m + 1)
      /\ \A r \in 1..L : u[r] = NextBelow(stream, u[r - 1], bounds[r])
  <2>1. AreUses(u, m, stream, used, L, bounds)
    BY <1>0, UsesAre
  <2> QED BY <2>1 DEF AreUses
<1>2. ASSUME NEW r \in 0..L PROVE \A q \in r..L : u[r] <= u[q]
  <2> DEFINE G == {q \in 0..L : q >= r => u[r] <= u[q]}
  <2>1. 0 \in G
    <3>1. 0 >= r => r = 0
      OBVIOUS
    <3> QED BY <1>1, <3>1
  <2>2. ASSUME NEW q \in 1..L, q - 1 \in G PROVE q \in G
    <3>1. q \in 0..L /\ q - 1 \in 0..L /\ bounds[q] \in Nat
      OBVIOUS
    <3>2. u[q - 1] <= u[q]
      BY <1>1, <3>1, NextIsTyped
    <3>3. CASE q = r
      BY <1>1, <3>1, <3>3
    <3>4. CASE q # r
      <4>1. q >= r => u[r] <= u[q - 1]
        BY <2>2, <3>4
      <4> QED BY <1>1, <3>1, <3>2, <4>1
    <3> QED BY <3>3, <3>4
  <2>3. \A q \in 0..L : q \in G
    <3> HIDE DEF G
    <3> QED BY <2>1, <2>2, EveryRound
  <2> QED BY <2>3
<1>3. ASSUME NEW r \in 1..L, bounds[r] # 1
      PROVE  /\ u[r] \in 1..(m + 1)
             /\ \A q \in 0..(r - 1) : u[r] <= m => u[q] < u[r]
  <2>1. u[r - 1] \in 0..(m + 1) /\ r - 1 \in 0..L
    BY <1>1
  <2>2. u[r] \in (u[r - 1] + 1)..m \/ u[r] = m + 1
    <3>1. PICK n \in Nat, v \in 0..(m + 1) : n = bounds[r] /\ v = u[r - 1]
      BY <2>1
    <3>2. u[r] = NextBelow(stream, v, n) /\ n # 1 /\ v \in 0..(m + 1)
      BY <1>1, <1>3, <2>1, <3>1
    <3>3. NextBelow(stream, v, n) \in (v + 1)..m \/ NextBelow(stream, v, n) = m + 1
      BY <3>2, NextIsFirst
    <3> QED BY <3>1, <3>2, <3>3
  <2>3. ASSUME NEW q \in 0..(r - 1), u[r] <= m PROVE u[q] < u[r]
    <3>1. u[q] <= u[r - 1] /\ u[q] \in 0..(m + 1)
      <4>1. q \in 0..L /\ r - 1 \in q..L
        OBVIOUS
      <4> QED BY <1>1, <1>2, <4>1
    <3> QED BY <2>1, <2>2, <2>3, <3>1
  <2> QED BY <2>1, <2>2, <2>3
<1> QED BY <1>0, <1>2, <1>3 DEF Grows

\* The numbers that draws below bounds can give.
Numbers(L, bounds) == {j \in [1..L -> Nat] : \A r \in 1..L : j[r] < bounds[r]}

\* What is drawn when the stream does not end, and the words it takes.
AreDrawn(d, u, m, stream, used, L, bounds) ==
  /\ d.used = u[L] /\ d.used \in used..m
  /\ d.out \in Numbers(L, bounds)
  /\ \A r \in 1..L : d.out[r] = IF bounds[r] = 1 THEN 0 ELSE stream[u[r]] % bounds[r]
  /\ \A r \in 0..L : u[r] \in 0..m
  /\ \A r \in 1..L : bounds[r] # 1 => u[r] \in 1..m

LEMMA DrawsAre ==
  ASSUME NEW m \in Nat, NEW stream \in Streams(m), NEW used \in 0..(m + 1),
         NEW L \in Nat, NEW bounds \in [1..L -> Nat \ {0}]
  PROVE  /\ Uses(stream, used, bounds)[L] \in 0..(m + 1)
         /\ Draws(stream, used, bounds) = Dry <=> Uses(stream, used, bounds)[L] = m + 1
         /\ Draws(stream, used, bounds) # Dry =>
              AreDrawn(Draws(stream, used, bounds), Uses(stream, used, bounds),
                       m, stream, used, L, bounds)
<1>1. Len(bounds) = L /\ Len(stream) = m /\ bounds \in [1..L -> Nat]
  BY Words32
<1>2. PICK u : /\ u = Uses(stream, used, bounds)
               /\ u[0] = used
               /\ \A r \in 0..L : u[r] \in 0..(m + 1)
  <2>1. AreUses(Uses(stream, used, bounds), m, stream, used, L, bounds)
    BY <1>1, UsesAre
  <2> QED BY <2>1 DEF AreUses
<1>3. /\ \A r \in 0..L : \A q \in r..L : u[r] <= u[q]
      /\ \A r \in 1..L : bounds[r] # 1 => u[r] \in 1..(m + 1)
  <2>1. Grows(u, m, L, bounds)
    BY <1>1, <1>2, UsesGrow
  <2> QED BY <2>1 DEF Grows
<1>4. PICK out : out = [r \in 1..L |-> IF bounds[r] = 1 THEN 0 ELSE stream[u[r]] % bounds[r]]
  OBVIOUS
<1>5. PICK d : d = Draws(stream, used, bounds) /\
               d = IF u[L] > m THEN Dry ELSE [out |-> out, used |-> u[L]]
  <2>1. Draws(stream, used, bounds) =
          IF u[Len(bounds)] > Len(stream) THEN Dry
          ELSE [out  |-> [r \in 1..Len(bounds) |->
                            IF bounds[r] = 1 THEN 0 ELSE stream[u[r]] % bounds[r]],
                used |-> u[Len(bounds)]]
    BY <1>2 DEF Draws
  <2> QED BY <1>1, <1>4, <2>1
<1>6. u[L] \in 0..(m + 1) /\ (u[L] > m <=> u[L] = m + 1)
  BY <1>2
<1>7. [out |-> out, used |-> u[L]] # Dry
  BY DEF Dry
<1>8. d = Dry <=> u[L] = m + 1
  BY <1>5, <1>6, <1>7
<1>9. ASSUME u[L] # m + 1
      PROVE  /\ d.used = u[L] /\ d.used \in used..m /\ d.out = out
             /\ \A r \in 0..L : u[r] \in 0..m
             /\ \A r \in 1..L : bounds[r] # 1 => u[r] \in 1..m
  <2>1. d = [out |-> out, used |-> u[L]] /\ u[L] \in 0..m
    BY <1>5, <1>6, <1>9
  <2>2. ASSUME NEW r \in 0..L PROVE u[r] \in 0..m /\ u[r] <= u[L]
    <3>1. L \in r..L /\ u[r] \in 0..(m + 1)
      BY <1>2
    <3> QED BY <1>3, <2>1, <3>1
  <2>3. 0 \in 0..L
    OBVIOUS
  <2>4. d.used \in used..m
    BY <1>2, <2>1, <2>2, <2>3
  <2>5. \A r \in 1..L : bounds[r] # 1 => u[r] \in 1..m
    BY <1>3, <2>2
  <2> QED BY <2>1, <2>2, <2>4, <2>5
<1>10. ASSUME u[L] # m + 1 PROVE out \in Numbers(L, bounds)
  <2>1. ASSUME NEW r \in 1..L PROVE out[r] \in Nat /\ out[r] < bounds[r]
    <3>1. PICK n \in Nat \ {0} : n = bounds[r]
      OBVIOUS
    <3>4. out[r] = IF n = 1 THEN 0 ELSE stream[u[r]] % n
      BY <1>4, <3>1
    <3>2. CASE n = 1
      <4>1. out[r] = 0
        BY <3>2, <3>4
      <4> QED BY <3>1, <3>2, <4>1
    <3>3. CASE n # 1
      <4>1. PICK w \in Nat : w = stream[u[r]]
        <5>1. u[r] \in 1..m
          BY <1>9, <1>10, <3>1, <3>3
        <5> QED BY <5>1, WordsAssumption, Words32
      <4>2. w % n \in 0..(n - 1)
        <5>1. n \in Nat /\ n >= 1
          OBVIOUS
        <5> QED BY <4>1, <5>1, Quotients
      <4>3. out[r] = w % n
        BY <3>3, <3>4, <4>1
      <4> QED BY <3>1, <4>2, <4>3
    <3> QED BY <3>2, <3>3
  <2>2. out \in [1..L -> Nat]
    BY <1>4, <2>1
  <2> QED BY <2>1, <2>2 DEF Numbers
<1>11. d # Dry => AreDrawn(d, u, m, stream, used, L, bounds)
  BY <1>4, <1>8, <1>9, <1>10 DEF AreDrawn
<1> QED BY <1>2, <1>5, <1>6, <1>8, <1>11

-----------------------------------------------------------------------------
(* Numbers are drawn with equal chances.                                   *)

DrawnBy(m, L, bounds, a) ==
  {s \in Streams(m) : Draws(s, 0, bounds) # Dry /\ Draws(s, 0, bounds).out = a}

\* The words with which b is drawn where a was.
Traded(s, m, L, bounds, a, b) ==
  LET u == Uses(s, 0, bounds)
      by(i) == {r \in 1..L : bounds[r] # 1 /\ u[r] = i}
  IN [i \in 1..m |-> IF by(i) = {} THEN s[i]
                     ELSE LET r == CHOOSE r \in by(i) : TRUE IN s[i] - a[r] + b[r]]

IsTrade(t, s, u, m, L, bounds, a, b) ==
  /\ t \in Streams(m)
  /\ \A i \in 1..m : (\A r \in 1..L : bounds[r] # 1 => u[r] # i) => t[i] = s[i]
  /\ \A r \in 1..L : bounds[r] # 1 =>
       /\ t[u[r]] = s[u[r]] - a[r] + b[r]
       /\ t[u[r]] < (Words \div bounds[r]) * bounds[r]
       /\ t[u[r]] % bounds[r] = b[r]

\* A word that is taken, and gives b.
Gives(v, n, b) == v \in 0..(Words - 1) /\ v < (Words \div n) * n /\ v % n = b

LEMMA Trade ==
  ASSUME NEW n \in Nat, n >= 1, NEW w \in Nat, w < (Words \div n) * n,
         NEW b \in 0..(n - 1)
  PROVE  Gives(w - (w % n) + b, n, b)
<1>1. PICK q \in Nat, r \in 0..(n - 1) : w = n * q + r /\ r = w % n
  BY Quotients
<1>2. PICK k \in Nat, z \in 0..(n - 1) : k = Words \div n /\ Words = n * k + z
  <2>1. Words \in Nat
    BY WordsAssumption
  <2> QED BY <2>1, Quotients
<1>3. n * q + r < k * n
  BY <1>1, <1>2
<1>4. q < k
  <2>1. ASSUME q >= k PROVE FALSE
    <3>1. PICK e \in Nat : q = k + e
      <4>1. q - k \in Nat /\ q = k + (q - k)
        BY <2>1
      <4> QED BY <4>1
    <3>2. n * q = k * n + n * e /\ n * e \in Nat /\ k * n \in Nat
      BY <3>1
    <3> QED BY <1>3, <3>2
  <2> QED BY <2>1
<1>5. n * q + n <= k * n
  <2>1. PICK e \in Nat : k = q + 1 + e
    <3>1. k - q - 1 \in Nat /\ k = q + 1 + (k - q - 1)
      BY <1>4
    <3> QED BY <3>1
  <2>2. k * n = n * q + n + n * e /\ n * e \in Nat
    BY <2>1
  <2> QED BY <2>2
<1>6. PICK v \in Nat : v = n * q + b /\ v = w - (w % n) + b
  <2>1. n * q \in Nat
    OBVIOUS
  <2>2. n * q + b = w - (w % n) + b
    BY <1>1, <2>1
  <2>3. n * q + b \in Nat
    BY <2>1
  <2> QED BY <2>2, <2>3
<1>7. v < k * n
  <2>1. n * q \in Nat /\ k * n \in Nat
    OBVIOUS
  <2> QED BY <1>5, <1>6, <2>1
<1>8. v \in 0..(Words - 1)
  <2>1. k * n \in Nat /\ Words = k * n + z
    BY <1>2
  <2> QED BY <1>7, <2>1
<1>9. v % n = b
  <2>1. (n * q + b) % n = b
    BY Quotients
  <2> QED BY <1>6, <2>1
<1> QED BY <1>2, <1>6, <1>7, <1>8, <1>9 DEF Gives

\* Draws that did not end with the stream: which words, and which numbers.
Takes(u, s, m, L, bounds, a) ==
  /\ s \in Streams(m)
  /\ \A r \in 0..L : u[r] \in 0..m
  /\ \A r \in 1..L : bounds[r] = 1 => a[r] = 0
  /\ \A r \in 1..L : bounds[r] # 1 =>
       /\ u[r] \in 1..m
       /\ s[u[r]] < (Words \div bounds[r]) * bounds[r]
       /\ s[u[r]] % bounds[r] = a[r]
       /\ \A q \in 1..L : bounds[q] # 1 /\ u[q] = u[r] => q = r
       /\ \A j \in (u[r - 1] + 1)..(u[r] - 1) :
            /\ s[j] >= (Words \div bounds[r]) * bounds[r]
            /\ \A q \in 1..L : bounds[q] # 1 => u[q] # j

LEMMA DrawnFacts ==
  ASSUME NEW m \in Nat, NEW L \in Nat, NEW bounds \in [1..L -> Nat \ {0}],
         NEW a, NEW s \in DrawnBy(m, L, bounds, a)
  PROVE  Takes(Uses(s, 0, bounds), s, m, L, bounds, a)
<1>0. PICK u : u = Uses(s, 0, bounds)
  OBVIOUS
<1>1. /\ s \in Streams(m) /\ Draws(s, 0, bounds) # Dry /\ Draws(s, 0, bounds).out = a
      /\ 0 \in 0..(m + 1) /\ bounds \in [1..L -> Nat]
  BY DEF DrawnBy
<1>2. AreDrawn(Draws(s, 0, bounds), u, m, s, 0, L, bounds)
  BY <1>0, <1>1, DrawsAre
<1>3. /\ \A r \in 1..L : a[r] = IF bounds[r] = 1 THEN 0 ELSE s[u[r]] % bounds[r]
      /\ \A r \in 0..L : u[r] \in 0..m
      /\ \A r \in 1..L : bounds[r] # 1 => u[r] \in 1..m
  BY <1>1, <1>2, Zenon DEF AreDrawn
<1>4. /\ \A r \in 1..L : u[r] = NextBelow(s, u[r - 1], bounds[r])
  <2>1. AreUses(u, m, s, 0, L, bounds)
    BY <1>0, <1>1, UsesAre
  <2> QED BY <2>1 DEF AreUses
<1>5. /\ \A r \in 0..L : \A q \in r..L : u[r] <= u[q]
      /\ \A r \in 1..L : bounds[r] # 1 => \A q \in 0..(r - 1) : u[r] <= m => u[q] < u[r]
  <2>1. Grows(u, m, L, bounds)
    BY <1>0, <1>1, UsesGrow
  <2> QED BY <2>1 DEF Grows
<1>6. ASSUME NEW r \in 1..L, NEW q \in 1..L, bounds[r] # 1, bounds[q] # 1, u[q] = u[r]
      PROVE  q = r
  <2>1. u[r] \in 1..m /\ u[q] \in 1..m
    BY <1>3, <1>6
  <2>2. ASSUME q < r PROVE FALSE
    <3>1. q \in 0..(r - 1)
      BY <2>2
    <3> QED BY <1>5, <1>6, <2>1, <3>1
  <2>3. ASSUME r < q PROVE FALSE
    <3>1. r \in 0..(q - 1)
      BY <2>3
    <3> QED BY <1>5, <1>6, <2>1, <3>1
  <2> QED BY <2>2, <2>3
<1>7. ASSUME NEW r \in 1..L, bounds[r] # 1
      PROVE  /\ s[u[r]] < (Words \div bounds[r]) * bounds[r]
             /\ \A j \in (u[r - 1] + 1)..(u[r] - 1) :
                  /\ s[j] >= (Words \div bounds[r]) * bounds[r]
                  /\ \A q \in 1..L : bounds[q] # 1 => u[q] # j
  <2>1. PICK n \in Nat \ {0}, v \in 0..m, x \in 1..m : n = bounds[r] /\ v = u[r - 1] /\ x = u[r]
    <3>1. r - 1 \in 0..L
      OBVIOUS
    <3> QED BY <1>3, <1>7, <3>1
  <2>2. x = NextBelow(s, v, n) /\ n # 1 /\ v \in 0..(m + 1) /\ n \in Nat
    BY <1>4, <1>7, <2>1
  <2>3. x <= m => x \in Accepted(s, v, n)
    BY <1>1, <2>2, NextIsFirst
  <2>4. \A j \in Accepted(s, v, n) : x <= j
    BY <1>1, <2>2, NextIsFirst
  <2>5. \A j \in 1..m : s[j] \in 0..(Words - 1) /\ Len(s) = m
    BY <1>1, Words32
  <2>6. s[x] < (Words \div n) * n
    BY <2>3, <2>5 DEF Accepted
  <2>7. ASSUME NEW j \in (v + 1)..(x - 1) PROVE s[j] >= (Words \div n) * n
    <3>1. j \in 1..m /\ j \in (v + 1)..m /\ j < x
      OBVIOUS
    <3>2. ~(s[j] < (Words \div n) * n)
      <4>1. j \notin Accepted(s, v, n)
        BY <2>4, <3>1
      <4> QED BY <2>5, <3>1, <4>1 DEF Accepted
    <3>3. (Words \div n) * n \in Int /\ s[j] \in Int
      <4>1. Words \div n \in Nat
        <5>1. n \in Nat /\ n >= 1 /\ Words \in Nat
          BY WordsAssumption
        <5> QED BY <5>1, Quotients
      <4> QED BY <2>5, <3>1, <4>1, WordsAssumption
    <3> QED BY <3>2, <3>3
  <2>8. ASSUME NEW j \in (v + 1)..(x - 1), NEW q \in 1..L, bounds[q] # 1, u[q] = j PROVE FALSE
    <3>1. CASE q <= r - 1
      <4>1. q \in 0..L /\ r - 1 \in q..L
        BY <3>1
      <4> QED BY <1>5, <2>1, <2>8, <4>1
    <3>2. CASE q >= r
      <4>1. r \in 0..L /\ q \in r..L
        BY <3>2
      <4> QED BY <1>5, <2>1, <2>8, <4>1
    <3> QED BY <3>1, <3>2
  <2> QED BY <2>1, <2>6, <2>7, <2>8
<1>8. \A r \in 1..L : bounds[r] # 1 => s[u[r]] % bounds[r] = a[r]
  BY <1>3
<1> QED BY <1>0, <1>1, <1>3, <1>6, <1>7, <1>8 DEF Takes

LEMMA TradedIs ==
  ASSUME NEW m \in Nat, NEW L \in Nat, NEW bounds \in [1..L -> Nat \ {0}],
         NEW a, NEW b \in Numbers(L, bounds),
         NEW s \in DrawnBy(m, L, bounds, a)
  PROVE  IsTrade(Traded(s, m, L, bounds, a, b), s, Uses(s, 0, bounds), m, L, bounds, a, b)
<1>1. PICK u : u = Uses(s, 0, bounds)
  OBVIOUS
<1>2. /\ s \in Streams(m)
      /\ \A r \in 1..L : bounds[r] # 1 =>
           /\ u[r] \in 1..m
           /\ s[u[r]] < (Words \div bounds[r]) * bounds[r]
           /\ s[u[r]] % bounds[r] = a[r]
           /\ \A q \in 1..L : bounds[q] # 1 /\ u[q] = u[r] => q = r
  <2>1. Takes(u, s, m, L, bounds, a)
    BY <1>1, DrawnFacts
  <2> QED BY <2>1 DEF Takes
<1>3. \A i \in 1..m : s[i] \in 0..(Words - 1)
  BY <1>2, Words32
<1>4. ASSUME NEW r \in 1..L, bounds[r] # 1
      PROVE  LET v == s[u[r]] - a[r] + b[r]
             IN /\ v \in 0..(Words - 1)
                /\ v < (Words \div bounds[r]) * bounds[r]
                /\ v % bounds[r] = b[r]
  <2>1. PICK n \in Nat, w \in Nat, c \in Nat :
          n = bounds[r] /\ w = s[u[r]] /\ c = b[r] /\ n >= 1 /\ c \in 0..(n - 1)
    <3>1. b[r] \in Nat /\ b[r] < bounds[r] /\ bounds[r] \in Nat \ {0}
      BY DEF Numbers
    <3>2. s[u[r]] \in Nat
      BY <1>2, <1>3, <1>4, WordsAssumption
    <3> QED BY <3>1, <3>2
  <2>2. w < (Words \div n) * n /\ w % n = a[r]
    BY <1>2, <1>4, <2>1
  <2>3. Gives(w - (w % n) + c, n, c)
    BY <2>1, <2>2, Trade
  <2> QED BY <2>1, <2>2, <2>3 DEF Gives
<1> DEFINE by(i) == {r \in 1..L : bounds[r] # 1 /\ u[r] = i}
           value(i) == IF by(i) = {} THEN s[i]
                       ELSE LET r == CHOOSE r \in by(i) : TRUE IN s[i] - a[r] + b[r]
<1>5. ASSUME NEW r \in 1..L, bounds[r] # 1
      PROVE  value(u[r]) = s[u[r]] - a[r] + b[r]
  <2>1. \A q : q \in by(u[r]) <=> q = r
    BY <1>2, <1>5
  <2>2. by(u[r]) = {r}
    BY <2>1
  <2>3. (CHOOSE q \in {r} : TRUE) = r
    OBVIOUS
  <2> HIDE DEF by
  <2> QED BY <2>2, <2>3
<1>6. ASSUME NEW i \in 1..m, \A r \in 1..L : bounds[r] # 1 => u[r] # i
      PROVE  value(i) = s[i]
  <2>1. by(i) = {}
    BY <1>6
  <2> HIDE DEF by
  <2> QED BY <2>1
<1>7. PICK t : t = Traded(s, m, L, bounds, a, b) /\ t = [i \in 1..m |-> value(i)]
  <2>1. Traded(s, m, L, bounds, a, b) = [i \in 1..m |-> value(i)]
    BY <1>1 DEF Traded
  <2> HIDE DEF value
  <2> QED BY <2>1
<1> HIDE DEF value, by
<1>8. ASSUME NEW i \in 1..m PROVE t[i] \in 0..(Words - 1)
  <2>1. CASE \A r \in 1..L : bounds[r] # 1 => u[r] # i
    BY <1>3, <1>6, <1>7, <2>1
  <2>2. ASSUME NEW r \in 1..L, bounds[r] # 1, u[r] = i PROVE t[i] \in 0..(Words - 1)
    BY <1>4, <1>5, <1>7, <2>2
  <2> QED BY <2>1, <2>2
<1>9. t \in Streams(m)
  BY <1>7, <1>8 DEF Streams
<1>10. \A i \in 1..m : (\A r \in 1..L : bounds[r] # 1 => u[r] # i) => t[i] = s[i]
  BY <1>6, <1>7
<1>11. ASSUME NEW r \in 1..L, bounds[r] # 1
       PROVE /\ t[u[r]] = s[u[r]] - a[r] + b[r]
             /\ t[u[r]] < (Words \div bounds[r]) * bounds[r]
             /\ t[u[r]] % bounds[r] = b[r]
  <2>1. t[u[r]] = s[u[r]] - a[r] + b[r]
    BY <1>2, <1>5, <1>7, <1>11
  <2> QED BY <1>4, <1>11, <2>1
<1> QED BY <1>1, <1>7, <1>9, <1>10, <1>11 DEF IsTrade

SameUses(v, u, L) == \A r \in 0..L : v[r] = u[r]

\* The traded words are the ones that are taken.
LEMMA UsesStay ==
  ASSUME NEW m \in Nat, NEW L \in Nat, NEW bounds \in [1..L -> Nat \ {0}],
         NEW a, NEW b, NEW s \in DrawnBy(m, L, bounds, a),
         NEW u, u = Uses(s, 0, bounds), NEW t,
         IsTrade(t, s, u, m, L, bounds, a, b)
  PROVE  SameUses(Uses(t, 0, bounds), u, L)
<1>1. PICK v : v = Uses(t, 0, bounds)
  OBVIOUS
<1>2. /\ t \in Streams(m) /\ bounds \in [1..L -> Nat] /\ 0 \in 0..(m + 1)
      /\ \A i \in 1..m : (\A r \in 1..L : bounds[r] # 1 => u[r] # i) => t[i] = s[i]
      /\ \A r \in 1..L : bounds[r] # 1 => t[u[r]] < (Words \div bounds[r]) * bounds[r]
  BY DEF IsTrade
<1>3. /\ s \in Streams(m)
      /\ \A r \in 0..L : u[r] \in 0..m
      /\ \A r \in 1..L : bounds[r] # 1 =>
           /\ u[r] \in 1..m
           /\ \A j \in (u[r - 1] + 1)..(u[r] - 1) :
                /\ s[j] >= (Words \div bounds[r]) * bounds[r]
                /\ \A q \in 1..L : bounds[q] # 1 => u[q] # j
  <2>1. Takes(u, s, m, L, bounds, a)
    BY DrawnFacts
  <2> QED BY <2>1 DEF Takes
<1>4. u[0] = 0 /\ \A r \in 1..L : u[r] = NextBelow(s, u[r - 1], bounds[r])
  <2>1. AreUses(u, m, s, 0, L, bounds)
    BY <1>2, <1>3, UsesAre
  <2> QED BY <2>1 DEF AreUses
<1>5. v[0] = 0 /\ \A r \in 1..L : v[r] = NextBelow(t, v[r - 1], bounds[r])
  <2>1. AreUses(v, m, t, 0, L, bounds)
    BY <1>1, <1>2, UsesAre
  <2> QED BY <2>1 DEF AreUses
<1> DEFINE G == {r \in 0..L : v[r] = u[r]}
<1>6. 0 \in G
  BY <1>4, <1>5
<1>7. ASSUME NEW r \in 1..L, r - 1 \in G PROVE r \in G
  <2>1. PICK n \in Nat \ {0}, x \in 0..m, y \in 0..m :
          n = bounds[r] /\ x = u[r - 1] /\ y = u[r] /\ x = v[r - 1]
    <3>1. r - 1 \in 0..L /\ r \in 0..L
      OBVIOUS
    <3> QED BY <1>3, <1>7, <3>1
  <2>2. v[r] = NextBelow(t, x, n) /\ y = NextBelow(s, x, n)
    BY <1>4, <1>5, <2>1
  <2>3. CASE n = 1
    <3>1. v[r] = x /\ y = x
      BY <2>2, <2>3, NextOfOne
    <3> QED BY <2>1, <3>1
  <2>4. CASE n # 1
    <3>1. y \in 1..m /\ x < y
      <4>1. n \in Nat /\ x \in 0..(m + 1) /\ y # m + 1
        OBVIOUS
      <4>2. NextBelow(s, x, n) \in (x + 1)..m \/ NextBelow(s, x, n) = m + 1
        BY <1>3, <2>4, <4>1, NextIsFirst
      <4> QED BY <2>2, <4>1, <4>2
    <3>2. \A j \in 1..m : t[j] \in 0..(Words - 1) /\ Len(t) = m
      BY <1>2, Words32
    <3>3. y \in Accepted(t, x, n)
      <4>1. t[y] < (Words \div n) * n
        BY <1>2, <2>1, <2>4
      <4> QED BY <3>1, <3>2, <4>1 DEF Accepted
    <3>4. ASSUME NEW j \in Accepted(t, x, n) PROVE y <= j
      <4>1. j \in (x + 1)..m /\ t[j] < (Words \div n) * n
        BY <3>1, <3>2 DEF Accepted
      <4>2. ASSUME j < y PROVE FALSE
        <5>1. j \in (x + 1)..(y - 1) /\ j \in 1..m
          BY <4>1, <4>2
        <5>2. s[j] >= (Words \div n) * n /\ t[j] = s[j]
          BY <1>2, <1>3, <2>1, <2>4, <5>1
        <5>3. (Words \div n) * n \in Int /\ t[j] \in Int
          <6>1. n \in Nat /\ n >= 1 /\ Words \in Nat
            BY WordsAssumption
          <6>2. Words \div n \in Nat
            BY <6>1, Quotients
          <6> QED BY <3>2, <5>1, <6>1, <6>2
        <5> QED BY <4>1, <5>2, <5>3
      <4> QED BY <4>1, <4>2
    <3>5. NextBelow(t, x, n) = y
      <4>1. n \in Nat /\ x \in 0..(m + 1)
        OBVIOUS
      <4> QED BY <1>2, <2>4, <3>3, <3>4, <4>1, NextIsFirst
    <3> QED BY <2>1, <2>2, <3>5
  <2> QED BY <2>3, <2>4
<1>8. \A r \in 0..L : r \in G
  <2> HIDE DEF G
  <2> QED BY <1>6, <1>7, EveryRound
<1> QED BY <1>1, <1>8 DEF SameUses

LEMMA TradedIsDrawn ==
  ASSUME NEW m \in Nat, NEW L \in Nat, NEW bounds \in [1..L -> Nat \ {0}],
         NEW a \in Numbers(L, bounds), NEW b \in Numbers(L, bounds),
         NEW s \in DrawnBy(m, L, bounds, a)
  PROVE  /\ Traded(s, m, L, bounds, a, b) \in DrawnBy(m, L, bounds, b)
         /\ Traded(Traded(s, m, L, bounds, a, b), m, L, bounds, b, a) = s
<1>1. PICK u, t : u = Uses(s, 0, bounds) /\ t = Traded(s, m, L, bounds, a, b)
  OBVIOUS
<1>2. IsTrade(t, s, u, m, L, bounds, a, b)
  BY <1>1, TradedIs
<1>3. PICK v : v = Uses(t, 0, bounds) /\ \A r \in 0..L : v[r] = u[r]
  <2>1. SameUses(Uses(t, 0, bounds), u, L)
    BY <1>1, <1>2, UsesStay
  <2> QED BY <2>1 DEF SameUses
<1>4. /\ s \in Streams(m)
      /\ \A r \in 0..L : u[r] \in 0..m
      /\ \A r \in 1..L : bounds[r] # 1 => u[r] \in 1..m
  <2>1. Takes(u, s, m, L, bounds, a)
    BY <1>1, DrawnFacts
  <2> QED BY <2>1 DEF Takes
<1>5. /\ t \in Streams(m)
      /\ \A i \in 1..m : (\A r \in 1..L : bounds[r] # 1 => u[r] # i) => t[i] = s[i]
      /\ \A r \in 1..L : bounds[r] # 1 =>
           /\ t[u[r]] = s[u[r]] - a[r] + b[r]
           /\ t[u[r]] % bounds[r] = b[r]
  BY <1>2 DEF IsTrade
<1>6. t \in DrawnBy(m, L, bounds, b)
  <2>1. v[L] # m + 1 /\ 0 \in 0..(m + 1)
    BY <1>3, <1>4
  <2>2. Draws(t, 0, bounds) # Dry /\ AreDrawn(Draws(t, 0, bounds), v, m, t, 0, L, bounds)
    BY <1>3, <1>5, <2>1, DrawsAre
  <2>3. PICK d : d = Draws(t, 0, bounds).out
    OBVIOUS
  <2>4. /\ d \in [1..L -> Nat]
        /\ \A r \in 1..L : d[r] = IF bounds[r] = 1 THEN 0 ELSE t[v[r]] % bounds[r]
    BY <2>2, <2>3, Zenon DEF AreDrawn, Numbers
  <2>5. ASSUME NEW r \in 1..L PROVE d[r] = b[r]
    <3>1. CASE bounds[r] = 1
      <4>1. b[r] \in Nat /\ b[r] < 1
        BY <3>1 DEF Numbers
      <4>2. d[r] = 0
        BY <2>4, <3>1
      <4> QED BY <4>1, <4>2
    <3>2. CASE bounds[r] # 1
      <4>1. d[r] = t[v[r]] % bounds[r] /\ r \in 0..L
        BY <2>4, <3>2
      <4> QED BY <1>3, <1>5, <3>2, <4>1
    <3> QED BY <3>1, <3>2
  <2>6. d = b
    <3>1. b \in [1..L -> Nat]
      BY DEF Numbers
    <3> QED BY <2>4, <2>5, <3>1
  <2> QED BY <1>5, <2>2, <2>3, <2>6 DEF DrawnBy
<1>7. PICK z : z = Traded(t, m, L, bounds, b, a) /\ IsTrade(z, t, v, m, L, bounds, b, a)
  BY <1>3, <1>6, TradedIs
<1>8. /\ z \in Streams(m)
      /\ \A i \in 1..m : (\A r \in 1..L : bounds[r] # 1 => v[r] # i) => z[i] = t[i]
      /\ \A r \in 1..L : bounds[r] # 1 => z[v[r]] = t[v[r]] - b[r] + a[r]
  BY <1>7 DEF IsTrade
<1>9. ASSUME NEW i \in 1..m PROVE z[i] = s[i]
  <2>1. CASE \A r \in 1..L : bounds[r] # 1 => u[r] # i
    <3>1. \A r \in 1..L : r \in 0..L
      OBVIOUS
    <3> QED BY <1>3, <1>5, <1>8, <2>1, <3>1
  <2>2. ASSUME NEW r \in 1..L, bounds[r] # 1, u[r] = i PROVE z[i] = s[i]
    <3>1. v[r] = i
      <4>1. r \in 0..L
        OBVIOUS
      <4> QED BY <1>3, <2>2, <4>1
    <3>2. z[i] = t[i] - b[r] + a[r] /\ t[i] = s[i] - a[r] + b[r]
      BY <1>5, <1>8, <2>2, <3>1
    <3>3. s[i] \in Int /\ a[r] \in Int /\ b[r] \in Int
      BY <1>4, Words32 DEF Numbers
    <3> QED BY <3>2, <3>3
  <2> QED BY <2>1, <2>2
<1>10. z = s
  BY <1>4, <1>8, <1>9 DEF Streams
<1> QED BY <1>1, <1>6, <1>7, <1>10

LEMMA StreamsAreFinite ==
  ASSUME NEW m \in Nat PROVE IsFiniteSet(Streams(m))
<1> DEFINE pairs == (1..m) \X (0..(Words - 1))
           graph == [s \in Streams(m) |-> {<<i, s[i]>> : i \in 1..m}]
<1>1. IsFiniteSet(SUBSET pairs)
  <2>1. IsFiniteSet(1..m) /\ IsFiniteSet(0..(Words - 1))
    BY FS_Interval, WordsAssumption
  <2>2. IsFiniteSet(pairs)
    BY <2>1, FS_Product
  <2> QED BY <2>2, FS_SUBSET
<1>2. graph \in [Streams(m) -> SUBSET pairs]
  BY DEF Streams
<1>3. ASSUME NEW s \in Streams(m), NEW t \in Streams(m), graph[s] = graph[t]
      PROVE  s = t
  <2>1. ASSUME NEW i \in 1..m PROVE s[i] = t[i]
    <3>1. <<i, s[i]>> \in {<<j, t[j]>> : j \in 1..m}
      BY <1>3
    <3> QED BY <3>1
  <2> QED BY <2>1 DEF Streams
<1>4. graph \in Injection(Streams(m), SUBSET pairs)
  <2> HIDE DEF pairs
  <2> QED BY <1>2, <1>3 DEF Injection, IsInjective
<1> HIDE DEF graph, pairs
<1> QED BY <1>1, <1>4, FS_Injection

\* Whatever is drawn, as many streams give it.
LEMMA ChancesAreEqual ==
  ASSUME NEW m \in Nat, NEW L \in Nat, NEW bounds \in [1..L -> Nat \ {0}],
         NEW a \in Numbers(L, bounds), NEW b \in Numbers(L, bounds)
  PROVE  Cardinality(DrawnBy(m, L, bounds, a)) = Cardinality(DrawnBy(m, L, bounds, b))
<1> DEFINE S == DrawnBy(m, L, bounds, a)
           T == DrawnBy(m, L, bounds, b)
           f == [s \in S |-> Traded(s, m, L, bounds, a, b)]
<1>1. \A s \in S : /\ Traded(s, m, L, bounds, a, b) \in T
                   /\ Traded(Traded(s, m, L, bounds, a, b), m, L, bounds, b, a) = s
  BY TradedIsDrawn
<1>2. \A t \in T : /\ Traded(t, m, L, bounds, b, a) \in S
                   /\ Traded(Traded(t, m, L, bounds, b, a), m, L, bounds, a, b) = t
  BY TradedIsDrawn
<1> HIDE DEF S, T
<1>3. f \in Injection(S, T)
  BY <1>1 DEF Injection, IsInjective
<1>4. f \in Surjection(S, T)
  BY <1>1, <1>2 DEF Surjection
<1>5. ExistsBijection(S, T)
  <2> HIDE DEF f
  <2> QED BY <1>3, <1>4 DEF ExistsBijection, Bijection
<1>6. IsFiniteSet(S)
  <2>1. S \subseteq Streams(m)
    BY DEF S, DrawnBy
  <2> QED BY <2>1, StreamsAreFinite, FS_Subset
<1>7. Cardinality(T) = Cardinality(S)
  BY <1>5, <1>6, FS_Bijection
<1> QED BY <1>7 DEF S, T

\* Every number below its bound can be drawn, from as many words as bounds.
LEMMA ChancesAreSome ==
  ASSUME NEW m \in Nat, NEW L \in 0..m, NEW bounds \in [1..L -> 1..Words],
         \A r \in 1..L : bounds[r] = 1 => r = L,
         NEW a \in Numbers(L, bounds)
  PROVE  DrawnBy(m, L, bounds, a) # {}
<1>1. PICK s : s = [i \in 1..m |-> IF i <= L THEN a[i] ELSE 0]
  OBVIOUS
<1>2. /\ L \in Nat /\ bounds \in [1..L -> Nat \ {0}] /\ bounds \in [1..L -> Nat]
      /\ 0 \in 0..(m + 1)
  BY WordsAssumption
<1>3. \A r \in 1..L : a[r] \in 0..(bounds[r] - 1) /\ s[r] = a[r] /\ bounds[r] \in 1..Words
  BY <1>1 DEF Numbers
<1>4. s \in Streams(m)
  <2>1. ASSUME NEW i \in 1..m PROVE s[i] \in 0..(Words - 1)
    <3>1. CASE i <= L
      <4>1. i \in 1..L
        BY <3>1
      <4>2. PICK n \in 1..Words : n = bounds[i] /\ s[i] \in 0..(n - 1)
        BY <1>3, <4>1
      <4> QED BY <4>2, WordsAssumption
    <3>2. CASE ~(i <= L)
      BY <1>1, <3>2, WordsAssumption
    <3> QED BY <3>1, <3>2
  <2> QED BY <1>1, <2>1 DEF Streams
<1>5. PICK u : u = Uses(s, 0, bounds)
  OBVIOUS
<1>6. u[0] = 0 /\ \A r \in 1..L : u[r] = NextBelow(s, u[r - 1], bounds[r])
  <2>1. AreUses(u, m, s, 0, L, bounds)
    BY <1>2, <1>4, <1>5, UsesAre
  <2> QED BY <2>1 DEF AreUses
<1> DEFINE G == {r \in 0..L : r = 0 \/ bounds[r] # 1 => u[r] = r}
<1>7. 0 \in G
  BY <1>6
<1>8. ASSUME NEW r \in 1..L, r - 1 \in G, bounds[r] # 1 PROVE u[r] = r
  <2>1. u[r - 1] = r - 1
    <3>1. r - 1 = 0 \/ bounds[r - 1] # 1
      <4>1. r - 1 # 0 => r - 1 \in 1..L /\ r - 1 # L
        OBVIOUS
      <4> QED BY <4>1
    <3> QED BY <1>8, <3>1
  <2>2. PICK n \in 1..Words, x \in 0..m : n = bounds[r] /\ x = r - 1
    BY <1>3
  <2>3. u[r] = NextBelow(s, x, n)
    BY <1>6, <2>1, <2>2
  <2>4. Len(s) = m
    BY <1>4, Words32
  <2>5. r \in Accepted(s, x, n)
    <3>1. n \in Nat /\ n >= 1 /\ Words \in Nat
      BY WordsAssumption
    <3>2. PICK d \in Nat : d = Words \div n
      BY <3>1, Quotients
    <3>3. d # 0
      <4>1. Words = n * d + (Words % n) /\ Words % n \in 0..(n - 1)
        BY <3>1, <3>2, Quotients
      <4>2. d = 0 => n * d = 0
        OBVIOUS
      <4> QED BY <4>1, <4>2
    <3>4. PICK e \in Nat : d = e + 1
      <4>1. d - 1 \in Nat /\ d = (d - 1) + 1
        BY <3>3
      <4> QED BY <4>1
    <3>5. d * n = e * n + n /\ e * n \in Nat
      BY <3>4
    <3>6. s[r] \in 0..(n - 1)
      BY <1>3, <2>2
    <3>7. s[r] < d * n
      <4>1. PICK c \in Nat, y \in Nat : c = s[r] /\ c < n /\ y = e * n
        BY <3>5, <3>6
      <4> QED BY <3>5, <4>1
    <3>8. r \in (x + 1)..m
      BY <2>2
    <3> QED BY <2>4, <3>2, <3>7, <3>8 DEF Accepted
  <2>6. \A j \in Accepted(s, x, n) : r <= j
    BY <2>2, <2>4 DEF Accepted
  <2>7. n \in Nat /\ x \in 0..(m + 1) /\ n # 1
    BY <1>8, <2>2
  <2>8. NextBelow(s, x, n) = r
    BY <1>4, <2>5, <2>6, <2>7, NextIsFirst
  <2> QED BY <2>3, <2>8
<1>9. \A r \in 0..L : r \in G
  <2>1. ASSUME NEW r \in 1..L, r - 1 \in G PROVE r \in G
    BY <1>8, <2>1
  <2> HIDE DEF G
  <2> QED BY <1>2, <1>7, <2>1, EveryRound
<1>10. u[L] # m + 1
  <2>1. CASE L = 0 \/ bounds[L] # 1
    BY <1>9, <2>1
  <2>2. CASE L # 0 /\ bounds[L] = 1
    <3>1. L \in 1..L /\ L - 1 \in 0..L
      BY <2>2
    <3>2. L - 1 = 0 \/ bounds[L - 1] # 1
      <4>1. L - 1 # 0 => L - 1 \in 1..L /\ L - 1 # L
        BY <2>2
      <4> QED BY <4>1
    <3>3. u[L - 1] = L - 1
      BY <1>9, <3>1, <3>2
    <3>4. u[L] = u[L - 1]
      BY <1>6, <2>2, <3>1, NextOfOne
    <3> QED BY <3>3, <3>4
  <2> QED BY <2>1, <2>2
<1>11. PICK d : d = Draws(s, 0, bounds)
  OBVIOUS
<1>12. d # Dry /\ AreDrawn(d, u, m, s, 0, L, bounds)
  BY <1>2, <1>4, <1>5, <1>10, <1>11, DrawsAre
<1>13. /\ d.out \in [1..L -> Nat]
       /\ \A r \in 1..L : d.out[r] = IF bounds[r] = 1 THEN 0 ELSE s[u[r]] % bounds[r]
  BY <1>12, Zenon DEF AreDrawn, Numbers
<1>14. ASSUME NEW r \in 1..L PROVE d.out[r] = a[r]
  <2>1. CASE bounds[r] = 1
    BY <1>3, <1>13, <2>1
  <2>2. CASE bounds[r] # 1
    <3>1. u[r] = r /\ s[r] = a[r]
      BY <1>3, <1>9, <2>2
    <3>2. d.out[r] = a[r] % bounds[r]
      BY <1>13, <2>2, <3>1
    <3>3. PICK n \in Nat, c \in Nat : n = bounds[r] /\ c = a[r] /\ n >= 1 /\ c \in 0..(n - 1)
      BY <1>3, WordsAssumption
    <3>4. (n * 0 + c) % n = c
      BY <3>3, Quotients
    <3>5. n * 0 + c = c
      BY <3>3
    <3> QED BY <3>2, <3>3, <3>4, <3>5
  <2> QED BY <2>1, <2>2
<1>15. d.out = a
  <2>1. a \in [1..L -> Nat]
    BY DEF Numbers
  <2> QED BY <1>13, <1>14, <2>1
<1> QED BY <1>4, <1>11, <1>12, <1>15 DEF DrawnBy

-----------------------------------------------------------------------------
(* Samples.                                                                *)

Distinct(s, n) == \A x, y \in 1..n : s[x] = s[y] => x = y

LEMMA FallingIs ==
  ASSUME NEW n \in Nat, NEW k \in 0..n
  PROVE  /\ Falling(n, k) \in [1..k -> Nat \ {0}]
         /\ \A r \in 1..k : Falling(n, k)[r] = n + 1 - r
         /\ Numbers(k, Falling(n, k)) =
              {j \in [1..k -> Nat] : \A r \in 1..k : j[r] + 1 \in 1..(n + 1 - r)}
<1>1. \A r \in 1..k : Falling(n, k)[r] = n + 1 - r /\ n + 1 - r \in Nat \ {0}
  BY DEF Falling
<1>2. Falling(n, k) \in [1..k -> Nat \ {0}]
  BY <1>1 DEF Falling
<1>3. ASSUME NEW j \in [1..k -> Nat]
      PROVE  (\A r \in 1..k : j[r] < Falling(n, k)[r]) <=>
             (\A r \in 1..k : j[r] + 1 \in 1..(n + 1 - r))
  <2>1. ASSUME NEW r \in 1..k PROVE j[r] < Falling(n, k)[r] <=> j[r] + 1 \in 1..(n + 1 - r)
    <3>1. PICK f \in Nat, c \in Nat : f = Falling(n, k)[r] /\ f = n + 1 - r /\ c = j[r]
      BY <1>1
    <3> QED BY <3>1
  <2> QED BY <2>1
<1> QED BY <1>1, <1>2, <1>3 DEF Numbers

\* All but the i-th, in their order.
IsRemoval(t, s, n, i, T) ==
  /\ t \in [1..(n - 1) -> T]
  /\ \A x \in 1..(n - 1) : \E y \in 1..n : y # i /\ t[x] = s[y]
  /\ \A y \in 1..n : y # i => \E x \in 1..(n - 1) : t[x] = s[y]
  /\ Distinct(s, n) => Distinct(t, n - 1)

LEMMA RemovedIs ==
  ASSUME NEW n \in Nat, n >= 1, NEW T, NEW s \in [1..n -> T], NEW i \in 1..n
  PROVE  IsRemoval(RemoveAt(s, i), s, n, i, T)
<1>1. PICK before, after : before = SubSeq(s, 1, i - 1) /\ after = SubSeq(s, i + 1, n)
  OBVIOUS
<1>2. before = [x \in 1..(i - 1) |-> s[x]] /\ Len(before) = i - 1
  BY <1>1
<1>3. after = [x \in 1..(n - i) |-> s[x + i]] /\ Len(after) = n - i
  BY <1>1
<1>4. PICK t : t = RemoveAt(s, i) /\ t = before \o after
  <2>1. Len(s) = n
    OBVIOUS
  <2>2. RemoveAt(s, i) = before \o after
    BY <1>1, <2>1 DEF RemoveAt
  <2> QED BY <2>2
<1>5. t = [x \in 1..(n - 1) |-> IF x < i THEN s[x] ELSE s[x + 1]]
  <2>1. before \in Seq(T) /\ after \in Seq(T)
    BY <1>2, <1>3
  <2>2. t = [x \in 1..(n - 1) |-> IF x <= i - 1 THEN before[x] ELSE after[x - (i - 1)]]
    BY <1>2, <1>3, <1>4, <2>1
  <2>3. ASSUME NEW x \in 1..(n - 1)
        PROVE  (IF x <= i - 1 THEN before[x] ELSE after[x - (i - 1)]) =
               (IF x < i THEN s[x] ELSE s[x + 1])
    <3>1. CASE x < i
      BY <1>2, <3>1
    <3>2. CASE ~(x < i)
      <4>1. x - (i - 1) \in 1..(n - i) /\ x - (i - 1) + i = x + 1
        BY <3>2
      <4> QED BY <1>3, <3>2, <4>1
    <3> QED BY <3>1, <3>2
  <2> QED BY <2>2, <2>3
<1>6. t \in [1..(n - 1) -> T]
  BY <1>5
<1>7. ASSUME NEW x \in 1..(n - 1) PROVE \E y \in 1..n : y # i /\ t[x] = s[y]
  <2>1. CASE x < i
    BY <1>5, <2>1
  <2>2. CASE ~(x < i)
    <3>1. x + 1 \in 1..n /\ x + 1 # i /\ t[x] = s[x + 1]
      BY <1>5, <2>2
    <3> QED BY <3>1
  <2> QED BY <2>1, <2>2
<1>8. ASSUME NEW y \in 1..n, y # i PROVE \E x \in 1..(n - 1) : t[x] = s[y]
  <2>1. CASE y < i
    <3>1. y \in 1..(n - 1) /\ t[y] = s[y]
      BY <1>5, <2>1
    <3> QED BY <3>1
  <2>2. CASE y > i
    <3>1. y - 1 \in 1..(n - 1) /\ ~(y - 1 < i) /\ y - 1 + 1 = y
      BY <2>2
    <3>2. t[y - 1] = s[y]
      BY <1>5, <3>1
    <3> QED BY <3>1, <3>2
  <2> QED BY <1>8, <2>1, <2>2
<1>9. ASSUME Distinct(s, n) PROVE Distinct(t, n - 1)
  <2>1. ASSUME NEW x \in 1..(n - 1), NEW y \in 1..(n - 1), t[x] = t[y] PROVE x = y
    <3>1. PICK c \in 1..n, d \in 1..n :
            /\ c = (IF x < i THEN x ELSE x + 1) /\ t[x] = s[c]
            /\ d = (IF y < i THEN y ELSE y + 1) /\ t[y] = s[d]
      BY <1>5
    <3>2. c = d
      BY <1>9, <2>1, <3>1 DEF Distinct
    <3> QED BY <3>1, <3>2
  <2> QED BY <2>1 DEF Distinct
<1> QED BY <1>4, <1>6, <1>7, <1>8, <1>9 DEF IsRemoval

ArePools(p, items, n, k, numbers, T) ==
  /\ p[0] = items
  /\ \A r \in 0..k : p[r] \in [1..(n - r) -> T]
  /\ \A r \in 1..k : p[r] = RemoveAt(p[r - 1], numbers[r] + 1)

LEMMA PoolsAre ==
  ASSUME NEW n \in Nat, NEW k \in 0..n, NEW T, NEW items \in [1..n -> T],
         NEW numbers \in Numbers(k, Falling(n, k))
  PROVE  ArePools(Pools(items, numbers), items, n, k, numbers, T)
<1>1. /\ numbers \in [1..k -> Nat] /\ Len(numbers) = k /\ k \in Nat
      /\ \A r \in 1..k : numbers[r] + 1 \in 1..(n + 1 - r)
  <2>1. numbers \in {j \in [1..k -> Nat] : \A r \in 1..k : j[r] + 1 \in 1..(n + 1 - r)}
    BY FallingIs
  <2> QED BY <2>1
<1>2. ASSUME NEW r \in 1..k, NEW v \in [1..(n - (r - 1)) -> T]
      PROVE  RemoveAt(v, numbers[r] + 1) \in [1..(n - r) -> T]
  <2>1. PICK l \in Nat, i \in Nat : l = n - (r - 1) /\ l >= 1 /\ i = numbers[r] + 1 /\ i \in 1..l
    <3>1. n - (r - 1) \in Nat /\ n - (r - 1) >= 1 /\ n + 1 - r = n - (r - 1)
      OBVIOUS
    <3>2. numbers[r] + 1 \in 1..(n - (r - 1)) /\ numbers[r] + 1 \in Nat
      BY <1>1, <3>1
    <3> QED BY <3>1, <3>2
  <2>2. IsRemoval(RemoveAt(v, i), v, l, i, T)
    BY <1>2, <2>1, RemovedIs
  <2>3. l - 1 = n - r
    BY <2>1
  <2> QED BY <2>1, <2>2, <2>3 DEF IsRemoval
<1> DEFINE S == [r \in Nat |-> [1..(n - r) -> T]]
           step == [r \in 1..k |-> [v \in [1..(n - (r - 1)) -> T] |-> RemoveAt(v, numbers[r] + 1)]]
<1>3. \A r \in 1..k : step[r] \in [S[r - 1] -> S[r]]
  <2> TAKE r \in 1..k
  <2>1. S[r - 1] = [1..(n - (r - 1)) -> T] /\ S[r] = [1..(n - r) -> T]
    OBVIOUS
  <2>2. step[r] = [v \in [1..(n - (r - 1)) -> T] |-> RemoveAt(v, numbers[r] + 1)]
    OBVIOUS
  <2> HIDE DEF S, step
  <2> QED BY <1>2, <2>1, <2>2
<1>4. PICK p : Rounds(p, items, step, k) /\ \A r \in 0..k : p[r] \in [1..(n - r) -> T]
  <2>1. items \in S[0]
    OBVIOUS
  <2>2. PICK p : Rounds(p, items, step, k) /\ \A r \in 0..k : p[r] \in S[r]
    <3> HIDE DEF S, step
    <3> QED BY <1>1, <1>3, <2>1, LoopHasRounds, Zenon
  <2>3. \A r \in 0..k : S[r] = [1..(n - r) -> T]
    OBVIOUS
  <2> HIDE DEF S, step
  <2> QED BY <2>2, <2>3
<1> DEFINE Loop(f) ==
      f = [r \in 0..Len(numbers) |->
             IF r = 0 THEN items ELSE RemoveAt(f[r - 1], numbers[r] + 1)]
<1>5. Loop(p)
  <2>1. ASSUME NEW r \in 0..k
        PROVE  (IF r = 0 THEN items ELSE step[r][p[r - 1]]) =
               (IF r = 0 THEN items ELSE RemoveAt(p[r - 1], numbers[r] + 1))
    <3>1. CASE r = 0
      BY <3>1
    <3>2. CASE r # 0
      <4>1. r \in 1..k /\ r - 1 \in 0..k
        BY <3>2
      <4>2. p[r - 1] \in [1..(n - (r - 1)) -> T]
        BY <1>4, <4>1
      <4>3. step[r] = [v \in [1..(n - (r - 1)) -> T] |-> RemoveAt(v, numbers[r] + 1)]
        BY <4>1
      <4> HIDE DEF step
      <4> QED BY <3>2, <4>2, <4>3
    <3> QED BY <3>1, <3>2
  <2>2. p = [r \in 0..k |-> IF r = 0 THEN items ELSE step[r][p[r - 1]]]
    BY <1>4 DEF Rounds
  <2> HIDE DEF step
  <2>3. p = [r \in 0..k |-> IF r = 0 THEN items ELSE RemoveAt(p[r - 1], numbers[r] + 1)]
    BY <2>1, <2>2
  <2> QED BY <1>1, <2>3
<1>6. PICK q : q = Pools(items, numbers) /\ Loop(q)
  <2>1. Pools(items, numbers) = CHOOSE f : Loop(f)
    BY Zenon DEF Pools
  <2> HIDE DEF Loop
  <2> QED BY <1>5, <2>1
<1>7. q[0] = items /\ \A r \in 1..k : q[r] = RemoveAt(q[r - 1], numbers[r] + 1)
  BY <1>1, <1>6
<1> DEFINE G == {r \in 0..k : q[r] \in [1..(n - r) -> T]}
<1>8. 0 \in G
  BY <1>7
<1>9. ASSUME NEW r \in 1..k, r - 1 \in G PROVE r \in G
  <2>1. q[r - 1] \in [1..(n - (r - 1)) -> T]
    BY <1>9
  <2> QED BY <1>2, <1>7, <2>1
<1>10. \A r \in 0..k : r \in G
  <2> HIDE DEF G
  <2> QED BY <1>1, <1>8, <1>9, EveryRound
<1> QED BY <1>6, <1>7, <1>10 DEF ArePools

StayDistinct(p, n, k, T) ==
  \A r \in 0..k : p[r] \in [1..(n - r) -> T] /\ Distinct(p[r], n - r)

LEMMA PoolsStayDistinct ==
  ASSUME NEW n \in Nat, NEW k \in 0..n, NEW T, NEW items \in [1..n -> T], Distinct(items, n),
         NEW numbers \in Numbers(k, Falling(n, k))
  PROVE  StayDistinct(Pools(items, numbers), n, k, T)
<1>1. k \in Nat /\ \A r \in 1..k : numbers[r] + 1 \in 1..(n + 1 - r)
  <2>1. numbers \in {j \in [1..k -> Nat] : \A r \in 1..k : j[r] + 1 \in 1..(n + 1 - r)}
    BY FallingIs
  <2> QED BY <2>1
<1>2. PICK p : p = Pools(items, numbers)
  OBVIOUS
<1>3. /\ p[0] = items
      /\ \A r \in 0..k : p[r] \in [1..(n - r) -> T]
      /\ \A r \in 1..k : p[r] = RemoveAt(p[r - 1], numbers[r] + 1)
  <2>1. ArePools(p, items, n, k, numbers, T)
    BY <1>2, PoolsAre
  <2> QED BY <2>1 DEF ArePools
<1> DEFINE G == {r \in 0..k : Distinct(p[r], n - r)}
<1>4. 0 \in G
  BY <1>3
<1>5. ASSUME NEW r \in 1..k, r - 1 \in G PROVE r \in G
  <2>1. PICK l \in Nat, i \in Nat : /\ l = n - (r - 1) /\ l >= 1 /\ l - 1 = n - r
                                    /\ i = numbers[r] + 1 /\ i \in 1..l
    <3>1. n - (r - 1) \in Nat /\ n - (r - 1) >= 1 /\ n + 1 - r = n - (r - 1) /\ n - (r - 1) - 1 = n - r
      OBVIOUS
    <3>2. numbers[r] + 1 \in 1..(n - (r - 1)) /\ numbers[r] + 1 \in Nat
      BY <1>1, <3>1
    <3> QED BY <3>1, <3>2
  <2>2. PICK s, t : s = p[r - 1] /\ t = p[r]
    OBVIOUS
  <2>3. s \in [1..l -> T] /\ t = RemoveAt(s, i)
    <3>1. r - 1 \in 0..k
      OBVIOUS
    <3> QED BY <1>3, <2>1, <2>2, <3>1
  <2>4. IsRemoval(t, s, l, i, T)
    BY <2>1, <2>3, RemovedIs
  <2>5. Distinct(s, l)
    BY <1>5, <2>1, <2>2
  <2> QED BY <2>1, <2>2, <2>4, <2>5 DEF IsRemoval
<1>6. \A r \in 0..k : r \in G
  <2> HIDE DEF G
  <2> QED BY <1>1, <1>4, <1>5, EveryRound
<1> QED BY <1>2, <1>3, <1>6 DEF StayDistinct

IsSample(out, p, items, n, k, numbers, T) ==
  /\ out \in [1..k -> T]
  /\ \A r \in 1..k : out[r] = p[r - 1][numbers[r] + 1]
  /\ \A r \in 1..k : \E y \in 1..n : out[r] = items[y]
  /\ Distinct(out, k)

\* A sample of distinct items has k of them, none twice.
LEMMA SampledIs ==
  ASSUME NEW n \in Nat, NEW k \in 0..n, NEW T, NEW items \in [1..n -> T], Distinct(items, n),
         NEW numbers \in Numbers(k, Falling(n, k))
  PROVE  IsSample(Sampled(items, numbers), Pools(items, numbers), items, n, k, numbers, T)
<1>1. /\ numbers \in [1..k -> Nat] /\ Len(numbers) = k /\ k \in Nat
      /\ \A r \in 1..k : numbers[r] + 1 \in 1..(n + 1 - r)
  <2>1. numbers \in {j \in [1..k -> Nat] : \A r \in 1..k : j[r] + 1 \in 1..(n + 1 - r)}
    BY FallingIs
  <2> QED BY <2>1
<1>2. PICK p : p = Pools(items, numbers)
  OBVIOUS
<1>3. /\ p[0] = items
      /\ \A r \in 0..k : p[r] \in [1..(n - r) -> T]
      /\ \A r \in 1..k : p[r] = RemoveAt(p[r - 1], numbers[r] + 1)
  <2>1. ArePools(p, items, n, k, numbers, T)
    BY <1>2, PoolsAre
  <2> QED BY <2>1 DEF ArePools
<1>4. PICK out : out = Sampled(items, numbers)
                 /\ out = [r \in 1..k |-> p[r - 1][numbers[r] + 1]]
  <2>1. Sampled(items, numbers) = [r \in 1..k |-> p[r - 1][numbers[r] + 1]]
    BY <1>1, <1>2 DEF Sampled
  <2> QED BY <2>1
<1>5. \A r \in 1..k : out[r] = p[r - 1][numbers[r] + 1]
  BY <1>4
<1> DEFINE G == {r \in 0..k :
             /\ Distinct(p[r], n - r)
             /\ \A x \in 1..(n - r) : \E y \in 1..n :
                  p[r][x] = items[y] /\ \A q \in 1..r : items[y] # out[q]}
<1>6. 0 \in G
  <2>1. n - 0 = n
    OBVIOUS
  <2>2. Distinct(p[0], n - 0)
    BY <1>3, <2>1
  <2>3. \A x \in 1..(n - 0) : p[0][x] = items[x] /\ \A q \in 1..0 : items[x] # out[q]
    BY <1>3
  <2> QED BY <2>1, <2>2, <2>3
<1>7. ASSUME NEW r \in 1..k, r - 1 \in G PROVE r \in G
  <2>1. PICK l \in Nat, i \in Nat : /\ l = n - (r - 1) /\ l >= 1 /\ l - 1 = n - r
                                    /\ i = numbers[r] + 1 /\ i \in 1..l
    <3>1. n - (r - 1) \in Nat /\ n - (r - 1) >= 1 /\ n + 1 - r = n - (r - 1) /\ n - (r - 1) - 1 = n - r
      OBVIOUS
    <3>2. numbers[r] + 1 \in 1..(n - (r - 1)) /\ numbers[r] + 1 \in Nat
      BY <1>1, <3>1
    <3> QED BY <3>1, <3>2
  <2>2. PICK s, t : s = p[r - 1] /\ t = p[r]
    OBVIOUS
  <2>3. s \in [1..l -> T] /\ t = RemoveAt(s, i) /\ out[r] = s[i]
    <3>1. r - 1 \in 0..k
      OBVIOUS
    <3> QED BY <1>3, <1>5, <2>1, <2>2, <3>1
  <2>4. IsRemoval(t, s, l, i, T)
    BY <2>1, <2>3, RemovedIs
  <2>5. Distinct(s, l) /\ \A x \in 1..l : \E y \in 1..n :
                            s[x] = items[y] /\ \A q \in 1..(r - 1) : items[y] # out[q]
    BY <1>7, <2>1, <2>2
  <2>6. Distinct(t, l - 1)
    BY <2>4, <2>5 DEF IsRemoval
  <2>7. ASSUME NEW x \in 1..(l - 1)
        PROVE  \E y \in 1..n : t[x] = items[y] /\ \A q \in 1..r : items[y] # out[q]
    <3>1. PICK z \in 1..l : z # i /\ t[x] = s[z]
      BY <2>4 DEF IsRemoval
    <3>2. PICK y \in 1..n : s[z] = items[y] /\ \A q \in 1..(r - 1) : items[y] # out[q]
      BY <2>5
    <3>3. s[z] # s[i]
      BY <2>1, <2>5, <3>1 DEF Distinct
    <3>4. \A q \in 1..r : items[y] # out[q]
      <4> TAKE q \in 1..r
      <4>1. q \in 1..(r - 1) \/ q = r
        OBVIOUS
      <4> QED BY <2>3, <3>2, <3>3, <4>1
    <3> QED BY <3>1, <3>2, <3>4
  <2>8. l - 1 = n - r /\ t = p[r] /\ r \in 0..k
    BY <2>1, <2>2
  <2>9. Distinct(p[r], n - r)
    BY <2>6, <2>8
  <2>10. \A x \in 1..(n - r) : \E y \in 1..n :
           p[r][x] = items[y] /\ \A q \in 1..r : items[y] # out[q]
    BY <2>7, <2>8
  <2> QED BY <2>8, <2>9, <2>10
<1>8. \A r \in 0..k : r \in G
  <2> HIDE DEF G
  <2> QED BY <1>1, <1>6, <1>7, EveryRound
<1>9. ASSUME NEW r \in 1..k
      PROVE  \E y \in 1..n : out[r] = items[y] /\ \A q \in 1..(r - 1) : out[r] # out[q]
  <2>1. numbers[r] + 1 \in 1..(n - (r - 1)) /\ r - 1 \in 0..k
    BY <1>1
  <2>2. PICK y \in 1..n : /\ p[r - 1][numbers[r] + 1] = items[y]
                          /\ \A q \in 1..(r - 1) : items[y] # out[q]
    BY <1>8, <2>1
  <2> QED BY <1>5, <2>2
<1>10. Distinct(out, k)
  <2>1. ASSUME NEW x \in 1..k, NEW y \in 1..k, out[x] = out[y] PROVE x = y
    <3>1. ~(x < y)
      <4>1. x < y => x \in 1..(y - 1)
        OBVIOUS
      <4> QED BY <1>9, <2>1, <4>1
    <3>2. ~(y < x)
      <4>1. y < x => y \in 1..(x - 1)
        OBVIOUS
      <4> QED BY <1>9, <2>1, <4>1
    <3> QED BY <3>1, <3>2
  <2> QED BY <2>1 DEF Distinct
<1>11. out \in [1..k -> T]
  <2>1. \A r \in 1..k : out[r] \in T
    BY <1>9
  <2> QED BY <1>4, <2>1
<1> QED BY <1>2, <1>4, <1>5, <1>9, <1>10, <1>11 DEF IsSample

\* The numbers of a sample can be told from it.
LEMMA SampleTellsNumbers ==
  ASSUME NEW n \in Nat, NEW k \in 0..n, NEW T, NEW items \in [1..n -> T], Distinct(items, n),
         NEW a \in Numbers(k, Falling(n, k)), NEW b \in Numbers(k, Falling(n, k)),
         Sampled(items, a) = Sampled(items, b)
  PROVE  a = b
<1>1. PICK p, q, out : p = Pools(items, a) /\ q = Pools(items, b) /\ out = Sampled(items, a)
  OBVIOUS
<1>2. /\ a \in [1..k -> Nat] /\ b \in [1..k -> Nat] /\ k \in Nat
      /\ \A r \in 1..k : a[r] + 1 \in 1..(n + 1 - r) /\ b[r] + 1 \in 1..(n + 1 - r)
  <2>1. /\ a \in {j \in [1..k -> Nat] : \A r \in 1..k : j[r] + 1 \in 1..(n + 1 - r)}
        /\ b \in {j \in [1..k -> Nat] : \A r \in 1..k : j[r] + 1 \in 1..(n + 1 - r)}
    BY FallingIs
  <2> QED BY <2>1
<1>3. p[0] = items /\ \A r \in 1..k : p[r] = RemoveAt(p[r - 1], a[r] + 1)
  <2>1. ArePools(p, items, n, k, a, T)
    BY <1>1, PoolsAre
  <2> QED BY <2>1 DEF ArePools
<1>4. q[0] = items /\ \A r \in 1..k : q[r] = RemoveAt(q[r - 1], b[r] + 1)
  <2>1. ArePools(q, items, n, k, b, T)
    BY <1>1, PoolsAre
  <2> QED BY <2>1 DEF ArePools
<1>5. \A r \in 1..k : out[r] = p[r - 1][a[r] + 1]
  <2>1. IsSample(out, p, items, n, k, a, T)
    BY <1>1, SampledIs
  <2> QED BY <2>1 DEF IsSample
<1>6. \A r \in 1..k : out[r] = q[r - 1][b[r] + 1]
  <2>1. IsSample(out, q, items, n, k, b, T)
    BY <1>1, SampledIs
  <2> QED BY <2>1 DEF IsSample
<1>7. \A r \in 0..k : p[r] \in [1..(n - r) -> T] /\ Distinct(p[r], n - r)
  BY <1>1, PoolsStayDistinct DEF StayDistinct
<1> DEFINE G == {r \in 0..k : p[r] = q[r] /\ (r # 0 => a[r] = b[r])}
<1>8. 0 \in G
  BY <1>3, <1>4
<1>9. ASSUME NEW r \in 1..k, r - 1 \in G PROVE r \in G
  <2>0. PICK l \in Nat : l = n - (r - 1) /\ l = n + 1 - r
    OBVIOUS
  <2>1. PICK s : s = p[r - 1] /\ s = q[r - 1] /\ l = n - (r - 1) /\ l = n + 1 - r
    BY <1>9, <2>0
  <2>2. PICK i \in Nat, j \in Nat : /\ i = a[r] + 1 /\ j = b[r] + 1
                                    /\ i \in 1..l /\ j \in 1..l /\ s[i] = s[j]
    <3>1. a[r] + 1 \in 1..l /\ b[r] + 1 \in 1..l
      BY <1>2, <2>1
    <3>2. s[a[r] + 1] = s[b[r] + 1]
      <4>1. out[r] = p[r - 1][a[r] + 1] /\ out[r] = q[r - 1][b[r] + 1]
        BY <1>5, <1>6
      <4> QED BY <2>1, <4>1, Zenon
    <3> QED BY <3>1, <3>2
  <2>3. Distinct(s, l)
    <3>1. r - 1 \in 0..k
      OBVIOUS
    <3> QED BY <1>7, <2>1, <3>1
  <2>4. i = j
    BY <2>2, <2>3 DEF Distinct
  <2>5. p[r] = q[r]
    BY <1>3, <1>4, <2>1, <2>2, <2>4
  <2>6. a[r] = b[r]
    <3>1. PICK c \in Nat, d \in Nat : c = a[r] /\ d = b[r]
      BY <1>2
    <3>2. c + 1 = d + 1
      BY <2>2, <2>4, <3>1
    <3> QED BY <3>1, <3>2
  <2> QED BY <2>5, <2>6
<1>10. \A r \in 0..k : r \in G
  <2> HIDE DEF G
  <2> QED BY <1>2, <1>8, <1>9, EveryRound
<1>11. \A r \in 1..k : a[r] = b[r]
  BY <1>10
<1> QED BY <1>2, <1>11

\* These k things are different ones of the items.
IsChoice(out, k, items, n, T) ==
  /\ items \in [1..n -> T] /\ Distinct(items, n)
  /\ out \in [1..k -> T] /\ Distinct(out, k)
  /\ \A r \in 1..k : \E y \in 1..n : out[r] = items[y]

\* Every choice of k items can be the sample.
LEMMA SampleReachesAll ==
  ASSUME NEW n \in Nat, NEW k \in 0..n, NEW T, NEW items, NEW out, IsChoice(out, k, items, n, T)
  PROVE  \E a \in Numbers(k, Falling(n, k)) : Sampled(items, a) = out
<1>0. /\ k \in Nat
      /\ items \in [1..n -> T] /\ Distinct(items, n)
      /\ out \in [1..k -> T] /\ Distinct(out, k)
      /\ \A r \in 1..k : \E y \in 1..n : out[r] = items[y]
  BY DEF IsChoice
<1> DEFINE left(r) == {P \in [1..(n - r) -> T] :
                        \A y \in 1..n : (\A q \in 1..r : out[q] # items[y]) =>
                          \E x \in 1..(n - r) : P[x] = items[y]}
           at(P, r) == CHOOSE i \in 1..(n - (r - 1)) : P[i] = out[r]
<1>1. ASSUME NEW r \in 1..k, NEW P \in left(r - 1)
      PROVE  /\ at(P, r) \in 1..(n - (r - 1)) /\ P[at(P, r)] = out[r]
             /\ RemoveAt(P, at(P, r)) \in left(r)
  <2>1. PICK l \in Nat : l = n - (r - 1) /\ l >= 1 /\ l - 1 = n - r
    OBVIOUS
  <2>2. \E i \in 1..l : P[i] = out[r]
    <3>1. PICK y \in 1..n : out[r] = items[y]
      BY <1>0
    <3>2. \A q \in 1..(r - 1) : out[q] # items[y]
      <4> TAKE q \in 1..(r - 1)
      <4>1. q \in 1..k /\ q # r
        OBVIOUS
      <4> QED BY <1>0, <3>1, <4>1 DEF Distinct
    <3>3. \E x \in 1..(n - (r - 1)) : P[x] = items[y]
      BY <3>2
    <3> QED BY <2>1, <3>1, <3>3
  <2>3. PICK i \in 1..l : i = at(P, r) /\ P[i] = out[r]
    BY <2>1, <2>2
  <2> HIDE DEF at
  <2>4. P \in [1..l -> T]
    BY <2>1
  <2>5. PICK t : t = RemoveAt(P, i) /\ IsRemoval(t, P, l, i, T)
    BY <2>1, <2>4, RemovedIs
  <2>6. t \in [1..(n - r) -> T]
    BY <2>1, <2>5 DEF IsRemoval
  <2>7. ASSUME NEW y \in 1..n, \A q \in 1..r : out[q] # items[y]
        PROVE  \E x \in 1..(n - r) : t[x] = items[y]
    <3>1. \A q \in 1..(r - 1) : out[q] # items[y]
      BY <2>7
    <3>2. PICK z \in 1..(n - (r - 1)) : P[z] = items[y]
      BY <3>1
    <3>3. z \in 1..l /\ z # i
      BY <2>1, <2>3, <2>7, <3>2
    <3>4. \E x \in 1..(l - 1) : t[x] = P[z]
      BY <2>5, <3>3 DEF IsRemoval
    <3> QED BY <2>1, <3>2, <3>4
  <2>8. t \in left(r)
    BY <2>6, <2>7
  <2> QED BY <2>1, <2>3, <2>5, <2>8
<1> DEFINE S == [r \in Nat |-> left(r)]
           step == [r \in 1..k |-> [P \in left(r - 1) |-> RemoveAt(P, at(P, r))]]
<1>2. \A r \in 1..k : step[r] \in [S[r - 1] -> S[r]]
  <2> TAKE r \in 1..k
  <2> HIDE DEF left, at
  <2>1. S[r - 1] = left(r - 1) /\ S[r] = left(r)
    OBVIOUS
  <2>2. step[r] = [P \in left(r - 1) |-> RemoveAt(P, at(P, r))]
    OBVIOUS
  <2> HIDE DEF S, step
  <2> QED BY <1>1, <2>1, <2>2
<1>3. items \in left(0)
  BY <1>0
<1>4. PICK p : Rounds(p, items, step, k) /\ \A r \in 0..k : p[r] \in left(r)
  <2> HIDE DEF left, at
  <2>1. items \in S[0]
    BY <1>3
  <2>2. PICK p : Rounds(p, items, step, k) /\ \A r \in 0..k : p[r] \in S[r]
    <3> HIDE DEF S, step
    <3> QED BY <1>0, <1>2, <2>1, LoopHasRounds, Zenon
  <2>3. \A r \in 0..k : S[r] = left(r)
    OBVIOUS
  <2> HIDE DEF S, step
  <2> QED BY <2>2, <2>3
<1>5. p[0] = items
  BY <1>4 DEF Rounds
<1>6. ASSUME NEW r \in 1..k
      PROVE  /\ at(p[r - 1], r) \in 1..(n - (r - 1)) /\ p[r - 1][at(p[r - 1], r)] = out[r]
             /\ p[r] = RemoveAt(p[r - 1], at(p[r - 1], r))
  <2> HIDE DEF left, at
  <2>1. p[r - 1] \in left(r - 1)
    BY <1>4
  <2>2. step[r] = [P \in left(r - 1) |-> RemoveAt(P, at(P, r))]
    OBVIOUS
  <2>3. p[r] = step[r][p[r - 1]]
    <3> HIDE DEF step
    <3>1. r \in 0..k /\ r # 0
      OBVIOUS
    <3> QED BY <1>4, <3>1 DEF Rounds
  <2> HIDE DEF step
  <2> QED BY <1>1, <2>1, <2>2, <2>3
<1> HIDE DEF left, step
<1> DEFINE a == [r \in 1..k |-> at(p[r - 1], r) - 1]
<1>7. \A r \in 1..k : a[r] \in Nat /\ a[r] + 1 = at(p[r - 1], r) /\ a[r] + 1 \in 1..(n + 1 - r)
  <2> TAKE r \in 1..k
  <2> HIDE DEF at
  <2>1. a[r] = at(p[r - 1], r) - 1
    OBVIOUS
  <2>2. n - (r - 1) = n + 1 - r
    OBVIOUS
  <2>3. PICK i \in Nat : i = at(p[r - 1], r) /\ i \in 1..(n + 1 - r)
    BY <1>6, <2>2
  <2> QED BY <2>1, <2>3
<1>8. a \in Numbers(k, Falling(n, k))
  <2>1. a \in [1..k -> Nat]
    BY <1>7
  <2>2. a \in {j \in [1..k -> Nat] : \A r \in 1..k : j[r] + 1 \in 1..(n + 1 - r)}
    BY <1>7, <2>1
  <2> QED BY <2>2, FallingIs
<1> HIDE DEF a
<1>9. PICK q : /\ q = Pools(items, a) /\ q[0] = items
               /\ \A r \in 1..k : q[r] = RemoveAt(q[r - 1], a[r] + 1)
  <2>1. ArePools(Pools(items, a), items, n, k, a, T)
    BY <1>0, <1>8, PoolsAre
  <2> QED BY <2>1 DEF ArePools
<1> DEFINE G == {r \in 0..k : q[r] = p[r]}
<1>10. 0 \in G
  BY <1>5, <1>9
<1>11. ASSUME NEW r \in 1..k, r - 1 \in G PROVE r \in G
  <2> HIDE DEF at
  <2>1. q[r] = RemoveAt(p[r - 1], at(p[r - 1], r))
    BY <1>7, <1>9, <1>11
  <2> QED BY <1>6, <2>1
<1>12. \A r \in 0..k : r \in G
  <2> HIDE DEF G
  <2> QED BY <1>0, <1>10, <1>11, EveryRound
<1>13. IsSample(Sampled(items, a), q, items, n, k, a, T)
  BY <1>0, <1>8, <1>9, SampledIs
<1>14. \A r \in 1..k : Sampled(items, a)[r] = out[r]
  <2> TAKE r \in 1..k
  <2>1. Sampled(items, a)[r] = q[r - 1][a[r] + 1]
    BY <1>13 DEF IsSample
  <2>2. q[r - 1] = p[r - 1]
    BY <1>12
  <2> QED BY <1>6, <1>7, <2>1, <2>2
<1>15. Sampled(items, a) = out
  <2>1. Sampled(items, a) \in [1..k -> T]
    BY <1>13 DEF IsSample
  <2> QED BY <1>0, <1>14, <2>1
<1> QED BY <1>8, <1>15

LEMMA SampleIs ==
  ASSUME NEW n \in Nat, NEW k, NEW items, Len(items) = n, NEW stream, NEW used
  PROVE  /\ Sample(stream, used, items, k) = Dry <=> Draws(stream, used, Falling(n, k)) = Dry
         /\ Draws(stream, used, Falling(n, k)) # Dry =>
              /\ Sample(stream, used, items, k).out =
                   Sampled(items, Draws(stream, used, Falling(n, k)).out)
              /\ Sample(stream, used, items, k).used = Draws(stream, used, Falling(n, k)).used
<1>1. PICK d : d = Draws(stream, used, Falling(n, k))
  OBVIOUS
<1>2. Sample(stream, used, items, k) =
        IF d = Dry THEN Dry ELSE [out |-> Sampled(items, d.out), used |-> d.used]
  BY <1>1 DEF Sample
<1>3. [out |-> Sampled(items, d.out), used |-> d.used] # Dry
  BY DEF Dry
<1> QED BY <1>1, <1>2, <1>3

LEMMA FallingBounds ==
  ASSUME NEW n \in 0..Words, NEW k \in 0..n
  PROVE  /\ Falling(n, k) \in [1..k -> 1..Words]
         /\ \A r \in 1..k : Falling(n, k)[r] = 1 => r = k
<1>1. n \in Nat /\ Words \in Nat
  BY WordsAssumption
<1>2. \A r \in 1..k : Falling(n, k)[r] = n + 1 - r
  BY <1>1, FallingIs
<1>3. \A r \in 1..k : Falling(n, k)[r] \in 1..Words
  BY <1>1, <1>2
<1>4. \A r \in 1..k : Falling(n, k)[r] = 1 => r = k
  BY <1>1, <1>2
<1> QED BY <1>3, <1>4 DEF Falling

\* The places of n things, as the sample and the shuffle of the draws see them.
LEMMA PlacesAre ==
  ASSUME NEW n \in Nat
  PROVE  /\ [i \in 1..n |-> i] \in [1..n -> 1..n] /\ Len([i \in 1..n |-> i]) = n
         /\ Distinct([i \in 1..n |-> i], n)
BY DEF Distinct

\* A choice is drawn by the streams that draw its numbers.
LEMMA SampledByNumbers ==
  ASSUME NEW m \in Nat, NEW n \in Nat, NEW k \in 0..n, NEW picks \in Picks(n, k)
  PROVE  \E a \in Numbers(k, Falling(n, k)) :
           SampledBy(n, k, m, picks) = DrawnBy(m, k, Falling(n, k), a)
<1>0. PICK T, items : T = 1..n /\ items = [i \in 1..n |-> i]
  OBVIOUS
<1>1. items \in [1..n -> T] /\ Len(items) = n /\ Distinct(items, n)
  BY <1>0, PlacesAre
<1>2. picks \in [1..k -> T] /\ Distinct(picks, k)
  BY <1>0 DEF Picks, IsInjective, Distinct
<1>3. IsChoice(picks, k, items, n, T)
  <2>1. \A r \in 1..k : picks[r] = items[picks[r]] /\ picks[r] \in 1..n
    BY <1>0, <1>2
  <2> QED BY <1>1, <1>2, <2>1 DEF IsChoice
<1>4. PICK a \in Numbers(k, Falling(n, k)) : Sampled(items, a) = picks
  BY <1>3, SampleReachesAll
<1>5. ASSUME NEW s \in Streams(m)
      PROVE  /\ Sample(s, 0, items, k) # Dry /\ Sample(s, 0, items, k).out = picks
             <=> s \in DrawnBy(m, k, Falling(n, k), a)
  <2>1. PICK d : d = Draws(s, 0, Falling(n, k))
    OBVIOUS
  <2>2. /\ Sample(s, 0, items, k) = Dry <=> d = Dry
        /\ d # Dry => Sample(s, 0, items, k).out = Sampled(items, d.out)
    BY <1>1, <2>1, SampleIs
  <2>3. s \in DrawnBy(m, k, Falling(n, k), a) <=> d # Dry /\ d.out = a
    BY <2>1 DEF DrawnBy
  <2>4. ASSUME d # Dry PROVE d.out \in Numbers(k, Falling(n, k))
    <3>1. 0 \in 0..(m + 1) /\ k \in Nat
      OBVIOUS
    <3>2. Falling(n, k) \in [1..k -> Nat \ {0}]
      BY FallingIs
    <3>3. PICK u : AreDrawn(d, u, m, s, 0, k, Falling(n, k))
      BY <2>1, <2>4, <3>1, <3>2, DrawsAre
    <3> QED BY <3>3 DEF AreDrawn
  <2>5. ASSUME d # Dry PROVE Sampled(items, d.out) = picks <=> d.out = a
    <3>1. PICK b \in Numbers(k, Falling(n, k)) : b = d.out
      BY <2>4, <2>5
    <3>2. Sampled(items, b) = Sampled(items, a) => b = a
      BY <1>1, SampleTellsNumbers
    <3> QED BY <1>4, <3>1, <3>2
  <2> QED BY <2>2, <2>3, <2>5
<1>6. SampledBy(n, k, m, picks) =
        {s \in Streams(m) : Sample(s, 0, items, k) # Dry /\ Sample(s, 0, items, k).out = picks}
  BY <1>0 DEF SampledBy
<1>7. DrawnBy(m, k, Falling(n, k), a) \subseteq Streams(m)
  BY DEF DrawnBy
<1>8. SampledBy(n, k, m, picks) = DrawnBy(m, k, Falling(n, k), a)
  BY <1>5, <1>6, <1>7
<1> QED BY <1>8

SampledEqually(n, k, m) ==
  \A a, b \in Picks(n, k) :
    /\ SampledBy(n, k, m, a) # {}
    /\ Cardinality(SampledBy(n, k, m, a)) = Cardinality(SampledBy(n, k, m, b))

LEMMA SamplesAreUniform ==
  ASSUME NEW n \in 0..Words, NEW k \in 0..n, NEW m \in Nat, k <= m
  PROVE  SampledEqually(n, k, m)
<1>1. n \in Nat /\ k \in Nat /\ k \in 0..m /\ Words \in Nat
  BY WordsAssumption
<1>2. PICK bounds : /\ bounds = Falling(n, k)
                    /\ bounds \in [1..k -> Nat \ {0}] /\ bounds \in [1..k -> 1..Words]
                    /\ \A r \in 1..k : bounds[r] = 1 => r = k
  BY <1>1, FallingIs, FallingBounds
<1>3. ASSUME NEW p \in Picks(n, k), NEW q \in Picks(n, k)
      PROVE  /\ SampledBy(n, k, m, p) # {}
             /\ Cardinality(SampledBy(n, k, m, p)) = Cardinality(SampledBy(n, k, m, q))
  <2>1. PICK a \in Numbers(k, bounds) : SampledBy(n, k, m, p) = DrawnBy(m, k, bounds, a)
    BY <1>1, <1>2, SampledByNumbers
  <2>2. PICK b \in Numbers(k, bounds) : SampledBy(n, k, m, q) = DrawnBy(m, k, bounds, b)
    BY <1>1, <1>2, SampledByNumbers
  <2>3. DrawnBy(m, k, bounds, a) # {}
    BY <1>1, <1>2, ChancesAreSome
  <2>4. Cardinality(DrawnBy(m, k, bounds, a)) = Cardinality(DrawnBy(m, k, bounds, b))
    BY <1>1, <1>2, ChancesAreEqual
  <2> QED BY <2>1, <2>2, <2>3, <2>4
<1> QED BY <1>3 DEF SampledEqually

-----------------------------------------------------------------------------
(* Shuffles.                                                               *)

IsSwap(t, s, n, i, j, T) ==
  /\ t \in [1..n -> T]
  /\ t[i] = s[j] /\ t[j] = s[i]
  /\ \A x \in 1..n : x # i /\ x # j => t[x] = s[x]
  /\ \A x \in 1..n : \E y \in 1..n : t[x] = s[y]
  /\ \A y \in 1..n : \E x \in 1..n : t[x] = s[y]
  /\ Distinct(s, n) => Distinct(t, n)

LEMMA SwapIs ==
  ASSUME NEW n \in Nat, NEW T, NEW s \in [1..n -> T], NEW i \in 1..n, NEW j \in 1..n
  PROVE  IsSwap(Swap(s, i, j), s, n, i, j, T)
<1>1. PICK t : t = Swap(s, i, j)
               /\ t = [x \in 1..n |-> IF x = j THEN s[i] ELSE IF x = i THEN s[j] ELSE s[x]]
  <2>1. Swap(s, i, j) = [x \in 1..n |-> IF x = j THEN s[i] ELSE IF x = i THEN s[j] ELSE s[x]]
    BY DEF Swap
  <2> QED BY <2>1
<1>2. /\ t \in [1..n -> T] /\ t[j] = s[i] /\ t[i] = s[j]
      /\ \A x \in 1..n : x # i /\ x # j => t[x] = s[x]
  BY <1>1
<1>3. \A x \in 1..n : \E y \in 1..n : t[x] = s[y]
  BY <1>2
<1>4. ASSUME NEW y \in 1..n PROVE \E x \in 1..n : t[x] = s[y]
  <2>1. CASE y = i
    BY <1>2, <2>1
  <2>2. CASE y = j
    BY <1>2, <2>2
  <2>3. CASE y # i /\ y # j
    BY <1>2, <2>3
  <2> QED BY <2>1, <2>2, <2>3
<1>5. Distinct(s, n) => Distinct(t, n)
  BY <1>1 DEF Distinct
<1> QED BY <1>1, <1>2, <1>3, <1>4, <1>5 DEF IsSwap

\* The places after each round of the shuffle.
Shuffling(items, numbers) ==
  LET after[r \in 0..Len(numbers)] ==
        IF r = 0 THEN items ELSE Swap(after[r - 1], Len(items) + 1 - r, numbers[r] + 1)
  IN after

LEMMA ShuffledIs ==
  ASSUME NEW items, NEW numbers
  PROVE  Shuffled(items, numbers) = Shuffling(items, numbers)[Len(numbers)]
BY DEF Shuffled, Shuffling

ArePlaces(p, items, n, numbers, T) ==
  /\ p[0] = items
  /\ \A r \in 0..(n - 1) : p[r] \in [1..n -> T]
  /\ \A r \in 1..(n - 1) : p[r] = Swap(p[r - 1], n + 1 - r, numbers[r] + 1)

\* Where the r-th round of the shuffle may swap.
LEMMA RoundsOfShuffle ==
  ASSUME NEW n \in Nat, n >= 1, NEW numbers \in Numbers(n - 1, Falling(n, n - 1))
  PROVE  /\ numbers \in [1..(n - 1) -> Nat] /\ Len(numbers) = n - 1
         /\ \A r \in 1..(n - 1) : numbers[r] + 1 \in 1..(n + 1 - r) /\ numbers[r] + 1 \in 1..n
<1>1. n - 1 \in 0..n
  OBVIOUS
<1>2. numbers \in {j \in [1..(n - 1) -> Nat] : \A r \in 1..(n - 1) : j[r] + 1 \in 1..(n + 1 - r)}
  BY <1>1, FallingIs
<1>3. ASSUME NEW r \in 1..(n - 1) PROVE numbers[r] + 1 \in 1..n
  <2>1. PICK c \in Nat : c = numbers[r] + 1 /\ c \in 1..(n + 1 - r)
    BY <1>2
  <2> QED BY <2>1
<1> QED BY <1>1, <1>2, <1>3

LEMMA ShufflingIs ==
  ASSUME NEW n \in Nat, n >= 1, NEW T, NEW items \in [1..n -> T],
         NEW numbers \in Numbers(n - 1, Falling(n, n - 1))
  PROVE  ArePlaces(Shuffling(items, numbers), items, n, numbers, T)
<1>1. PICK k \in Nat : k = n - 1
  OBVIOUS
<1>2. /\ Len(numbers) = k /\ Len(items) = n
      /\ \A r \in 1..k : numbers[r] + 1 \in 1..n /\ n + 1 - r \in 1..n
  BY <1>1, RoundsOfShuffle
<1>3. ASSUME NEW r \in 1..k, NEW v \in [1..n -> T]
      PROVE  Swap(v, n + 1 - r, numbers[r] + 1) \in [1..n -> T]
  <2>1. PICK i \in 1..n, j \in 1..n : i = n + 1 - r /\ j = numbers[r] + 1
    BY <1>2
  <2>2. IsSwap(Swap(v, i, j), v, n, i, j, T)
    BY <1>3, SwapIs
  <2> QED BY <2>1, <2>2 DEF IsSwap
<1> DEFINE S == [r \in Nat |-> [1..n -> T]]
           step == [r \in 1..k |-> [v \in [1..n -> T] |-> Swap(v, n + 1 - r, numbers[r] + 1)]]
<1>4. \A r \in 1..k : step[r] \in [S[r - 1] -> S[r]]
  <2> TAKE r \in 1..k
  <2>1. S[r - 1] = [1..n -> T] /\ S[r] = [1..n -> T]
    OBVIOUS
  <2>2. step[r] = [v \in [1..n -> T] |-> Swap(v, n + 1 - r, numbers[r] + 1)]
    OBVIOUS
  <2> HIDE DEF S, step
  <2> QED BY <1>3, <2>1, <2>2
<1>5. PICK p : Rounds(p, items, step, k) /\ \A r \in 0..k : p[r] \in [1..n -> T]
  <2>1. items \in S[0]
    OBVIOUS
  <2>2. PICK p : Rounds(p, items, step, k) /\ \A r \in 0..k : p[r] \in S[r]
    <3> HIDE DEF S, step
    <3> QED BY <1>4, <2>1, LoopHasRounds, Zenon
  <2>3. \A r \in 0..k : S[r] = [1..n -> T]
    OBVIOUS
  <2> HIDE DEF S, step
  <2> QED BY <2>2, <2>3
<1> DEFINE Loop(f) ==
      f = [r \in 0..Len(numbers) |->
             IF r = 0 THEN items ELSE Swap(f[r - 1], Len(items) + 1 - r, numbers[r] + 1)]
<1>6. Loop(p)
  <2>1. ASSUME NEW r \in 0..k
        PROVE  (IF r = 0 THEN items ELSE step[r][p[r - 1]]) =
               (IF r = 0 THEN items ELSE Swap(p[r - 1], n + 1 - r, numbers[r] + 1))
    <3>1. CASE r = 0
      BY <3>1
    <3>2. CASE r # 0
      <4>1. r \in 1..k /\ r - 1 \in 0..k
        BY <3>2
      <4>2. p[r - 1] \in [1..n -> T]
        BY <1>5, <4>1
      <4>3. step[r] = [v \in [1..n -> T] |-> Swap(v, n + 1 - r, numbers[r] + 1)]
        BY <4>1
      <4> HIDE DEF step
      <4> QED BY <3>2, <4>2, <4>3
    <3> QED BY <3>1, <3>2
  <2>2. p = [r \in 0..k |-> IF r = 0 THEN items ELSE step[r][p[r - 1]]]
    BY <1>5 DEF Rounds
  <2> HIDE DEF step
  <2>3. p = [r \in 0..k |-> IF r = 0 THEN items ELSE Swap(p[r - 1], n + 1 - r, numbers[r] + 1)]
    BY <2>1, <2>2
  <2> QED BY <1>2, <2>3
<1>7. PICK q : q = Shuffling(items, numbers) /\ Loop(q)
  <2>1. Shuffling(items, numbers) = CHOOSE f : Loop(f)
    BY Zenon DEF Shuffling
  <2> HIDE DEF Loop
  <2> QED BY <1>6, <2>1
<1>8. q[0] = items /\ \A r \in 1..k : q[r] = Swap(q[r - 1], n + 1 - r, numbers[r] + 1)
  BY <1>2, <1>7
<1> DEFINE G == {r \in 0..k : q[r] \in [1..n -> T]}
<1>9. 0 \in G
  BY <1>8
<1>10. ASSUME NEW r \in 1..k, r - 1 \in G PROVE r \in G
  BY <1>3, <1>8, <1>10
<1>11. \A r \in 0..k : r \in G
  <2> HIDE DEF G
  <2> QED BY <1>9, <1>10, EveryRound
<1> QED BY <1>1, <1>7, <1>8, <1>11 DEF ArePlaces

\* After every round the items are all there, and those of the places the
\* rounds have passed stay where they are.
Keeps(p, items, n) ==
  /\ \A r \in 0..(n - 1) :
       /\ \A x \in 1..n : \E y \in 1..n : p[r][x] = items[y]
       /\ Distinct(items, n) => Distinct(p[r], n)
  /\ \A r \in 1..(n - 1) : p[n - 1][n + 1 - r] = p[r][n + 1 - r]

LEMMA ShufflingKeeps ==
  ASSUME NEW n \in Nat, n >= 1, NEW T, NEW items \in [1..n -> T],
         NEW numbers \in Numbers(n - 1, Falling(n, n - 1))
  PROVE  Keeps(Shuffling(items, numbers), items, n)
<1>1. PICK k \in Nat : k = n - 1
  OBVIOUS
<1>2. \A r \in 1..k : numbers[r] + 1 \in 1..(n + 1 - r) /\ numbers[r] + 1 \in 1..n /\ n + 1 - r \in 1..n
  BY <1>1, RoundsOfShuffle
<1>3. PICK p : p = Shuffling(items, numbers)
  OBVIOUS
<1>4. /\ p[0] = items
      /\ \A r \in 0..k : p[r] \in [1..n -> T]
      /\ \A r \in 1..k : p[r] = Swap(p[r - 1], n + 1 - r, numbers[r] + 1)
  <2>1. ArePlaces(p, items, n, numbers, T)
    BY <1>3, ShufflingIs
  <2> QED BY <1>1, <2>1 DEF ArePlaces
<1>5. ASSUME NEW r \in 1..k
      PROVE  \E i \in 1..n, j \in 1..n : /\ i = n + 1 - r /\ j = numbers[r] + 1 /\ j <= i
                                         /\ IsSwap(p[r], p[r - 1], n, i, j, T)
  <2>1. PICK i \in 1..n, j \in 1..n : i = n + 1 - r /\ j = numbers[r] + 1
    BY <1>2
  <2>2. j <= i
    BY <1>2, <2>1
  <2>3. p[r - 1] \in [1..n -> T] /\ p[r] = Swap(p[r - 1], i, j)
    <3>1. r - 1 \in 0..k
      OBVIOUS
    <3> QED BY <1>4, <2>1, <3>1
  <2>4. IsSwap(p[r], p[r - 1], n, i, j, T)
    BY <2>3, SwapIs
  <2> QED BY <2>1, <2>2, <2>4
<1> DEFINE G == {r \in 0..k : /\ \A x \in 1..n : \E y \in 1..n : p[r][x] = items[y]
                              /\ Distinct(items, n) => Distinct(p[r], n)}
<1>6. 0 \in G
  BY <1>4
<1>7. ASSUME NEW r \in 1..k, r - 1 \in G PROVE r \in G
  <2>1. PICK i \in 1..n, j \in 1..n : IsSwap(p[r], p[r - 1], n, i, j, T)
    BY <1>5
  <2>2. /\ \A x \in 1..n : \E y \in 1..n : p[r][x] = p[r - 1][y]
        /\ Distinct(p[r - 1], n) => Distinct(p[r], n)
    BY <2>1 DEF IsSwap
  <2>3. ASSUME NEW x \in 1..n PROVE \E y \in 1..n : p[r][x] = items[y]
    <3>1. PICK z \in 1..n : p[r][x] = p[r - 1][z]
      BY <2>2
    <3> QED BY <1>7, <3>1
  <2>4. Distinct(items, n) => Distinct(p[r - 1], n)
    BY <1>7
  <2>5. Distinct(items, n) => Distinct(p[r], n)
    BY <2>2, <2>4
  <2>6. r \in 0..k
    OBVIOUS
  <2> QED BY <2>3, <2>5, <2>6, Zenon
<1>8. \A r \in 0..k : r \in G
  <2> HIDE DEF G
  <2> QED BY <1>6, <1>7, EveryRound
<1>9. ASSUME NEW r \in 1..k PROVE p[k][n + 1 - r] = p[r][n + 1 - r]
  <2> DEFINE H == {q \in 0..k : q >= r => p[q][n + 1 - r] = p[r][n + 1 - r]}
  <2>1. 0 \in H
    OBVIOUS
  <2>2. ASSUME NEW q \in 1..k, q - 1 \in H PROVE q \in H
    <3>1. CASE q <= r
      BY <3>1
    <3>2. CASE q > r
      <4>1. PICK i \in 1..n, j \in 1..n : i = n + 1 - q /\ j <= i /\ IsSwap(p[q], p[q - 1], n, i, j, T)
        BY <1>5
      <4>2. PICK x \in 1..n : x = n + 1 - r
        BY <1>2
      <4>3. x # i /\ x # j
        BY <3>2, <4>1, <4>2
      <4>4. p[q][x] = p[q - 1][x]
        BY <4>1, <4>3 DEF IsSwap
      <4>5. p[q - 1][n + 1 - r] = p[r][n + 1 - r]
        BY <2>2, <3>2
      <4> QED BY <4>2, <4>4, <4>5
    <3> QED BY <3>1, <3>2
  <2>3. \A q \in 0..k : q \in H
    <3> HIDE DEF H
    <3> QED BY <2>1, <2>2, EveryRound
  <2>4. k \in 0..k /\ k >= r
    OBVIOUS
  <2> QED BY <2>3, <2>4
<1> QED BY <1>1, <1>3, <1>8, <1>9 DEF Keeps

LEMMA ShuffleTellsNumbers ==
  ASSUME NEW n \in Nat, n >= 1, NEW T, NEW items \in [1..n -> T], Distinct(items, n),
         NEW a \in Numbers(n - 1, Falling(n, n - 1)), NEW b \in Numbers(n - 1, Falling(n, n - 1)),
         Shuffled(items, a) = Shuffled(items, b)
  PROVE  a = b
<1>1. PICK k \in Nat : k = n - 1
  OBVIOUS
<1>2. PICK p, q : p = Shuffling(items, a) /\ q = Shuffling(items, b)
  OBVIOUS
<1>3. /\ a \in [1..k -> Nat] /\ b \in [1..k -> Nat] /\ Len(a) = k /\ Len(b) = k
      /\ \A r \in 1..k : a[r] + 1 \in 1..n /\ b[r] + 1 \in 1..n /\ n + 1 - r \in 1..n
  <2>1. a \in [1..k -> Nat] /\ Len(a) = k /\ \A r \in 1..k : a[r] + 1 \in 1..n
    BY <1>1, RoundsOfShuffle
  <2>2. b \in [1..k -> Nat] /\ Len(b) = k /\ \A r \in 1..k : b[r] + 1 \in 1..n
    BY <1>1, RoundsOfShuffle
  <2>3. \A r \in 1..k : n + 1 - r \in 1..n
    BY <1>1
  <2> QED BY <2>1, <2>2, <2>3
<1>4. p[k] = q[k]
  BY <1>2, <1>3, ShuffledIs
<1>5. /\ p[0] = items
      /\ \A r \in 0..k : p[r] \in [1..n -> T]
      /\ \A r \in 1..k : p[r] = Swap(p[r - 1], n + 1 - r, a[r] + 1)
  <2>1. ArePlaces(p, items, n, a, T)
    BY <1>2, ShufflingIs
  <2> QED BY <1>1, <2>1 DEF ArePlaces
<1>6. /\ q[0] = items
      /\ \A r \in 0..k : q[r] \in [1..n -> T]
      /\ \A r \in 1..k : q[r] = Swap(q[r - 1], n + 1 - r, b[r] + 1)
  <2>1. ArePlaces(q, items, n, b, T)
    BY <1>2, ShufflingIs
  <2> QED BY <1>1, <2>1 DEF ArePlaces
<1>7. /\ \A r \in 0..k : Distinct(p[r], n)
      /\ \A r \in 1..k : p[k][n + 1 - r] = p[r][n + 1 - r]
  <2>1. Keeps(p, items, n)
    BY <1>2, ShufflingKeeps
  <2> QED BY <1>1, <2>1 DEF Keeps
<1>8. \A r \in 1..k : q[k][n + 1 - r] = q[r][n + 1 - r]
  <2>1. Keeps(q, items, n)
    BY <1>2, ShufflingKeeps
  <2> QED BY <1>1, <2>1 DEF Keeps
<1> DEFINE G == {r \in 0..k : p[r] = q[r] /\ (r # 0 => a[r] = b[r])}
<1>9. 0 \in G
  BY <1>5, <1>6
<1>10. ASSUME NEW r \in 1..k, r - 1 \in G PROVE r \in G
  <2>1. PICK s : s = p[r - 1] /\ s = q[r - 1] /\ s \in [1..n -> T] /\ Distinct(s, n)
    <3>1. r - 1 \in 0..k
      OBVIOUS
    <3> QED BY <1>5, <1>7, <1>10, <3>1
  <2>2. PICK i \in 1..n, c \in 1..n, d \in 1..n : i = n + 1 - r /\ c = a[r] + 1 /\ d = b[r] + 1
    BY <1>3
  <2>3. p[r] = Swap(s, i, c) /\ q[r] = Swap(s, i, d)
    BY <1>5, <1>6, <2>1, <2>2
  <2>4. p[r][i] = q[r][i]
    BY <1>4, <1>7, <1>8, <2>2
  <2>5. p[r][i] = s[c]
    <3>1. IsSwap(p[r], s, n, i, c, T)
      BY <2>1, <2>3, SwapIs
    <3> QED BY <3>1 DEF IsSwap
  <2>6. q[r][i] = s[d]
    <3>1. IsSwap(q[r], s, n, i, d, T)
      BY <2>1, <2>3, SwapIs
    <3> QED BY <3>1 DEF IsSwap
  <2>7. c = d
    BY <2>1, <2>4, <2>5, <2>6 DEF Distinct
  <2>8. a[r] = b[r]
    <3>1. PICK x \in Nat, y \in Nat : x = a[r] /\ y = b[r]
      BY <1>3
    <3>2. x + 1 = y + 1
      BY <2>2, <2>7, <3>1
    <3> QED BY <3>1, <3>2
  <2>9. p[r] = q[r]
    BY <2>3, <2>7
  <2> QED BY <2>8, <2>9
<1>11. \A r \in 0..k : r \in G
  <2> HIDE DEF G
  <2> QED BY <1>9, <1>10, EveryRound
<1>12. \A r \in 1..k : a[r] = b[r]
  BY <1>11
<1> QED BY <1>3, <1>12

\* The items in another order.
IsOrderOf(out, items, n, T) ==
  /\ items \in [1..n -> T] /\ Distinct(items, n)
  /\ out \in [1..n -> T] /\ Distinct(out, n)
  /\ \A y \in 1..n : \E x \in 1..n : items[x] = out[y]

\* Every order can come out of the shuffle.
LEMMA ShuffleReachesAll ==
  ASSUME NEW n \in Nat, n >= 1, NEW T, NEW items, NEW out, IsOrderOf(out, items, n, T)
  PROVE  \E a \in Numbers(n - 1, Falling(n, n - 1)) : Shuffled(items, a) = out
<1>0. PICK k \in Nat : k = n - 1
  OBVIOUS
<1>1. /\ items \in [1..n -> T] /\ out \in [1..n -> T] /\ Distinct(out, n)
      /\ \A y \in 1..n : \E x \in 1..n : items[x] = out[y]
  BY DEF IsOrderOf
<1> DEFINE left(r) == {P \in [1..n -> T] :
                        /\ \A x \in (n + 1 - r)..n : P[x] = out[x]
                        /\ \A y \in 1..n : \E x \in 1..n : P[x] = out[y]}
           at(P, r) == CHOOSE i \in 1..(n + 1 - r) : P[i] = out[n + 1 - r]
<1>2. ASSUME NEW r \in 1..k, NEW P \in left(r - 1)
      PROVE  /\ at(P, r) \in 1..(n + 1 - r)
             /\ Swap(P, n + 1 - r, at(P, r)) \in left(r)
  <2>1. PICK i \in 1..n : i = n + 1 - r
    BY <1>0
  <2>2. \E j \in 1..i : P[j] = out[i]
    <3>1. PICK j \in 1..n : P[j] = out[i]
      OBVIOUS
    <3>2. ASSUME j > i PROVE FALSE
      <4>1. j \in (n + 1 - (r - 1))..n
        BY <2>1, <3>2
      <4>2. P[j] = out[j]
        BY <4>1
      <4>3. j = i
        BY <1>1, <3>1, <4>2 DEF Distinct
      <4> QED BY <3>2, <4>3
    <3>3. j \in 1..i
      BY <3>2
    <3> HIDE DEF left
    <3> QED BY <3>1, <3>3
  <2>3. PICK j \in 1..i : j = at(P, r) /\ P[j] = out[i]
    BY <2>1, <2>2
  <2> HIDE DEF at
  <2>4. PICK t : t = Swap(P, i, j) /\ IsSwap(t, P, n, i, j, T)
    <3>1. j \in 1..n /\ P \in [1..n -> T]
      OBVIOUS
    <3> QED BY <3>1, SwapIs
  <2>5. t \in [1..n -> T]
    BY <2>4 DEF IsSwap
  <2>6. ASSUME NEW x \in (n + 1 - r)..n PROVE t[x] = out[x]
    <3>1. CASE x = i
      BY <2>3, <2>4, <3>1 DEF IsSwap
    <3>2. CASE x # i
      <4>1. x \in (n + 1 - (r - 1))..n /\ x \in 1..n /\ x # j
        BY <1>0, <2>1, <3>2
      <4>2. t[x] = P[x]
        BY <2>4, <3>2, <4>1 DEF IsSwap
      <4> QED BY <4>1, <4>2
    <3> QED BY <3>1, <3>2
  <2>7. ASSUME NEW y \in 1..n PROVE \E x \in 1..n : t[x] = out[y]
    <3>1. PICK z \in 1..n : P[z] = out[y]
      OBVIOUS
    <3>2. \E x \in 1..n : t[x] = P[z]
      BY <2>4 DEF IsSwap
    <3> QED BY <3>1, <3>2
  <2>8. t \in left(r)
    BY <2>5, <2>6, <2>7
  <2> QED BY <2>1, <2>3, <2>4, <2>8
<1> DEFINE S == [r \in Nat |-> left(r)]
           step == [r \in 1..k |-> [P \in left(r - 1) |-> Swap(P, n + 1 - r, at(P, r))]]
<1>3. \A r \in 1..k : step[r] \in [S[r - 1] -> S[r]]
  <2> TAKE r \in 1..k
  <2> HIDE DEF left, at
  <2>1. S[r - 1] = left(r - 1) /\ S[r] = left(r)
    OBVIOUS
  <2>2. step[r] = [P \in left(r - 1) |-> Swap(P, n + 1 - r, at(P, r))]
    OBVIOUS
  <2> HIDE DEF S, step
  <2> QED BY <1>2, <2>1, <2>2
<1>4. items \in left(0)
  <2>1. \A x \in (n + 1 - 0)..n : FALSE
    OBVIOUS
  <2> QED BY <1>1, <2>1
<1>5. PICK p : Rounds(p, items, step, k) /\ \A r \in 0..k : p[r] \in left(r)
  <2> HIDE DEF left, at
  <2>1. items \in S[0]
    BY <1>4
  <2>2. PICK p : Rounds(p, items, step, k) /\ \A r \in 0..k : p[r] \in S[r]
    <3> HIDE DEF S, step
    <3> QED BY <1>3, <2>1, LoopHasRounds, Zenon
  <2>3. \A r \in 0..k : S[r] = left(r)
    OBVIOUS
  <2> HIDE DEF S, step
  <2> QED BY <2>2, <2>3
<1>6. p[0] = items
  BY <1>5 DEF Rounds
<1>7. ASSUME NEW r \in 1..k
      PROVE  /\ at(p[r - 1], r) \in 1..(n + 1 - r)
             /\ p[r] = Swap(p[r - 1], n + 1 - r, at(p[r - 1], r))
  <2> HIDE DEF left, at
  <2>1. p[r - 1] \in left(r - 1)
    BY <1>5
  <2>2. step[r] = [P \in left(r - 1) |-> Swap(P, n + 1 - r, at(P, r))]
    OBVIOUS
  <2>3. p[r] = step[r][p[r - 1]]
    <3> HIDE DEF step
    <3>1. r \in 0..k /\ r # 0
      OBVIOUS
    <3> QED BY <1>5, <3>1 DEF Rounds
  <2> HIDE DEF step
  <2> QED BY <1>2, <2>1, <2>2, <2>3
<1>8. p[k] = out
  <2>1. /\ p[k] \in [1..n -> T]
        /\ \A x \in (n + 1 - k)..n : p[k][x] = out[x]
        /\ \A y \in 1..n : \E x \in 1..n : p[k][x] = out[y]
    <3>1. p[k] \in left(k)
      <4> HIDE DEF left, step
      <4>1. k \in 0..k
        OBVIOUS
      <4> QED BY <1>5, <4>1
    <3> QED BY <3>1
  <2>2. n + 1 - k = 2 /\ 1 \in 1..n
    BY <1>0
  <2>3. PICK x \in 1..n : p[k][x] = out[1]
    BY <2>1, <2>2
  <2>4. x = 1
    <3>1. x # 1 => x \in (n + 1 - k)..n
      BY <2>2
    <3>2. p[k][x] = out[x] => x = 1
      BY <1>1, <2>2, <2>3 DEF Distinct
    <3> QED BY <2>1, <3>1, <3>2
  <2>5. \A y \in 1..n : p[k][y] = out[y]
    <3> TAKE y \in 1..n
    <3>1. y = 1 \/ y \in (n + 1 - k)..n
      BY <2>2
    <3> QED BY <2>1, <2>3, <2>4, <3>1
  <2>6. PICK z : z = p[k]
    OBVIOUS
  <2>7. z \in [1..n -> T] /\ \A y \in 1..n : z[y] = out[y]
    BY <2>1, <2>5, <2>6
  <2>8. z = out
    BY <1>1, <2>7
  <2> QED BY <2>6, <2>8
<1> HIDE DEF left, step
<1> DEFINE a == [r \in 1..k |-> at(p[r - 1], r) - 1]
<1>9. \A r \in 1..k : a[r] \in Nat /\ a[r] + 1 = at(p[r - 1], r) /\ a[r] + 1 \in 1..(n + 1 - r)
  <2> TAKE r \in 1..k
  <2> HIDE DEF at
  <2>1. a[r] = at(p[r - 1], r) - 1
    OBVIOUS
  <2>2. n + 1 - r \in Nat
    BY <1>0
  <2>3. PICK i \in Nat : i = at(p[r - 1], r) /\ i \in 1..(n + 1 - r)
    BY <1>7, <2>2
  <2> QED BY <2>1, <2>3
<1>10. a \in Numbers(n - 1, Falling(n, n - 1)) /\ Len(a) = k
  <2>1. a \in [1..k -> Nat]
    BY <1>9
  <2>2. a \in {j \in [1..k -> Nat] : \A r \in 1..k : j[r] + 1 \in 1..(n + 1 - r)}
    BY <1>9, <2>1
  <2>3. k \in 0..n
    BY <1>0
  <2> HIDE DEF a
  <2>4. a \in Numbers(k, Falling(n, k))
    BY <2>2, <2>3, FallingIs
  <2> QED BY <1>0, <2>1, <2>4
<1> HIDE DEF a
<1>11. PICK q : /\ q = Shuffling(items, a) /\ q[0] = items
                /\ \A r \in 1..k : q[r] = Swap(q[r - 1], n + 1 - r, a[r] + 1)
  <2>1. ArePlaces(Shuffling(items, a), items, n, a, T)
    BY <1>1, <1>10, ShufflingIs
  <2> QED BY <1>0, <2>1 DEF ArePlaces
<1> DEFINE G == {r \in 0..k : q[r] = p[r]}
<1>12. 0 \in G
  BY <1>6, <1>11
<1>13. ASSUME NEW r \in 1..k, r - 1 \in G PROVE r \in G
  <2> HIDE DEF at
  <2>1. q[r] = Swap(p[r - 1], n + 1 - r, at(p[r - 1], r))
    BY <1>9, <1>11, <1>13
  <2> QED BY <1>7, <2>1
<1>14. \A r \in 0..k : r \in G
  <2> HIDE DEF G
  <2> QED BY <1>12, <1>13, EveryRound
<1>15. Shuffled(items, a) = out
  <2>1. k \in 0..k
    OBVIOUS
  <2> QED BY <1>8, <1>10, <1>11, <1>14, <2>1, ShuffledIs
<1> QED BY <1>10, <1>15

LEMMA ShuffleIs ==
  ASSUME NEW n \in Nat, NEW items, Len(items) = n, NEW stream, NEW used
  PROVE  /\ Shuffle(stream, used, items) = Dry <=> Draws(stream, used, Falling(n, n - 1)) = Dry
         /\ Draws(stream, used, Falling(n, n - 1)) # Dry =>
              /\ Shuffle(stream, used, items).out =
                   Shuffled(items, Draws(stream, used, Falling(n, n - 1)).out)
              /\ Shuffle(stream, used, items).used = Draws(stream, used, Falling(n, n - 1)).used
<1>1. PICK d : d = Draws(stream, used, Falling(n, n - 1))
  OBVIOUS
<1>2. Shuffle(stream, used, items) =
        IF d = Dry THEN Dry ELSE [out |-> Shuffled(items, d.out), used |-> d.used]
  BY <1>1 DEF Shuffle
<1>3. [out |-> Shuffled(items, d.out), used |-> d.used] # Dry
  BY DEF Dry
<1> QED BY <1>1, <1>2, <1>3

\* A sequence without repetitions of n out of n things has them all.
LEMMA OrdersReachAll ==
  ASSUME NEW n \in Nat, NEW order \in Orders(n)
  PROVE  \A y \in 1..n : \E x \in 1..n : order[x] = y
<1>1. order \in [1..n -> 1..n] /\ \A x, y \in 1..n : order[x] = order[y] => x = y
  BY DEF Orders, IsInjective
<1>2. order \in Injection(1..n, 1..n)
  BY <1>1 DEF Injection, IsInjective
<1>3. IsFiniteSet(1..n)
  BY FS_Interval
<1>4. order \in Surjection(1..n, 1..n)
  BY <1>2, <1>3, FS_Injection
<1> QED BY <1>4 DEF Surjection

LEMMA ShuffledByNumbers ==
  ASSUME NEW m \in Nat, NEW n \in Nat, n >= 1, NEW order \in Orders(n)
  PROVE  \E a \in Numbers(n - 1, Falling(n, n - 1)) :
           ShuffledBy(n, m, order) = DrawnBy(m, n - 1, Falling(n, n - 1), a)
<1>0. PICK T, items : T = 1..n /\ items = [i \in 1..n |-> i]
  OBVIOUS
<1>1. items \in [1..n -> T] /\ Len(items) = n /\ Distinct(items, n)
  BY <1>0, PlacesAre
<1>2. order \in [1..n -> T] /\ Distinct(order, n)
  BY <1>0 DEF Orders, IsInjective, Distinct
<1>3. IsOrderOf(order, items, n, T)
  <2>1. \A y \in 1..n : items[order[y]] = order[y] /\ order[y] \in 1..n
    BY <1>0, <1>2
  <2> QED BY <1>1, <1>2, <2>1 DEF IsOrderOf
<1>4. PICK a \in Numbers(n - 1, Falling(n, n - 1)) : Shuffled(items, a) = order
  BY <1>3, ShuffleReachesAll
<1>5. ASSUME NEW s \in Streams(m)
      PROVE  /\ Shuffle(s, 0, items) # Dry /\ Shuffle(s, 0, items).out = order
             <=> s \in DrawnBy(m, n - 1, Falling(n, n - 1), a)
  <2>1. PICK d : d = Draws(s, 0, Falling(n, n - 1))
    OBVIOUS
  <2>2. /\ Shuffle(s, 0, items) = Dry <=> d = Dry
        /\ d # Dry => Shuffle(s, 0, items).out = Shuffled(items, d.out)
    BY <1>1, <2>1, ShuffleIs
  <2>3. s \in DrawnBy(m, n - 1, Falling(n, n - 1), a) <=> d # Dry /\ d.out = a
    BY <2>1 DEF DrawnBy
  <2>4. ASSUME d # Dry PROVE d.out \in Numbers(n - 1, Falling(n, n - 1))
    <3>0. PICK k \in Nat : k = n - 1
      OBVIOUS
    <3>1. 0 \in 0..(m + 1) /\ k \in 0..n
      BY <3>0
    <3>2. Falling(n, k) \in [1..k -> Nat \ {0}]
      BY <3>1, FallingIs
    <3>3. PICK u : AreDrawn(d, u, m, s, 0, k, Falling(n, k))
      BY <2>1, <2>4, <3>0, <3>1, <3>2, DrawsAre
    <3> QED BY <3>0, <3>3 DEF AreDrawn
  <2>5. ASSUME d # Dry PROVE Shuffled(items, d.out) = order <=> d.out = a
    <3>1. PICK b \in Numbers(n - 1, Falling(n, n - 1)) : b = d.out
      BY <2>4, <2>5
    <3>2. Shuffled(items, b) = Shuffled(items, a) => b = a
      BY <1>1, ShuffleTellsNumbers
    <3> QED BY <1>4, <3>1, <3>2
  <2> QED BY <2>2, <2>3, <2>5
<1>6. ShuffledBy(n, m, order) =
        {s \in Streams(m) : Shuffle(s, 0, items) # Dry /\ Shuffle(s, 0, items).out = order}
  BY <1>0 DEF ShuffledBy
<1>7. DrawnBy(m, n - 1, Falling(n, n - 1), a) \subseteq Streams(m)
  BY DEF DrawnBy
<1>8. ShuffledBy(n, m, order) = DrawnBy(m, n - 1, Falling(n, n - 1), a)
  BY <1>5, <1>6, <1>7
<1> QED BY <1>8

ShuffledEqually(n, m) ==
  \A a, b \in Orders(n) :
    /\ ShuffledBy(n, m, a) # {}
    /\ Cardinality(ShuffledBy(n, m, a)) = Cardinality(ShuffledBy(n, m, b))

LEMMA ShufflesAreUniform ==
  ASSUME NEW n \in 1..Words, NEW m \in Nat, n <= m + 1
  PROVE  ShuffledEqually(n, m)
<1>1. n \in Nat /\ n >= 1 /\ n \in 0..Words
  BY WordsAssumption
<1>2. PICK k \in Nat : k = n - 1 /\ k \in 0..n /\ k \in 0..m
  BY <1>1
<1>3. PICK bounds : /\ bounds = Falling(n, k)
                    /\ bounds \in [1..k -> Nat \ {0}] /\ bounds \in [1..k -> 1..Words]
                    /\ \A r \in 1..k : bounds[r] = 1 => r = k
  BY <1>1, <1>2, FallingIs, FallingBounds
<1>4. ASSUME NEW p \in Orders(n), NEW q \in Orders(n)
      PROVE  /\ ShuffledBy(n, m, p) # {}
             /\ Cardinality(ShuffledBy(n, m, p)) = Cardinality(ShuffledBy(n, m, q))
  <2>1. PICK a \in Numbers(k, bounds) : ShuffledBy(n, m, p) = DrawnBy(m, k, bounds, a)
    BY <1>1, <1>2, <1>3, ShuffledByNumbers
  <2>2. PICK b \in Numbers(k, bounds) : ShuffledBy(n, m, q) = DrawnBy(m, k, bounds, b)
    BY <1>1, <1>2, <1>3, ShuffledByNumbers
  <2>3. DrawnBy(m, k, bounds, a) # {}
    BY <1>2, <1>3, ChancesAreSome
  <2>4. Cardinality(DrawnBy(m, k, bounds, a)) = Cardinality(DrawnBy(m, k, bounds, b))
    BY <1>2, <1>3, ChancesAreEqual
  <2> QED BY <2>1, <2>2, <2>3, <2>4
<1> QED BY <1>4 DEF ShuffledEqually

\* As many streams of m words for any k out of n, and for any order of n:
\* sample and shuffle favour nothing.
THEOREM DrawingIsUniform ==
  ASSUME NEW n \in 1..Words, NEW k \in 0..n, NEW m \in Nat, n <= m
  PROVE  DrawsAreUniform(n, k, m)
<1>1. n \in 0..Words /\ n \in Nat /\ k <= m /\ n <= m + 1
  BY WordsAssumption
<1>2. SampledEqually(n, k, m)
  BY <1>1, SamplesAreUniform
<1>3. ShuffledEqually(n, m)
  BY <1>1, ShufflesAreUniform
<1> QED BY <1>2, <1>3 DEF DrawsAreUniform, SampledEqually, ShuffledEqually

-----------------------------------------------------------------------------
(* Pools of items.                                                         *)

\* n things with ids, no id twice.
HaveIds(c, n) ==
  /\ \A i \in 1..n : c[i].id \in Int
  /\ \A i, j \in 1..n : c[i].id = c[j].id => i = j

LEMMA RankIsBelow ==
  ASSUME NEW ids, ids \subseteq Int, IsFiniteSet(ids), NEW x \in ids
  PROVE  Rank(ids, x) \in 0..(Cardinality(ids) - 1)
<1>1. PICK S : S = {y \in ids : y < x}
  OBVIOUS
<1>2. S \in SUBSET (ids \ {x})
  BY <1>1
<1>3. PICK R : R = ids \ {x} /\ IsFiniteSet(R) /\ Cardinality(R) = Cardinality(ids) - 1
  BY FS_RemoveElement
<1>4. IsFiniteSet(S) /\ Cardinality(S) <= Cardinality(R)
  BY <1>2, <1>3, FS_Subset
<1>5. Cardinality(S) \in Nat /\ Cardinality(R) \in Nat /\ Cardinality(ids) \in Nat
  BY <1>3, <1>4, FS_CardinalityType
<1> QED BY <1>1, <1>3, <1>4, <1>5 DEF Rank

LEMMA RanksDiffer ==
  ASSUME NEW ids, ids \subseteq Int, IsFiniteSet(ids), NEW x \in ids, NEW y \in ids, x < y
  PROVE  Rank(ids, x) # Rank(ids, y)
<1>1. PICK S, R : S = {z \in ids : z < x} /\ R = {z \in ids : z < y}
  OBVIOUS
<1>2. S \in SUBSET R /\ x \in R /\ x \notin S
  <2>1. \A z \in ids : z \in Int
    OBVIOUS
  <2>2. \A z \in ids : z < x => z < y
    BY <2>1
  <2>3. ~(x < x)
    BY <2>1
  <2> QED BY <1>1, <2>2, <2>3
<1>3. IsFiniteSet(R)
  <2>1. R \in SUBSET ids
    BY <1>1
  <2> QED BY <2>1, FS_Subset
<1>4. Cardinality(R) = Cardinality(S) => R = S
  BY <1>2, <1>3, FS_Subset
<1>5. Cardinality(R) # Cardinality(S)
  BY <1>2, <1>4
<1> QED BY <1>1, <1>5 DEF Rank

Ids(c, its) == {c[i].id : i \in its}

\* The items of a set have the ranks from 0 on.
HaveRanks(c, its) ==
  /\ Cardinality(its) \in Nat
  /\ \A i, j \in its : Rank(Ids(c, its), c[i].id) = Rank(Ids(c, its), c[j].id) => i = j
  /\ \A k \in 1..Cardinality(its) : \E i \in its : Rank(Ids(c, its), c[i].id) = k - 1

LEMMA ItemsHaveRanks ==
  ASSUME NEW n \in Nat, NEW c, HaveIds(c, n), NEW its \in SUBSET (1..n)
  PROVE  HaveRanks(c, its)
<1>1. PICK ids : ids = Ids(c, its)
  OBVIOUS
<1>2. ids \subseteq Int
  BY <1>1 DEF Ids, HaveIds
<1>3. IsFiniteSet(its) /\ Cardinality(its) \in Nat
  <2>1. IsFiniteSet(1..n)
    BY FS_Interval
  <2> QED BY <2>1, FS_Subset, FS_CardinalityType
<1>4. PICK C \in Nat : C = Cardinality(its)
  BY <1>3
<1>5. IsFiniteSet(ids) /\ Cardinality(ids) = C
  <2> DEFINE g == [i \in its |-> c[i].id]
  <2>1. g \in [its -> ids] /\ \A i, j \in its : g[i] = g[j] => i = j
    BY <1>1 DEF Ids, HaveIds
  <2>2. \A x \in ids : \E i \in its : g[i] = x
    BY <1>1 DEF Ids
  <2> HIDE DEF g
  <2>3. g \in Bijection(its, ids)
    BY <2>1, <2>2 DEF Bijection, Injection, Surjection, IsInjective
  <2>4. ExistsBijection(its, ids)
    BY <2>3 DEF ExistsBijection
  <2> QED BY <1>3, <1>4, <2>4, FS_Bijection
<1>6. \A x \in ids : Rank(ids, x) \in 0..(C - 1)
  BY <1>2, <1>5, RankIsBelow
<1>7. \A x, y \in ids : Rank(ids, x) = Rank(ids, y) => x = y
  <2> SUFFICES ASSUME NEW x \in ids, NEW y \in ids, x # y PROVE Rank(ids, x) # Rank(ids, y)
    OBVIOUS
  <2>1. x < y \/ y < x
    BY <1>2
  <2> QED BY <1>2, <1>5, <2>1, RanksDiffer
<1>8. \A r \in 0..(C - 1) : \E x \in ids : Rank(ids, x) = r
  <2> DEFINE f == [x \in ids |-> Rank(ids, x)]
  <2>1. f \in Injection(ids, 0..(C - 1))
    BY <1>6, <1>7 DEF Injection, IsInjective
  <2>2. IsFiniteSet(0..(C - 1)) /\ Cardinality(0..(C - 1)) = C
    BY FS_Interval
  <2>3. f \in Surjection(ids, 0..(C - 1))
    <3> HIDE DEF f
    <3> QED BY <1>5, <2>1, <2>2, FS_Injection
  <2>4. \A r \in 0..(C - 1) : \E x \in ids : f[x] = r
    <3> HIDE DEF f
    <3> QED BY <2>3 DEF Surjection
  <2> QED BY <2>4
<1>9. ASSUME NEW i \in its, NEW j \in its, Rank(ids, c[i].id) = Rank(ids, c[j].id) PROVE i = j
  <2>1. c[i].id \in ids /\ c[j].id \in ids
    BY <1>1 DEF Ids
  <2>2. c[i].id = c[j].id
    BY <1>7, <1>9, <2>1
  <2> QED BY <2>2 DEF HaveIds
<1>10. ASSUME NEW k \in 1..C PROVE \E i \in its : Rank(ids, c[i].id) = k - 1
  <2>1. k - 1 \in 0..(C - 1)
    OBVIOUS
  <2>2. PICK x \in ids : Rank(ids, x) = k - 1
    BY <1>8, <2>1
  <2>3. PICK i \in its : x = c[i].id
    BY <1>1 DEF Ids
  <2> QED BY <2>2, <2>3
<1> QED BY <1>1, <1>4, <1>9, <1>10 DEF HaveRanks

\* The items of the set, by rank.
IsPool(pool, c, its, T) ==
  /\ pool \in [1..Cardinality(its) -> T]
  /\ \A k \in 1..Cardinality(its) :
       \E i \in its : pool[k] = c[i] /\ Rank(Ids(c, its), c[i].id) = k - 1

OfSlot(c, n, slot) == {i \in 1..n : c[i].slot = slot}

AreItems(c, n, T) == c \in [1..n -> T] /\ HaveIds(c, n)

LEMMA PoolIs ==
  ASSUME NEW n \in Nat, NEW T, NEW c, AreItems(c, n, T),
         NEW content, content.items = c, NEW slot
  PROVE  /\ Places(content, slot) = OfSlot(c, n, slot)
         /\ IsPool(Pool(content, slot), c, OfSlot(c, n, slot), T)
<1>0. c \in [1..n -> T] /\ HaveIds(c, n)
  BY DEF AreItems
<1>1. PICK its : its = Places(content, slot) /\ its = {i \in 1..n : c[i].slot = slot}
  <2>1. DOMAIN content.items = 1..n
    BY <1>0
  <2> QED BY <2>1 DEF Places
<1>2. /\ Cardinality(its) \in Nat
      /\ \A k \in 1..Cardinality(its) : \E i \in its : Rank(Ids(c, its), c[i].id) = k - 1
  <2>1. its \in SUBSET (1..n)
    BY <1>1
  <2>2. HaveRanks(c, its)
    BY <1>0, <2>1, ItemsHaveRanks
  <2> QED BY <2>2 DEF HaveRanks
<1> DEFINE at(k) == CHOOSE i \in Places(content, slot) :
                       Rank(Ids(content.items, Places(content, slot)), content.items[i].id) = k - 1
<1>3. PICK pool : pool = Pool(content, slot) /\ pool = [k \in 1..Cardinality(its) |-> c[at(k)]]
  <2>1. Pool(content, slot) = [k \in 1..Cardinality(Places(content, slot)) |-> content.items[at(k)]]
    BY Zenon DEF Pool, Ids
  <2> HIDE DEF at
  <2> QED BY <1>1, <2>1
<1>4. ASSUME NEW k \in 1..Cardinality(its)
      PROVE  at(k) \in its /\ Rank(Ids(c, its), c[at(k)].id) = k - 1
  <2>1. \E i \in Places(content, slot) :
          Rank(Ids(content.items, Places(content, slot)), content.items[i].id) = k - 1
    BY <1>1, <1>2
  <2>2. at(k) \in Places(content, slot) /\
        Rank(Ids(content.items, Places(content, slot)), content.items[at(k)].id) = k - 1
    BY <2>1
  <2> HIDE DEF at
  <2> QED BY <1>1, <2>2
<1> HIDE DEF at
<1>5. \A k \in 1..Cardinality(its) : pool[k] = c[at(k)] /\ at(k) \in 1..n
  BY <1>1, <1>3, <1>4
<1>6. pool \in [1..Cardinality(its) -> T]
  BY <1>0, <1>3, <1>5
<1>7. IsPool(pool, c, its, T)
  BY <1>4, <1>5, <1>6 DEF IsPool
<1> QED BY <1>1, <1>3, <1>7 DEF OfSlot

\* Of these items each comes once.
IsVaried(pool, l, c, its) ==
  /\ \A k \in 1..l : \E i \in its : pool[k] = c[i]
  /\ \A k, j \in 1..l : pool[k].id = pool[j].id => k = j

LEMMA PoolIsDistinct ==
  ASSUME NEW n \in Nat, NEW T, NEW c, AreItems(c, n, T), NEW its, its \subseteq 1..n,
         NEW pool, IsPool(pool, c, its, T)
  PROVE  IsVaried(pool, Cardinality(its), c, its)
<1>0. c \in [1..n -> T] /\ HaveIds(c, n) /\ its \in SUBSET (1..n)
  BY DEF AreItems
<1>1. /\ Cardinality(its) \in Nat
      /\ \A k \in 1..Cardinality(its) :
           \E i \in its : pool[k] = c[i] /\ Rank(Ids(c, its), c[i].id) = k - 1
  <2>1. HaveRanks(c, its)
    BY <1>0, ItemsHaveRanks
  <2> QED BY <2>1 DEF IsPool, HaveRanks
<1>2. ASSUME NEW k \in 1..Cardinality(its), NEW l \in 1..Cardinality(its), pool[k].id = pool[l].id
      PROVE  k = l
  <2>1. Rank(Ids(c, its), pool[k].id) = k - 1 /\ Rank(Ids(c, its), pool[l].id) = l - 1
    BY <1>1
  <2>2. k - 1 = l - 1
    BY <1>2, <2>1
  <2> QED BY <1>1, <2>2
<1> QED BY <1>1, <1>2 DEF IsVaried

Reordered(d, c, n, p) == \A i \in 1..n : d[i] = c[p[i]]

\* The same items in another order make the same pool.
LEMMA PoolsAreTheSame ==
  ASSUME NEW n \in Nat, NEW T, NEW c, NEW d, AreItems(c, n, T), AreItems(d, n, T),
         NEW p \in Orders(n), Reordered(d, c, n, p), NEW slot,
         NEW pool, NEW qool,
         IsPool(pool, c, OfSlot(c, n, slot), T), IsPool(qool, d, OfSlot(d, n, slot), T)
  PROVE  pool = qool
<1> DEFINE its == OfSlot(c, n, slot)
           jts == OfSlot(d, n, slot)
<1>0. c \in [1..n -> T] /\ HaveIds(c, n)
  BY DEF AreItems
<1>1. /\ p \in [1..n -> 1..n]
      /\ \A i, j \in 1..n : p[i] = p[j] => i = j
      /\ \A i \in 1..n : \E j \in 1..n : p[j] = i
  <2>1. \A i \in 1..n : \E j \in 1..n : p[j] = i
    BY OrdersReachAll
  <2> QED BY <2>1 DEF Orders, IsInjective
<1>2. its \in SUBSET (1..n) /\ jts \in SUBSET (1..n)
  BY DEF OfSlot
<1>3. \A j \in 1..n : d[j] = c[p[j]] /\ (j \in jts <=> p[j] \in its)
  BY <1>1 DEF OfSlot, Reordered
<1> HIDE DEF its, jts
<1>4. Cardinality(jts) = Cardinality(its)
  <2> DEFINE f == [j \in jts |-> p[j]]
  <2>1. f \in [jts -> its] /\ \A i, j \in jts : f[i] = f[j] => i = j
    BY <1>1, <1>2, <1>3
  <2>2. \A i \in its : \E j \in jts : f[j] = i
    <3> TAKE i \in its
    <3>1. PICK j \in 1..n : p[j] = i
      BY <1>1, <1>2
    <3>2. j \in jts
      BY <1>3, <3>1
    <3> QED BY <3>1, <3>2
  <2> HIDE DEF f
  <2>3. f \in Bijection(jts, its)
    BY <2>1, <2>2 DEF Bijection, Injection, Surjection, IsInjective
  <2>4. ExistsBijection(jts, its)
    BY <2>3 DEF ExistsBijection
  <2>5. IsFiniteSet(jts)
    <3>1. IsFiniteSet(1..n)
      BY FS_Interval
    <3> QED BY <1>2, <3>1, FS_Subset
  <2> QED BY <2>4, <2>5, FS_Bijection
<1>5. Ids(d, jts) = Ids(c, its)
  <2>1. ASSUME NEW x \in Ids(d, jts) PROVE x \in Ids(c, its)
    <3>1. PICK j \in jts : x = d[j].id
      BY DEF Ids
    <3>2. p[j] \in its /\ x = c[p[j]].id
      BY <1>2, <1>3, <3>1
    <3> QED BY <3>2 DEF Ids
  <2>2. ASSUME NEW x \in Ids(c, its) PROVE x \in Ids(d, jts)
    <3>1. PICK i \in its : x = c[i].id
      BY DEF Ids
    <3>2. PICK j \in 1..n : p[j] = i
      BY <1>1, <1>2
    <3>3. j \in jts /\ x = d[j].id
      BY <1>3, <3>1, <3>2
    <3> QED BY <3>3 DEF Ids
  <2> QED BY <2>1, <2>2
<1>6. PICK ids, C : ids = Ids(c, its) /\ C = Cardinality(its)
  OBVIOUS
<1>7. \A i, j \in its : Rank(ids, c[i].id) = Rank(ids, c[j].id) => i = j
  <2>1. HaveRanks(c, its)
    BY <1>0, <1>2, ItemsHaveRanks
  <2> QED BY <1>6, <2>1 DEF HaveRanks
<1>8. ASSUME NEW k \in 1..C PROVE pool[k] = qool[k]
  <2>1. PICK i \in its : pool[k] = c[i] /\ Rank(ids, c[i].id) = k - 1
    BY <1>6 DEF IsPool, its
  <2>2. PICK j \in jts : qool[k] = d[j] /\ Rank(ids, d[j].id) = k - 1
    BY <1>4, <1>5, <1>6 DEF IsPool, jts
  <2>3. p[j] \in its /\ d[j] = c[p[j]]
    BY <1>2, <1>3
  <2>4. i = p[j]
    BY <1>7, <2>1, <2>2, <2>3
  <2> QED BY <2>1, <2>2, <2>3, <2>4
<1>9. pool \in [1..C -> T] /\ qool \in [1..C -> T]
  BY <1>4, <1>6 DEF IsPool, its, jts
<1>10. pool = [k \in 1..C |-> pool[k]] /\ qool = [k \in 1..C |-> qool[k]]
  BY <1>9
<1> QED BY <1>8, <1>10

\* A bank of n items, no id twice.
IsBank(items, n) ==
  /\ items = [i \in 1..n |-> items[i]]
  /\ HaveIds(items, n)

Plain(item) == [id |-> item.id, slot |-> item.slot, options |-> item.options]

IsContent(content, items, n, slots) ==
  /\ content.slots = slots
  /\ HaveIds(content.items, n)
  /\ content.items \in [1..n -> {Plain(items[i]) : i \in 1..n}]
  /\ \A i \in 1..n : content.items[i] = Plain(items[i])

LEMMA ContentIs ==
  ASSUME NEW n \in Nat, NEW items, IsBank(items, n), NEW slots
  PROVE  IsContent(PaperContent(items, slots), items, n, slots)
<1>1. DOMAIN items = 1..n
  BY DEF IsBank
<1>2. PICK c : c = [i \in 1..n |-> Plain(items[i])]
  OBVIOUS
<1>3. PaperContent(items, slots).slots = slots /\ PaperContent(items, slots).items = c
  BY <1>1, <1>2 DEF PaperContent, Plain
<1>4. \A i \in 1..n : c[i] = Plain(items[i]) /\ c[i].id = items[i].id
  BY <1>2 DEF Plain
<1>5. HaveIds(c, n)
  <2>1. HaveIds(items, n)
    BY DEF IsBank
  <2> QED BY <1>4, <2>1 DEF HaveIds
<1>6. c \in [1..n -> {Plain(items[i]) : i \in 1..n}]
  BY <1>2
<1> QED BY <1>3, <1>4, <1>5, <1>6 DEF IsContent

LEMMA BankMoves ==
  ASSUME NEW n \in Nat, NEW items, IsBank(items, n), NEW p \in Orders(n)
  PROVE  IsBank([i \in 1..n |-> items[p[i]]], n)
<1>1. PICK moved : moved = [i \in 1..n |-> items[p[i]]]
  OBVIOUS
<1>2. p \in [1..n -> 1..n] /\ \A i, j \in 1..n : p[i] = p[j] => i = j
  BY DEF Orders, IsInjective
<1>3. /\ \A i \in 1..n : items[i].id \in Int
      /\ \A i, j \in 1..n : items[i].id = items[j].id => i = j
  BY DEF IsBank, HaveIds
<1>4. \A i \in 1..n : moved[i] = items[p[i]] /\ p[i] \in 1..n
  BY <1>1, <1>2
<1>5. HaveIds(moved, n)
  <2>1. ASSUME NEW i \in 1..n PROVE moved[i].id \in Int
    BY <1>3, <1>4
  <2>2. ASSUME NEW i \in 1..n, NEW j \in 1..n, moved[i].id = moved[j].id PROVE i = j
    <3>1. PICK x \in 1..n, y \in 1..n : x = p[i] /\ y = p[j]
      BY <1>2
    <3>2. items[x].id = items[y].id
      BY <1>4, <2>2, <3>1
    <3>3. x = y
      BY <1>3, <3>2
    <3> QED BY <1>2, <3>1, <3>3
  <2> QED BY <2>1, <2>2 DEF HaveIds
<1>6. moved = [i \in 1..n |-> moved[i]]
  BY <1>1
<1> QED BY <1>1, <1>5, <1>6 DEF IsBank

\* Whatever the order in which a bank without double ids is stored, every
\* stream draws the same paper from it.
THEOREM StorageIsIrrelevant ==
  ASSUME NEW n \in Nat, NEW items, IsBank(items, n), NEW slots, NEW m \in Nat
  PROVE  StorageHasNoPart(items, slots, m)
<1>1. DOMAIN items = 1..n /\ Len(items) = n
  BY DEF IsBank
<1> SUFFICES ASSUME NEW stream \in Streams(m), NEW p \in Orders(n)
             PROVE  Assemble(stream, PaperContent([i \in DOMAIN items |-> items[p[i]]], slots)) =
                    Assemble(stream, PaperContent(items, slots))
  BY <1>1 DEF StorageHasNoPart
<1>2. p \in [1..n -> 1..n]
  BY DEF Orders
<1>3. PICK moved : moved = [i \in DOMAIN items |-> items[p[i]]] /\ moved = [i \in 1..n |-> items[p[i]]]
  BY <1>1
<1>4. IsBank(moved, n)
  <2>1. IsBank([i \in 1..n |-> items[p[i]]], n)
    BY BankMoves
  <2> QED BY <1>3, <2>1
<1>5. PICK these, those : these = PaperContent(items, slots) /\ those = PaperContent(moved, slots)
  OBVIOUS
<1>6. PICK c, d, T : /\ c = these.items /\ d = those.items /\ T = {Plain(items[i]) : i \in 1..n}
  OBVIOUS
<1>7. /\ these.slots = slots /\ HaveIds(c, n) /\ c \in [1..n -> T]
      /\ \A i \in 1..n : c[i] = Plain(items[i])
  <2>1. IsContent(these, items, n, slots)
    BY <1>5, ContentIs
  <2> QED BY <1>6, <2>1 DEF IsContent
<1>8. /\ those.slots = slots /\ HaveIds(d, n) /\ d \in [1..n -> {Plain(moved[i]) : i \in 1..n}]
      /\ \A i \in 1..n : d[i] = Plain(moved[i])
  <2>1. IsContent(those, moved, n, slots)
    BY <1>4, <1>5, ContentIs
  <2> QED BY <1>6, <2>1 DEF IsContent
<1>9. \A i \in 1..n : d[i] = c[p[i]]
  BY <1>2, <1>3, <1>7, <1>8
<1>10. d \in [1..n -> T]
  <2>1. \A i \in 1..n : d[i] \in T
    BY <1>2, <1>7, <1>9
  <2> QED BY <1>8, <2>1
<1>11. ASSUME NEW slot PROVE Pool(those, slot) = Pool(these, slot)
  <2>1. AreItems(c, n, T) /\ AreItems(d, n, T)
    BY <1>7, <1>8, <1>10 DEF AreItems
  <2>2. PICK pool, qool : pool = Pool(these, slot) /\ qool = Pool(those, slot)
    OBVIOUS
  <2>3. IsPool(pool, c, OfSlot(c, n, slot), T)
    BY <1>6, <2>1, <2>2, PoolIs
  <2>4. IsPool(qool, d, OfSlot(d, n, slot), T)
    BY <1>6, <2>1, <2>2, PoolIs
  <2>5. Reordered(d, c, n, p)
    BY <1>9 DEF Reordered
  <2>6. pool = qool
    BY <2>1, <2>3, <2>4, <2>5, PoolsAreTheSame
  <2> QED BY <2>2, <2>6
<1>12. Assemble(stream, those) = Assemble(stream, these)
  <2>1. those.slots = these.slots
    BY <1>7, <1>8
  <2>2. [i \in DOMAIN those.slots |-> Pool(those, those.slots[i].slot)] =
        [i \in DOMAIN these.slots |-> Pool(these, these.slots[i].slot)]
    BY <1>11, <2>1
  <2> QED BY <2>1, <2>2, Zenon DEF Assemble
<1> QED BY <1>3, <1>5, <1>12

-----------------------------------------------------------------------------
(* Papers.  How far a stream lasts is told by words that no draw rejects,  *)
(* those of the lower half: one draw takes a stretch that ends with the    *)
(* next of them, or earlier.                                               *)

IsSupply(g, G, stream, m) ==
  /\ G \in Nat /\ g \in [0..G -> 0..m] /\ g[0] = 0
  /\ \A t \in 0..G : \A l \in 0..G : t < l => g[t] < g[l]
  /\ \A t \in 1..G : 2 * stream[g[t]] <= Words

LEMMA LowerHalf ==
  ASSUME NEW n \in 1..Words, NEW w \in 0..(Words - 1), 2 * w <= Words
  PROVE  w < (Words \div n) * n
<1>1. n \in Nat /\ n >= 1 /\ Words \in Nat
  BY WordsAssumption
<1>2. PICK d \in Nat, z \in Nat : d = Words \div n /\ Words = n * d + z /\ z < n
  BY <1>1, Quotients
<1>3. PICK e \in Nat : d = e + 1
  <2>1. d # 0
    <3>1. d = 0 => n * d = 0
      BY <1>1
    <3> QED BY <1>1, <1>2, <3>1
  <2>2. d - 1 \in Nat /\ d = (d - 1) + 1
    BY <2>1
  <2> QED BY <2>2
<1>4. PICK y \in Nat : y = n * d /\ y = d * n
  BY <1>1
<1>5. y >= n
  <2>1. y = e * n + n /\ e * n \in Nat
    BY <1>1, <1>3, <1>4
  <2> QED BY <1>1, <2>1
<1>6. Words = y + z /\ z < n
  BY <1>2, <1>4
<1>7. w < y
  BY <1>1, <1>5, <1>6
<1> QED BY <1>2, <1>4, <1>7

LEMMA NextLasts ==
  ASSUME NEW m \in Nat, NEW stream \in Streams(m), NEW G, NEW g, IsSupply(g, G, stream, m),
         NEW t \in 0..G, t < G, NEW used \in 0..(m + 1), used <= g[t], NEW n \in 1..Words
  PROVE  NextBelow(stream, used, n) <= g[t + 1]
<1>1. G \in Nat /\ t + 1 \in 1..G /\ t + 1 \in 0..G /\ t \in Nat
  BY DEF IsSupply
<1>2. PICK x \in 0..m, y \in 0..m : x = g[t] /\ y = g[t + 1] /\ x < y /\ 2 * stream[y] <= Words
  <2>1. g[t] \in 0..m /\ g[t + 1] \in 0..m
    BY <1>1 DEF IsSupply
  <2>2. g[t] < g[t + 1]
    BY <1>1 DEF IsSupply
  <2>3. 2 * stream[g[t + 1]] <= Words
    BY <1>1 DEF IsSupply
  <2> QED BY <2>1, <2>2, <2>3
<1>3. CASE n = 1
  BY <1>2, <1>3, NextOfOne
<1>4. CASE n # 1
  <2>1. y \in (used + 1)..m /\ y \in 1..m
    BY <1>2
  <2>2. stream[y] \in 0..(Words - 1) /\ Len(stream) = m
    BY <2>1, Words32
  <2>3. stream[y] < (Words \div n) * n
    BY <1>2, <2>2, LowerHalf
  <2>4. y \in Accepted(stream, used, n)
    BY <2>1, <2>2, <2>3 DEF Accepted
  <2>5. n \in Nat
    BY WordsAssumption
  <2>6. NextBelow(stream, used, n) <= y
    BY <1>4, <2>4, <2>5, NextIsFirst
  <2> QED BY <1>2, <2>6
<1> QED BY <1>3, <1>4

IsDrawing(d, L, bounds, m, g, l) ==
  /\ d # Dry /\ d.out \in Numbers(L, bounds)
  /\ d.used \in 0..m /\ d.used <= g[l]

\* As many draws as there are words of the lower half.
LEMMA DrawsLast ==
  ASSUME NEW m \in Nat, NEW stream \in Streams(m), NEW G, NEW g, IsSupply(g, G, stream, m),
         NEW t \in Nat, NEW L \in Nat, t + L <= G, NEW used \in 0..m, used <= g[t],
         NEW bounds \in [1..L -> 1..Words]
  PROVE  IsDrawing(Draws(stream, used, bounds), L, bounds, m, g, t + L)
<1>1. /\ G \in Nat /\ g \in [0..G -> 0..m] /\ used \in 0..(m + 1)
      /\ bounds \in [1..L -> Nat \ {0}] /\ bounds \in [1..L -> Nat]
  BY WordsAssumption DEF IsSupply
<1>2. PICK u : u = Uses(stream, used, bounds)
  OBVIOUS
<1>3. /\ u[0] = used
      /\ \A r \in 0..L : u[r] \in 0..(m + 1)
      /\ \A r \in 1..L : u[r] = NextBelow(stream, u[r - 1], bounds[r])
  <2>1. AreUses(u, m, stream, used, L, bounds)
    BY <1>1, <1>2, UsesAre
  <2> QED BY <2>1 DEF AreUses
<1> DEFINE H == {r \in 0..L : u[r] <= g[t + r]}
<1>4. 0 \in H
  BY <1>3
<1>5. ASSUME NEW r \in 1..L, r - 1 \in H PROVE r \in H
  <2>1. PICK l \in 0..G : l = t + (r - 1) /\ l < G /\ l + 1 = t + r
    BY <1>1
  <2>2. PICK v \in 0..(m + 1), n \in 1..Words : v = u[r - 1] /\ n = bounds[r]
    <3>1. r - 1 \in 0..L
      OBVIOUS
    <3> QED BY <1>3, <3>1
  <2>3. v <= g[l]
    BY <1>5, <2>1, <2>2
  <2>4. NextBelow(stream, v, n) <= g[l + 1]
    BY <2>1, <2>3, NextLasts
  <2> QED BY <1>3, <2>1, <2>2, <2>4
<1>6. \A r \in 0..L : r \in H
  <2> HIDE DEF H
  <2> QED BY <1>4, <1>5, EveryRound
<1>7. u[L] <= g[t + L] /\ g[t + L] \in 0..m /\ u[L] \in 0..(m + 1)
  <2>1. L \in 0..L /\ t + L \in 0..G
    BY <1>1
  <2> QED BY <1>1, <1>3, <1>6, <2>1
<1>8. u[L] # m + 1
  BY <1>7
<1>9. PICK d : d = Draws(stream, used, bounds)
  OBVIOUS
<1>10. d # Dry /\ AreDrawn(d, u, m, stream, used, L, bounds)
  BY <1>1, <1>2, <1>8, <1>9, DrawsAre
<1>11. d.out \in Numbers(L, bounds) /\ d.used = u[L] /\ d.used \in used..m
  BY <1>10, Zenon DEF AreDrawn
<1>12. d.used \in 0..m
  BY <1>11
<1> QED BY <1>7, <1>9, <1>10, <1>11, <1>12 DEF IsDrawing

\* A bank of which no item has more options than O, and a stream for it.
IsSetting(items, n, O, m, stream, G, g) ==
  /\ n \in 0..Words /\ O \in 1..Words /\ m \in Nat
  /\ stream \in Streams(m) /\ IsSupply(g, G, stream, m)
  /\ \A i \in 1..n : items[i].options \in 1..O

\* The orders of o options.
OptionOrders(o) == {p \in [1..o -> 0..(o - 1)] : Distinct(p, o)}

\* The questions an item can become.
QuestionsOf(item) == {[item |-> item.id, order |-> p] : p \in OptionOrders(item.options)}

Questions(items, n) == UNION {QuestionsOf(items[i]) : i \in 1..n}

\* Papers that have used up at most t words of the lower half, with questions
\* from items of these ids, none of them twice.
Papers(items, n, m, g, t, ids, once) ==
  {p \in [out : Seq(Questions(items, n)), used : 0..m] :
     /\ p.used <= g[t]
     /\ \A x \in 1..Len(p.out) : p.out[x].item \in ids
     /\ once => \A x, y \in 1..Len(p.out) : p.out[x].item = p.out[y].item => x = y}

LEMMA PapersGrow ==
  ASSUME NEW items, NEW n, NEW O, NEW m, NEW stream, NEW G, NEW g,
         IsSetting(items, n, O, m, stream, G, g),
         NEW t \in 0..G, NEW l \in 0..G, t <= l, NEW ids, NEW jds, ids \subseteq jds, NEW once
  PROVE  Papers(items, n, m, g, t, ids, once) \subseteq Papers(items, n, m, g, l, jds, once)
<1>1. m \in Nat /\ G \in Nat /\ g[t] \in 0..m /\ g[l] \in 0..m /\ (t < l => g[t] < g[l])
  BY DEF IsSetting, IsSupply
<1>2. g[t] <= g[l]
  BY <1>1
<1> SUFFICES ASSUME NEW p \in Papers(items, n, m, g, t, ids, once)
             PROVE  p \in Papers(items, n, m, g, l, jds, once)
  OBVIOUS
<1>3. /\ p \in [out : Seq(Questions(items, n)), used : 0..m]
      /\ p.used <= g[t]
      /\ \A x \in 1..Len(p.out) : p.out[x].item \in ids
      /\ once => \A x, y \in 1..Len(p.out) : p.out[x].item = p.out[y].item => x = y
  BY DEF Papers
<1>4. p.used \in 0..m
  BY <1>3
<1>5. p.used <= g[l]
  BY <1>1, <1>2, <1>3, <1>4
<1> QED BY <1>3, <1>5 DEF Papers

\* An order of o options, drawn within so many words of the lower half.
IsOrdering(order, o, m, g, l) ==
  /\ order # Dry /\ order.out \in OptionOrders(o)
  /\ order.used \in 0..m /\ order.used <= g[l]

\* The order of the options of a question.
LEMMA OptionsAreShuffled ==
  ASSUME NEW items, NEW n, NEW O, NEW m, NEW stream, NEW G, NEW g,
         IsSetting(items, n, O, m, stream, G, g),
         NEW o \in 1..O, NEW used \in 0..m, NEW t \in Nat, t + (O - 1) <= G, used <= g[t]
  PROVE  IsOrdering(Shuffle(stream, used, [i \in 1..o |-> i - 1]), o, m, g, t + (O - 1))
<1>1. /\ O \in 1..Words /\ m \in Nat /\ stream \in Streams(m) /\ IsSupply(g, G, stream, m)
      /\ G \in Nat /\ g \in [0..G -> 0..m]
      /\ \A x \in 0..G : \A l \in 0..G : x < l => g[x] < g[l]
  BY DEF IsSetting, IsSupply
<1>2. /\ o \in Nat /\ o >= 1 /\ o \in 0..Words /\ O \in Nat
  BY <1>1, WordsAssumption
<1>3. PICK k \in Nat : k = o - 1 /\ k \in 0..o /\ t + k <= G /\ t + k <= t + (O - 1)
  BY <1>1, <1>2
<1>4. PICK items0, T : items0 = [i \in 1..o |-> i - 1] /\ T = 0..(o - 1)
  OBVIOUS
<1>5. items0 \in [1..o -> T] /\ Len(items0) = o /\ Distinct(items0, o)
  BY <1>2, <1>4 DEF Distinct
<1>6. PICK bounds : bounds = Falling(o, k) /\ bounds \in [1..k -> 1..Words]
  BY <1>2, <1>3, FallingBounds
<1>7. PICK d : /\ d = Draws(stream, used, bounds) /\ d # Dry /\ d.out \in Numbers(k, bounds)
               /\ d.used \in 0..m /\ d.used <= g[t + k]
  <2>1. IsDrawing(Draws(stream, used, bounds), k, bounds, m, g, t + k)
    BY <1>1, <1>3, <1>6, DrawsLast
  <2> QED BY <2>1 DEF IsDrawing
<1>8. PICK order : order = Shuffle(stream, used, items0)
  OBVIOUS
<1>9. order # Dry /\ order.out = Shuffled(items0, d.out) /\ order.used = d.used
  <2>1. d = Draws(stream, used, Falling(o, o - 1))
    BY <1>3, <1>6, <1>7
  <2> QED BY <1>2, <1>5, <1>7, <1>8, <2>1, ShuffleIs
<1>10. PICK a \in Numbers(o - 1, Falling(o, o - 1)) : a = d.out
  BY <1>3, <1>6, <1>7
<1>11. PICK p : p = Shuffling(items0, a) /\ Shuffled(items0, a) = p[o - 1]
  <2>1. Len(a) = o - 1
    BY <1>2, RoundsOfShuffle
  <2> QED BY <2>1, ShuffledIs
<1>12. p[o - 1] \in [1..o -> T] /\ Distinct(p[o - 1], o)
  <2>1. o - 1 \in 0..(o - 1)
    BY <1>2
  <2>2. ArePlaces(p, items0, o, a, T)
    BY <1>2, <1>5, <1>11, ShufflingIs
  <2>3. Keeps(p, items0, o)
    BY <1>2, <1>5, <1>11, ShufflingKeeps
  <2> QED BY <1>5, <2>1, <2>2, <2>3 DEF ArePlaces, Keeps
<1>13. order.out \in OptionOrders(o)
  BY <1>4, <1>9, <1>10, <1>11, <1>12 DEF OptionOrders
<1>14. g[t + k] <= g[t + (O - 1)]
  <2>1. PICK x \in 0..G, y \in 0..G : x = t + k /\ y = t + (O - 1)
    BY <1>1, <1>2, <1>3
  <2>2. x <= y /\ g[x] \in 0..m /\ g[y] \in 0..m
    BY <1>1, <1>3, <2>1
  <2>3. g[x] <= g[y]
    BY <1>1, <2>2
  <2> QED BY <2>1, <2>3
<1>15. order.used <= g[t + (O - 1)]
  <2>1. PICK x \in 0..m, y \in 0..m, z \in 0..m : x = d.used /\ y = g[t + k] /\ z = g[t + (O - 1)]
    <3>1. t + k \in 0..G /\ t + (O - 1) \in 0..G
      BY <1>1, <1>2, <1>3
    <3> QED BY <1>1, <1>7, <3>1
  <2> QED BY <1>7, <1>9, <1>14, <2>1
<1> QED BY <1>4, <1>7, <1>8, <1>9, <1>13, <1>15 DEF IsOrdering

\* What a question needs to know of an item of the bank.
Asks(item, items, n) ==
  \E a \in 1..n : item.id = items[a].id /\ item.options = items[a].options

LEMMA QuestionFits ==
  ASSUME NEW items, NEW n, NEW item, Asks(item, items, n),
         NEW order \in OptionOrders(item.options)
  PROVE  [item |-> item.id, order |-> order] \in Questions(items, n)
<1>1. PICK a \in 1..n : item.id = items[a].id /\ item.options = items[a].options
  BY DEF Asks
<1>2. [item |-> item.id, order |-> order] \in QuestionsOf(items[a])
  BY <1>1 DEF QuestionsOf
<1>3. QuestionsOf(items[a]) \in {QuestionsOf(items[i]) : i \in 1..n}
  OBVIOUS
<1> QED BY <1>2, <1>3, Zenon DEF Questions

\* One question more takes fewer words of the lower half than there are options.
LEMMA AddQuestionIs ==
  ASSUME NEW items, NEW n, NEW O, NEW m, NEW stream, NEW G, NEW g,
         IsSetting(items, n, O, m, stream, G, g),
         NEW t \in Nat, t + (O - 1) <= G, NEW ids, NEW once,
         NEW p \in Papers(items, n, m, g, t, ids, once),
         NEW item, Asks(item, items, n), once => item.id \notin ids
  PROVE  AddQuestion(stream, p, item) \in
           Papers(items, n, m, g, t + (O - 1), ids \union {item.id}, once)
<1>1. /\ p \in [out : Seq(Questions(items, n)), used : 0..m]
      /\ p.used <= g[t]
      /\ \A x \in 1..Len(p.out) : p.out[x].item \in ids
      /\ once => \A x, y \in 1..Len(p.out) : p.out[x].item = p.out[y].item => x = y
  BY DEF Papers
<1>2. p.used \in 0..m /\ p.out \in Seq(Questions(items, n))
  BY <1>1
<1>3. p # Dry
  <2>1. "used" \in DOMAIN p /\ "used" \notin DOMAIN Dry
    BY <1>1 DEF Dry
  <2> QED BY <2>1
<1>4. PICK o \in 1..O : o = item.options
  BY DEF Asks, IsSetting
<1>5. PICK order : order = Shuffle(stream, p.used, [i \in 1..o |-> i - 1])
  OBVIOUS
<1>6. IsOrdering(order, o, m, g, t + (O - 1))
  BY <1>1, <1>2, <1>5, OptionsAreShuffled
<1>7. /\ order # Dry /\ order.out \in OptionOrders(o)
      /\ order.used \in 0..m /\ order.used <= g[t + (O - 1)]
  BY <1>6 DEF IsOrdering
<1>8. PICK q, s, out : /\ q = [item |-> item.id, order |-> order.out]
                       /\ s = p.out /\ out = Append(s, q)
  OBVIOUS
<1>9. q \in Questions(items, n) /\ q.item = item.id
  BY <1>4, <1>7, <1>8, QuestionFits
<1>10. AddQuestion(stream, p, item) = [out |-> out, used |-> order.used]
  BY <1>3, <1>4, <1>5, <1>7, <1>8 DEF AddQuestion
<1>11. s \in Seq(Questions(items, n))
  BY <1>2, <1>8
<1>12. /\ out \in Seq(Questions(items, n)) /\ Len(out) = Len(s) + 1 /\ Len(s) \in Nat
       /\ \A x \in 1..Len(s) : out[x] = s[x]
       /\ out[Len(s) + 1] = q
  BY <1>8, <1>9, <1>11
<1>13. \A x \in 1..Len(s) : s[x].item \in ids
  BY <1>1, <1>8
<1>14. \A x \in 1..Len(out) : out[x].item \in ids \union {item.id}
  <2> TAKE x \in 1..Len(out)
  <2>1. CASE x \in 1..Len(s)
    BY <1>12, <1>13, <2>1
  <2>2. CASE x = Len(s) + 1
    BY <1>9, <1>12, <2>2
  <2> QED BY <1>12, <2>1, <2>2
<1>15. ASSUME once, NEW x \in 1..Len(out), NEW y \in 1..Len(out), out[x].item = out[y].item
       PROVE  x = y
  <2>1. item.id \notin ids
    BY <1>15
  <2>2. \A z \in 1..Len(s) : out[z].item \in ids
    BY <1>12, <1>13
  <2>3. out[Len(s) + 1].item = item.id
    BY <1>9, <1>12
  <2>4. CASE x = Len(s) + 1 \/ y = Len(s) + 1
    BY <1>12, <1>15, <2>1, <2>2, <2>3, <2>4
  <2>5. CASE x \in 1..Len(s) /\ y \in 1..Len(s)
    <3>1. s[x].item = s[y].item
      BY <1>12, <1>15, <2>5
    <3>2. p.out[x].item = p.out[y].item /\ x \in 1..Len(p.out) /\ y \in 1..Len(p.out)
      BY <1>8, <2>5, <3>1
    <3> QED BY <1>1, <1>15, <3>2
  <2> QED BY <1>12, <2>4, <2>5
<1>16. PICK v : v = [out |-> out, used |-> order.used]
  OBVIOUS
<1>17. v \in [out : Seq(Questions(items, n)), used : 0..m] /\ v.out = out /\ v.used = order.used
  BY <1>7, <1>12, <1>16
<1>18. v \in Papers(items, n, m, g, t + (O - 1), ids \union {item.id}, once)
  BY <1>7, <1>14, <1>15, <1>17 DEF Papers
<1> QED BY <1>10, <1>16, <1>18

LEMMA Multiples ==
  ASSUME NEW M \in Nat, NEW L \in Nat
  PROVE  /\ L * M \in Nat
         /\ \A j \in 1..L : (j - 1) * M \in Nat /\ j * M = (j - 1) * M + M
         /\ \A j \in 0..L : j * M \in Nat /\ j * M <= L * M
<1>1. \A j \in 1..L : (j - 1) * M \in Nat /\ j * M = (j - 1) * M + M
  OBVIOUS
<1>2. ASSUME NEW j \in 0..L PROVE j * M \in Nat /\ j * M <= L * M
  <2>1. PICK e \in Nat : L = j + e
    <3>1. L - j \in Nat /\ L = j + (L - j)
      OBVIOUS
    <3> QED BY <3>1
  <2>2. L * M = j * M + e * M /\ e * M \in Nat /\ j * M \in Nat
    BY <2>1
  <2> QED BY <2>2
<1> QED BY <1>1, <1>2

IdsOf(its, j) == {its[x].id : x \in 1..j}

LEMMA IdsOfMore ==
  ASSUME NEW its, NEW j \in Nat, j >= 1
  PROVE  IdsOf(its, j) = IdsOf(its, j - 1) \union {its[j].id}
<1>1. 1..j = (1..(j - 1)) \union {j}
  OBVIOUS
<1> QED BY <1>1 DEF IdsOf

\* Items that can be asked, no id twice.
AreAsked(its, k, items, n) ==
  /\ Len(its) = k
  /\ \A x \in 1..k : Asks(its[x], items, n)
  /\ \A x, y \in 1..k : its[x].id = its[y].id => x = y

LEMMA AddQuestionsIs ==
  ASSUME NEW items, NEW n, NEW O, NEW m, NEW stream, NEW G, NEW g,
         IsSetting(items, n, O, m, stream, G, g),
         NEW k \in Nat, NEW t \in Nat, t + k * (O - 1) <= G, NEW ids, NEW once,
         NEW p \in Papers(items, n, m, g, t, ids, once),
         NEW its, AreAsked(its, k, items, n), once => ids \intersect IdsOf(its, k) = {}
  PROVE  AddQuestions(stream, p, its) \in
           Papers(items, n, m, g, t + k * (O - 1), ids \union IdsOf(its, k), once)
<1>1. /\ Len(its) = k
      /\ \A x \in 1..k : Asks(its[x], items, n)
      /\ \A x, y \in 1..k : its[x].id = its[y].id => x = y
  BY DEF AreAsked
<1>2. PICK M \in Nat : M = O - 1
  BY WordsAssumption DEF IsSetting
<1>3. /\ k * M \in Nat
      /\ \A j \in 1..k : (j - 1) * M \in Nat /\ j * M = (j - 1) * M + M
      /\ \A j \in 0..k : j * M \in Nat /\ j * M <= k * M
  BY Multiples
<1>4. t + k * M <= G /\ G \in Nat
  BY <1>2 DEF IsSetting, IsSupply
<1> DEFINE S == [j \in Nat |-> Papers(items, n, m, g, t + j * M, ids \union IdsOf(its, j), once)]
           step == [j \in 1..k |-> [v \in S[j - 1] |-> AddQuestion(stream, v, its[j])]]
<1>5. ASSUME NEW j \in 1..k, NEW v \in S[j - 1]
      PROVE  AddQuestion(stream, v, its[j]) \in S[j]
  <2>1. PICK l, jds, item : /\ l \in Nat /\ l = t + (j - 1) * M
                            /\ jds = ids \union IdsOf(its, j - 1) /\ item = its[j]
    <3>1. (j - 1) * M \in Nat
      BY <1>3
    <3>2. t + (j - 1) * M \in Nat
      BY <3>1
    <3> QED BY <3>2
  <2>2. l + (O - 1) <= G /\ l + (O - 1) = t + j * M
    <3>1. PICK x \in Nat, y \in Nat, z \in Nat : x = (j - 1) * M /\ y = j * M /\ z = k * M
      BY <1>3
    <3>2. y = x + M /\ y <= z
      <4>1. j \in 0..k
        OBVIOUS
      <4> QED BY <1>3, <3>1, <4>1
    <3>3. l = t + x /\ t + z <= G
      BY <1>4, <2>1, <3>1
    <3>4. l + M <= G /\ l + M = t + y
      BY <1>4, <3>2, <3>3
    <3> QED BY <1>2, <3>1, <3>4
  <2>3. v \in Papers(items, n, m, g, l, jds, once)
    BY <1>5, <2>1
  <2>4. Asks(item, items, n)
    BY <1>1, <2>1
  <2>5. once => item.id \notin jds
    <3> SUFFICES ASSUME once PROVE item.id \notin jds
      OBVIOUS
    <3>1. item.id \in IdsOf(its, k)
      BY <2>1 DEF IdsOf
    <3>2. item.id \notin ids
      BY <3>1
    <3>3. item.id \notin IdsOf(its, j - 1)
      BY <1>1, <2>1 DEF IdsOf
    <3> QED BY <2>1, <3>2, <3>3
  <2>6. AddQuestion(stream, v, item) \in
          Papers(items, n, m, g, l + (O - 1), jds \union {item.id}, once)
    <3>1. l \in Nat
      BY <2>1
    <3> QED BY <2>2, <2>3, <2>4, <2>5, <3>1, AddQuestionIs
  <2>7. jds \union {item.id} = ids \union IdsOf(its, j)
    <3>1. IdsOf(its, j) = IdsOf(its, j - 1) \union {its[j].id}
      BY IdsOfMore
    <3> QED BY <2>1, <3>1
  <2>8. S[j] = Papers(items, n, m, g, t + j * M, ids \union IdsOf(its, j), once)
    OBVIOUS
  <2> QED BY <2>1, <2>2, <2>6, <2>7, <2>8
<1>6. \A j \in 1..k : step[j] \in [S[j - 1] -> S[j]]
  <2> TAKE j \in 1..k
  <2>1. step[j] = [v \in S[j - 1] |-> AddQuestion(stream, v, its[j])]
    OBVIOUS
  <2> HIDE DEF S, step
  <2> QED BY <1>5, <2>1
<1>7. p \in S[0]
  <2>1. t + 0 * M = t /\ ids \union IdsOf(its, 0) = ids
    BY <1>2 DEF IdsOf
  <2>2. S[0] = Papers(items, n, m, g, t + 0 * M, ids \union IdsOf(its, 0), once)
    OBVIOUS
  <2> HIDE DEF S
  <2> QED BY <2>1, <2>2
<1>8. PICK f : Rounds(f, p, step, k) /\ \A j \in 0..k : f[j] \in S[j]
  <2> HIDE DEF S, step
  <2> QED BY <1>6, <1>7, LoopHasRounds, Zenon
<1> DEFINE Loop(h) ==
      h = [i \in 0..Len(its) |-> IF i = 0 THEN p ELSE AddQuestion(stream, h[i - 1], its[i])]
<1>9. Loop(f)
  <2>1. ASSUME NEW j \in 0..k
        PROVE  (IF j = 0 THEN p ELSE step[j][f[j - 1]]) =
               (IF j = 0 THEN p ELSE AddQuestion(stream, f[j - 1], its[j]))
    <3>1. CASE j = 0
      BY <3>1
    <3>2. CASE j # 0
      <4>1. j \in 1..k /\ j - 1 \in 0..k
        BY <3>2
      <4>2. f[j - 1] \in S[j - 1]
        BY <1>8, <4>1
      <4>3. step[j] = [v \in S[j - 1] |-> AddQuestion(stream, v, its[j])]
        BY <4>1
      <4> HIDE DEF S, step
      <4> QED BY <3>2, <4>2, <4>3
    <3> QED BY <3>1, <3>2
  <2>2. f = [j \in 0..k |-> IF j = 0 THEN p ELSE step[j][f[j - 1]]]
    BY <1>8 DEF Rounds
  <2> HIDE DEF S, step
  <2>3. f = [j \in 0..k |-> IF j = 0 THEN p ELSE AddQuestion(stream, f[j - 1], its[j])]
    BY <2>1, <2>2
  <2> QED BY <1>1, <2>3
<1>10. PICK q : AddQuestions(stream, p, its) = q[k] /\ Loop(q)
  <2>1. AddQuestions(stream, p, its) = (CHOOSE h : Loop(h))[Len(its)]
    BY Zenon DEF AddQuestions
  <2>2. PICK q : q = CHOOSE h : Loop(h)
    OBVIOUS
  <2> HIDE DEF Loop
  <2> QED BY <1>1, <1>9, <2>1, <2>2
<1>11. q[0] = p /\ \A j \in 1..k : q[j] = AddQuestion(stream, q[j - 1], its[j])
  BY <1>1, <1>10
<1> DEFINE H == {j \in 0..k : q[j] \in S[j]}
<1>12. 0 \in H
  <2> HIDE DEF S
  <2> QED BY <1>7, <1>11
<1>13. ASSUME NEW j \in 1..k, j - 1 \in H PROVE j \in H
  <2> HIDE DEF S
  <2>1. q[j - 1] \in S[j - 1]
    BY <1>13
  <2> QED BY <1>5, <1>11, <2>1
<1>14. q[k] \in S[k]
  <2>1. \A j \in 0..k : j \in H
    <3> HIDE DEF H
    <3> QED BY <1>12, <1>13, EveryRound
  <2> HIDE DEF S
  <2> QED BY <2>1
<1>15. S[k] = Papers(items, n, m, g, t + k * M, ids \union IdsOf(its, k), once)
  OBVIOUS
<1> QED
  <2> HIDE DEF S
  <2> QED BY <1>2, <1>10, <1>14, <1>15

\* What papers hold of the items of a bank.
IsShelf(c, items, n, T) == AreItems(c, n, T) /\ \A i \in 1..n : c[i] = Plain(items[i])

\* What is drawn from a pool of these items can be asked.
LEMMA SampleIsAsked ==
  ASSUME NEW n \in Nat, NEW items, NEW c, NEW T, IsShelf(c, items, n, T),
         NEW its \in SUBSET (1..n), NEW pool, IsPool(pool, c, its, T),
         NEW l, l = Cardinality(its), NEW count \in 0..l, NEW q, NEW numbers, NEW out,
         IsSample(out, q, pool, l, count, numbers, T)
  PROVE  AreAsked(out, count, items, n) /\ IdsOf(out, count) \subseteq Ids(items, its)
<1>1. /\ c \in [1..n -> T] /\ HaveIds(c, n) /\ \A i \in 1..n : c[i] = Plain(items[i])
  BY DEF IsShelf, AreItems
<1>2. /\ \A k \in 1..l : \E i \in its : pool[k] = c[i]
      /\ \A k, j \in 1..l : pool[k].id = pool[j].id => k = j
  <2>1. AreItems(c, n, T) /\ its \subseteq 1..n
    BY DEF IsShelf
  <2>2. IsVaried(pool, Cardinality(its), c, its)
    BY <2>1, PoolIsDistinct
  <2> QED BY <2>2 DEF IsVaried
<1>3. /\ out \in [1..count -> T] /\ Distinct(out, count)
      /\ \A r \in 1..count : \E y \in 1..l : out[r] = pool[y]
  BY DEF IsSample
<1>4. l \in Nat
  <2>1. IsFiniteSet(1..n)
    BY FS_Interval
  <2>2. IsFiniteSet(its)
    BY <2>1, FS_Subset
  <2> QED BY <2>2, FS_CardinalityType
<1>5. Len(out) = count
  BY <1>3, <1>4
<1>6. ASSUME NEW r \in 1..count
      PROVE  Asks(out[r], items, n) /\ out[r].id \in Ids(items, its)
  <2>1. PICK i \in its : out[r] = c[i]
    <3>1. PICK y \in 1..l : out[r] = pool[y]
      BY <1>3
    <3>2. PICK i \in its : pool[y] = c[i]
      BY <1>2
    <3> QED BY <3>1, <3>2
  <2>2. i \in 1..n /\ out[r] = Plain(items[i])
    BY <1>1, <2>1
  <2>3. out[r].id = items[i].id /\ out[r].options = items[i].options
    BY <2>2 DEF Plain
  <2> QED BY <2>1, <2>2, <2>3 DEF Asks, Ids
<1>7. ASSUME NEW r \in 1..count, NEW s \in 1..count, out[r].id = out[s].id PROVE r = s
  <2>1. PICK y \in 1..l : out[r] = pool[y]
    BY <1>3
  <2>2. PICK z \in 1..l : out[s] = pool[z]
    BY <1>3
  <2>3. y = z
    BY <1>2, <1>7, <2>1, <2>2
  <2>4. out[r] = out[s]
    BY <2>1, <2>2, <2>3
  <2> QED BY <1>3, <2>4 DEF Distinct
<1>8. AreAsked(out, count, items, n)
  BY <1>5, <1>6, <1>7 DEF AreAsked
<1>9. IdsOf(out, count) \subseteq Ids(items, its)
  BY <1>6 DEF IdsOf
<1> QED BY <1>8, <1>9

\* A slot more takes at most so many words of the lower half for each of its
\* questions as an item has options.
LEMMA AddSlotIs ==
  ASSUME NEW items, NEW n, NEW O, NEW m, NEW stream, NEW G, NEW g,
         IsSetting(items, n, O, m, stream, G, g),
         NEW c, NEW T, IsShelf(c, items, n, T),
         NEW its \in SUBSET (1..n), NEW pool, IsPool(pool, c, its, T),
         NEW count \in Nat, count <= Cardinality(its),
         NEW t \in Nat, t + count * O <= G, NEW ids, NEW once,
         NEW p \in Papers(items, n, m, g, t, ids, once),
         once => ids \intersect Ids(items, its) = {}
  PROVE  AddSlot(stream, p, pool, count) \in
           Papers(items, n, m, g, t + count * O, ids \union Ids(items, its), once)
<1>1. /\ p \in [out : Seq(Questions(items, n)), used : 0..m]
      /\ p.used <= g[t]
      /\ \A x \in 1..Len(p.out) : p.out[x].item \in ids
      /\ once => \A x, y \in 1..Len(p.out) : p.out[x].item = p.out[y].item => x = y
  BY DEF Papers
<1>2. p # Dry /\ p # NoPaper /\ p.used \in 0..m /\ p.out \in Seq(Questions(items, n))
  <2>1. "used" \in DOMAIN p /\ "used" \notin DOMAIN Dry /\ "used" \notin DOMAIN NoPaper
    BY <1>1 DEF Dry, NoPaper
  <2> QED BY <1>1, <2>1
<1>3. /\ n \in 0..Words /\ n \in Nat /\ O \in Nat /\ O >= 1 /\ O - 1 \in Nat /\ m \in Nat
      /\ stream \in Streams(m) /\ IsSupply(g, G, stream, m) /\ G \in Nat
  BY WordsAssumption DEF IsSetting, IsSupply
<1>4. PICK l \in 0..Words : l = Cardinality(its) /\ count \in 0..l /\ l \in Nat
  <2>1. IsFiniteSet(1..n) /\ Cardinality(1..n) = n
    BY <1>3, FS_Interval
  <2>2. IsFiniteSet(its) /\ Cardinality(its) <= n
    BY <2>1, FS_Subset
  <2>3. Cardinality(its) \in Nat
    BY <2>2, FS_CardinalityType
  <2>4. PICK l : l = Cardinality(its)
    OBVIOUS
  <2>5. l \in Nat /\ l \in 0..Words /\ count \in 0..l
    BY <1>3, <2>2, <2>3, <2>4, WordsAssumption
  <2> QED BY <2>4, <2>5
<1>5. /\ pool \in [1..l -> T] /\ Len(pool) = l /\ Distinct(pool, l)
  <2>1. pool \in [1..l -> T]
    BY <1>4 DEF IsPool
  <2>2. AreItems(c, n, T) /\ its \subseteq 1..n
    BY DEF IsShelf
  <2>3. IsVaried(pool, Cardinality(its), c, its)
    BY <1>3, <2>2, PoolIsDistinct
  <2> QED BY <1>4, <2>1, <2>3 DEF Distinct, IsVaried
<1>6. PICK M \in Nat, w \in Nat : /\ M = O - 1 /\ w = count * M /\ count * O = count + w
  <2>1. PICK M \in Nat : M = O - 1 /\ O = M + 1
    BY <1>3
  <2>2. count * M \in Nat /\ count * O = count + count * M
    BY <2>1
  <2> QED BY <2>1, <2>2
<1>7. t + count \in Nat /\ t + count + w <= G /\ t + count <= G /\ t + count * O = t + count + w
  BY <1>3, <1>6
<1>8. PICK bounds : bounds = Falling(l, count) /\ bounds \in [1..count -> 1..Words]
  BY <1>4, FallingBounds
<1>9. PICK d : /\ d = Draws(stream, p.used, bounds) /\ d # Dry
               /\ d.out \in Numbers(count, bounds)
               /\ d.used \in 0..m /\ d.used <= g[t + count]
  <2>1. PICK used \in 0..m : used = p.used /\ used <= g[t]
    BY <1>1, <1>2
  <2>2. IsDrawing(Draws(stream, used, bounds), count, bounds, m, g, t + count)
    BY <1>3, <1>7, <1>8, <2>1, DrawsLast
  <2> QED BY <2>1, <2>2 DEF IsDrawing
<1>10. PICK drawn, out : /\ drawn = Sample(stream, p.used, pool, count)
                         /\ out = Sampled(pool, d.out)
  OBVIOUS
<1>11. drawn # Dry /\ drawn.out = out /\ drawn.used = d.used
  <2>1. /\ Sample(stream, p.used, pool, count) = Dry <=> Draws(stream, p.used, Falling(l, count)) = Dry
        /\ Draws(stream, p.used, Falling(l, count)) # Dry =>
              /\ Sample(stream, p.used, pool, count).out =
                   Sampled(pool, Draws(stream, p.used, Falling(l, count)).out)
              /\ Sample(stream, p.used, pool, count).used =
                   Draws(stream, p.used, Falling(l, count)).used
    BY <1>4, <1>5, SampleIs
  <2> QED BY <1>8, <1>9, <1>10, <2>1
<1>12. IsSample(out, Pools(pool, d.out), pool, l, count, d.out, T)
  BY <1>4, <1>5, <1>8, <1>9, <1>10, SampledIs
<1>13. AreAsked(out, count, items, n) /\ IdsOf(out, count) \subseteq Ids(items, its)
  BY <1>3, <1>4, <1>12, SampleIsAsked
<1>14. PICK v : v = [out |-> p.out, used |-> d.used]
  OBVIOUS
<1>15. v \in Papers(items, n, m, g, t + count, ids, once)
  <2>1. v \in [out : Seq(Questions(items, n)), used : 0..m] /\ v.out = p.out /\ v.used = d.used
    BY <1>2, <1>9, <1>14
  <2> QED BY <1>1, <1>9, <2>1 DEF Papers
<1>16. AddSlot(stream, p, pool, count) = AddQuestions(stream, v, out)
  <2>1. ~(Len(pool) < count)
    BY <1>4, <1>5
  <2> QED BY <1>2, <1>10, <1>11, <1>14, <2>1 DEF AddSlot
<1>17. AddQuestions(stream, v, out) \in
         Papers(items, n, m, g, t + count + count * (O - 1), ids \union IdsOf(out, count), once)
  <2>1. PICK h \in Nat : h = t + count /\ h + count * (O - 1) <= G
    BY <1>6, <1>7
  <2>2. v \in Papers(items, n, m, g, h, ids, once)
    BY <1>15, <2>1
  <2>3. once => ids \intersect IdsOf(out, count) = {}
    BY <1>13
  <2>4. AddQuestions(stream, v, out) \in
         Papers(items, n, m, g, h + count * (O - 1), ids \union IdsOf(out, count), once)
    BY <1>13, <2>1, <2>2, <2>3, AddQuestionsIs
  <2> QED BY <2>1, <2>4
<1>18. AddQuestions(stream, v, out) \in
         Papers(items, n, m, g, t + count * O, ids \union Ids(items, its), once)
  <2>1. PICK h \in 0..G : h = t + count * O /\ h = t + count + count * (O - 1)
    BY <1>3, <1>6, <1>7
  <2>2. h <= h /\ ids \union IdsOf(out, count) \subseteq ids \union Ids(items, its)
    BY <1>13, <2>1
  <2>3. Papers(items, n, m, g, h, ids \union IdsOf(out, count), once) \subseteq
        Papers(items, n, m, g, h, ids \union Ids(items, its), once)
    BY <2>2, PapersGrow
  <2> QED BY <1>17, <2>1, <2>3
<1> QED BY <1>16, <1>18

\* The slots of a blueprint that items can fill, with their pools; when no
\* slot comes twice, nor shall a question.
IsPlan(slots, z, C, pools, c, n, T, once) ==
  /\ Len(slots) = z
  /\ \A r \in 1..z : slots[r].count \in 0..C
  /\ \A r \in 1..z : slots[r].count <= Cardinality(OfSlot(c, n, slots[r].slot))
  /\ \A r \in 1..z : IsPool(pools[r], c, OfSlot(c, n, slots[r].slot), T)
  /\ once => \A x, y \in 1..z : slots[x].slot = slots[y].slot => x = y

\* The ids of the items of the first r slots.
IdsUpTo(slots, r, c, items, n) ==
  {items[i].id : i \in {j \in 1..n : \E x \in 1..r : c[j].slot = slots[x].slot}}

LEMMA IdsUpToMore ==
  ASSUME NEW slots, NEW c, NEW items, NEW n, NEW r \in Nat, r >= 1
  PROVE  IdsUpTo(slots, r, c, items, n) =
         IdsUpTo(slots, r - 1, c, items, n) \union Ids(items, OfSlot(c, n, slots[r].slot))
<1>1. 1..r = (1..(r - 1)) \union {r}
  OBVIOUS
<1>2. {j \in 1..n : \E x \in 1..r : c[j].slot = slots[x].slot} =
      {j \in 1..n : \E x \in 1..(r - 1) : c[j].slot = slots[x].slot} \union
      {j \in 1..n : c[j].slot = slots[r].slot}
  BY <1>1
<1> QED BY <1>2 DEF IdsUpTo, Ids, OfSlot

\* No item of a slot is one of the slots before.
LEMMA SlotsAreApart ==
  ASSUME NEW n \in Nat, NEW items, HaveIds(items, n), NEW c,
         NEW slots, NEW z \in Nat, \A x, y \in 1..z : slots[x].slot = slots[y].slot => x = y,
         NEW r \in 1..z
  PROVE  IdsUpTo(slots, r - 1, c, items, n) \intersect
         Ids(items, OfSlot(c, n, slots[r].slot)) = {}
<1> SUFFICES ASSUME NEW i \in 1..n, NEW j \in 1..n, items[i].id = items[j].id,
                    NEW x \in 1..(r - 1), c[i].slot = slots[x].slot, c[j].slot = slots[r].slot
             PROVE  FALSE
  BY DEF IdsUpTo, Ids, OfSlot
<1>1. i = j
  BY DEF HaveIds
<1>2. x \in 1..z /\ x # r
  OBVIOUS
<1> QED BY <1>1, <1>2

LEMMA AddSlotsIs ==
  ASSUME NEW items, NEW n, NEW O, NEW m, NEW stream, NEW G, NEW g,
         IsSetting(items, n, O, m, stream, G, g), HaveIds(items, n),
         NEW c, NEW T, IsShelf(c, items, n, T), NEW z \in Nat, NEW C \in Nat,
         NEW slots, NEW pools, NEW once, IsPlan(slots, z, C, pools, c, n, T, once),
         z * (C * O) <= G
  PROVE  AddSlots(stream, slots, pools) \in
           Papers(items, n, m, g, z * (C * O), IdsUpTo(slots, z, c, items, n), once)
<1>1. /\ Len(slots) = z
      /\ \A r \in 1..z : slots[r].count \in 0..C
      /\ \A r \in 1..z : slots[r].count <= Cardinality(OfSlot(c, n, slots[r].slot))
      /\ \A r \in 1..z : IsPool(pools[r], c, OfSlot(c, n, slots[r].slot), T)
      /\ once => \A x, y \in 1..z : slots[x].slot = slots[y].slot => x = y
  BY DEF IsPlan
<1>2. n \in Nat /\ O \in Nat /\ m \in Nat /\ G \in Nat /\ g \in [0..G -> 0..m] /\ g[0] = 0
  BY WordsAssumption DEF IsSetting, IsSupply
<1>3. PICK K \in Nat : K = C * O
  <2>1. C * O \in Nat
    BY <1>2
  <2> QED BY <2>1
<1>4. /\ z * K \in Nat
      /\ \A j \in 1..z : (j - 1) * K \in Nat /\ j * K = (j - 1) * K + K
      /\ \A j \in 0..z : j * K \in Nat /\ j * K <= z * K
  BY Multiples
<1>5. z * K <= G
  BY <1>3
<1> DEFINE first == [out |-> <<>>, used |-> 0]
           S == [r \in Nat |-> Papers(items, n, m, g, r * K, IdsUpTo(slots, r, c, items, n), once)]
           step == [r \in 1..z |->
                      [v \in S[r - 1] |-> AddSlot(stream, v, pools[r], slots[r].count)]]
<1>6. ASSUME NEW r \in 1..z, NEW v \in S[r - 1]
      PROVE  AddSlot(stream, v, pools[r], slots[r].count) \in S[r]
  <2>1. PICK t \in 0..G, l \in 0..G : t = (r - 1) * K /\ l = r * K /\ l = t + K
    <3>1. PICK x \in Nat, y \in Nat, w \in Nat : x = (r - 1) * K /\ y = r * K /\ w = z * K
      BY <1>4
    <3>2. y = x + K /\ y <= w /\ w <= G
      <4>1. r \in 0..z
        OBVIOUS
      <4> QED BY <1>4, <1>5, <3>1, <4>1
    <3>3. x \in 0..G /\ y \in 0..G
      BY <1>2, <3>1, <3>2
    <3> QED BY <3>1, <3>2, <3>3
  <2>2. PICK its, ids, pool, count : /\ its = OfSlot(c, n, slots[r].slot)
                                     /\ ids = IdsUpTo(slots, r - 1, c, items, n)
                                     /\ pool = pools[r] /\ count = slots[r].count
    OBVIOUS
  <2>3. /\ count \in 0..C /\ count \in Nat /\ count <= Cardinality(its)
        /\ IsPool(pool, c, its, T) /\ its \in SUBSET (1..n)
    <3>1. count \in 0..C /\ count \in Nat /\ count <= Cardinality(its) /\ IsPool(pool, c, its, T)
      BY <1>1, <2>2
    <3>2. its \in SUBSET (1..n)
      BY <2>2 DEF OfSlot
    <3> QED BY <3>1, <3>2
  <2>4. PICK h \in 0..G : h = t + count * O /\ h <= l
    <3>1. PICK e \in Nat : C = count + e
      <4>1. C - count \in Nat /\ C = count + (C - count)
        BY <2>3
      <4> QED BY <4>1
    <3>2. PICK x \in Nat, y \in Nat : x = count * O /\ y = e * O /\ K = x + y
      <4>1. count * O \in Nat /\ e * O \in Nat /\ C * O = count * O + e * O
        BY <1>2, <2>3, <3>1
      <4> QED BY <1>3, <4>1
    <3>3. t + x <= l /\ t + x \in 0..G
      <4>1. l = t + K /\ K = x + y /\ G \in Nat
        BY <1>2, <2>1, <3>2
      <4> QED BY ONLY <4>1, t \in 0..G, l \in 0..G, x \in Nat, y \in Nat
    <3> QED BY <3>2, <3>3
  <2>5. v \in Papers(items, n, m, g, t, ids, once)
    BY <1>6, <2>1, <2>2
  <2>6. once => ids \intersect Ids(items, its) = {}
    <3>1. once => IdsUpTo(slots, r - 1, c, items, n) \intersect
                  Ids(items, OfSlot(c, n, slots[r].slot)) = {}
      BY <1>1, <1>2, SlotsAreApart
    <3> QED BY <2>2, <3>1
  <2>7. AddSlot(stream, v, pool, count) \in
          Papers(items, n, m, g, t + count * O, ids \union Ids(items, its), once)
    <3>1. t \in Nat /\ t + count * O <= G
      BY <1>2, <2>1, <2>4
    <3> QED BY <2>3, <2>5, <2>6, <3>1, AddSlotIs
  <2>8. Papers(items, n, m, g, h, ids \union Ids(items, its), once) \subseteq
        Papers(items, n, m, g, l, ids \union Ids(items, its), once)
    <3>1. ids \union Ids(items, its) \subseteq ids \union Ids(items, its)
      OBVIOUS
    <3> QED BY <2>4, <3>1, PapersGrow
  <2>9. ids \union Ids(items, its) = IdsUpTo(slots, r, c, items, n)
    <3>1. r \in Nat /\ r >= 1
      OBVIOUS
    <3> QED BY <2>2, <3>1, IdsUpToMore
  <2>10. S[r] = Papers(items, n, m, g, r * K, IdsUpTo(slots, r, c, items, n), once)
    OBVIOUS
  <2> HIDE DEF S
  <2> QED BY <2>1, <2>2, <2>4, <2>7, <2>8, <2>9, <2>10
<1>7. \A r \in 1..z : step[r] \in [S[r - 1] -> S[r]]
  <2> TAKE r \in 1..z
  <2>1. step[r] = [v \in S[r - 1] |-> AddSlot(stream, v, pools[r], slots[r].count)]
    OBVIOUS
  <2> HIDE DEF S, step
  <2> QED BY <1>6, <2>1
<1>8. first \in S[0]
  <2>1. first \in [out : Seq(Questions(items, n)), used : 0..m] /\ first.out = <<>> /\ first.used = 0
    BY <1>2
  <2>2. Len(first.out) = 0 /\ first.used <= g[0]
    BY <1>2, <2>1
  <2> HIDE DEF first
  <2>3. first \in Papers(items, n, m, g, 0, IdsUpTo(slots, 0, c, items, n), once)
    BY <2>1, <2>2 DEF Papers
  <2>4. 0 * K = 0
    BY <1>3
  <2> QED BY <2>3, <2>4
<1>9. PICK f : Rounds(f, first, step, z) /\ \A r \in 0..z : f[r] \in S[r]
  <2> HIDE DEF S, step, first
  <2> QED BY <1>7, <1>8, LoopHasRounds, Zenon
<1> DEFINE Loop(h) ==
      h = [i \in 0..Len(slots) |->
             IF i = 0 THEN first ELSE AddSlot(stream, h[i - 1], pools[i], slots[i].count)]
<1>10. Loop(f)
  <2>1. ASSUME NEW r \in 0..z
        PROVE  (IF r = 0 THEN first ELSE step[r][f[r - 1]]) =
               (IF r = 0 THEN first ELSE AddSlot(stream, f[r - 1], pools[r], slots[r].count))
    <3>1. CASE r = 0
      BY <3>1
    <3>2. CASE r # 0
      <4>1. r \in 1..z /\ r - 1 \in 0..z
        BY <3>2
      <4>2. f[r - 1] \in S[r - 1]
        BY <1>9, <4>1
      <4>3. step[r] = [v \in S[r - 1] |-> AddSlot(stream, v, pools[r], slots[r].count)]
        BY <4>1
      <4> HIDE DEF S, step
      <4> QED BY <3>2, <4>2, <4>3
    <3> QED BY <3>1, <3>2
  <2>2. f = [r \in 0..z |-> IF r = 0 THEN first ELSE step[r][f[r - 1]]]
    BY <1>9 DEF Rounds
  <2> HIDE DEF S, step, first
  <2>3. f = [r \in 0..z |->
               IF r = 0 THEN first ELSE AddSlot(stream, f[r - 1], pools[r], slots[r].count)]
    BY <2>1, <2>2
  <2> QED BY <1>1, <2>3
<1>11. PICK q : AddSlots(stream, slots, pools) = q[z] /\ Loop(q)
  <2>1. AddSlots(stream, slots, pools) = (CHOOSE h : Loop(h))[Len(slots)]
    BY Zenon DEF AddSlots
  <2>2. PICK q : q = CHOOSE h : Loop(h)
    OBVIOUS
  <2> HIDE DEF Loop
  <2> QED BY <1>1, <1>10, <2>1, <2>2
<1>12. /\ q[0] = first
       /\ \A r \in 1..z : q[r] = AddSlot(stream, q[r - 1], pools[r], slots[r].count)
  <2> HIDE DEF first
  <2> QED BY <1>1, <1>11
<1> DEFINE H == {r \in 0..z : q[r] \in S[r]}
<1>13. 0 \in H
  <2> HIDE DEF S, first
  <2> QED BY <1>8, <1>12
<1>14. ASSUME NEW r \in 1..z, r - 1 \in H PROVE r \in H
  <2> HIDE DEF S
  <2>1. q[r - 1] \in S[r - 1]
    BY <1>14
  <2> QED BY <1>6, <1>12, <2>1
<1>15. q[z] \in S[z]
  <2>1. \A r \in 0..z : r \in H
    <3> HIDE DEF H
    <3> QED BY <1>13, <1>14, EveryRound
  <2> HIDE DEF S
  <2> QED BY <2>1
<1>16. S[z] = Papers(items, n, m, g, z * K, IdsUpTo(slots, z, c, items, n), once)
  OBVIOUS
<1> QED
  <2> HIDE DEF S
  <2> QED BY <1>3, <1>11, <1>15, <1>16

-----------------------------------------------------------------------------
(* Banks that the authority accepted.                                      *)

\* In an order of the options each of them comes once.
LEMMA OptionComesOnce ==
  ASSUME NEW o \in Nat, NEW order \in OptionOrders(o), NEW x \in 0..(o - 1)
  PROVE  Cardinality({k \in DOMAIN order : order[k] = x}) = 1
<1>1. order \in [1..o -> 0..(o - 1)] /\ \A k, l \in 1..o : order[k] = order[l] => k = l
  BY DEF OptionOrders, Distinct
<1>2. /\ IsFiniteSet(0..(o - 1)) /\ Cardinality(0..(o - 1)) = o /\ Cardinality(1..o) = o
  BY FS_Interval
<1>3. order \in Injection(1..o, 0..(o - 1))
  BY <1>1 DEF Injection, IsInjective
<1>4. order \in Surjection(1..o, 0..(o - 1))
  BY <1>2, <1>3, FS_Injection
<1>5. PICK l \in 1..o : order[l] = x
  BY <1>4 DEF Surjection
<1>6. {k \in DOMAIN order : order[k] = x} = {l}
  BY <1>1, <1>5
<1> QED BY <1>6, FS_Singleton

AreTold(out, answers) ==
  \A i \in DOMAIN out : \E a \in DOMAIN answers :
    /\ answers[a].id = out[i].item
    /\ Cardinality({k \in DOMAIN out[i].order : out[i].order[k] = answers[a].correct}) = 1

\* A paper of questions from this bank, each of which lets its answer be told.
LEMMA AnswersAreTold ==
  ASSUME NEW items, NEW n \in Nat, NEW m, NEW g, NEW t, NEW ids, NEW once,
         NEW p \in Papers(items, n, m, g, t, ids, once),
         DOMAIN items = 1..n, \A i \in 1..n : items[i].options \in Nat,
         \A i \in 1..n : items[i].correct \in 0..(items[i].options - 1)
  PROVE  AreTold(p.out, AnswerContent(items))
<1>1. p.out \in Seq(Questions(items, n))
  BY DEF Papers
<1>2. PICK answers : answers = AnswerContent(items)
  OBVIOUS
<1>3. answers = [i \in 1..n |-> [id |-> items[i].id, correct |-> items[i].correct]]
  BY <1>2 DEF AnswerContent
<1>4. ASSUME NEW i \in DOMAIN p.out
      PROVE  \E a \in DOMAIN answers :
               /\ answers[a].id = p.out[i].item
               /\ Cardinality({k \in DOMAIN p.out[i].order :
                                p.out[i].order[k] = answers[a].correct}) = 1
  <2>1. PICK q \in Questions(items, n) : q = p.out[i]
    BY <1>1
  <2>2. PICK a \in 1..n : q \in QuestionsOf(items[a])
    BY DEF Questions
  <2>3. PICK order \in OptionOrders(items[a].options) :
          q = [item |-> items[a].id, order |-> order]
    BY <2>2 DEF QuestionsOf
  <2>4. q.item = items[a].id /\ q.order = order
    BY <2>3
  <2>5. PICK x : x = items[a].correct /\ x \in 0..(items[a].options - 1)
    OBVIOUS
  <2>6. Cardinality({k \in DOMAIN order : order[k] = x}) = 1
    <3>1. items[a].options \in Nat
      OBVIOUS
    <3> QED BY <2>5, <3>1, OptionComesOnce
  <2>7. a \in DOMAIN answers /\ answers[a].id = items[a].id /\ answers[a].correct = x
    BY <1>3, <2>5
  <2> QED BY <2>1, <2>4, <2>6, <2>7
<1> QED BY <1>2, <1>4 DEF AreTold

\* A bank of n items, none of more options than O, and a blueprint of z slots,
\* none of more questions than C; the stream has so many words of the lower
\* half that a paper cannot use it up.
IsOffer(items, n, O, slots, z, C, m, stream, G, g) ==
  /\ n \in 0..Words /\ items = [i \in 1..n |-> items[i]]
  /\ O \in 1..Words /\ \A i \in 1..n : items[i].id \in Int /\ items[i].options \in 0..O
  /\ z \in Nat /\ C \in Nat /\ Len(slots) = z /\ DOMAIN slots = 1..z
  /\ \A r \in 1..z : slots[r].count \in 0..C
  /\ m \in Nat /\ stream \in Streams(m) /\ IsSupply(g, G, stream, m)
  /\ z * (C * O) <= G

\* A bank that validateBank accepts gives a paper, whatever its items and its
\* slots and whatever the stream, as long as the stream does not end: every
\* slot finds its items, no question comes twice unless a slot does, and of
\* every question the answer can be told from the order of its options.
THEOREM AcceptedBanksAreAssembled ==
  ASSUME NEW items, NEW n, NEW O, NEW slots, NEW z, NEW C, NEW m, NEW stream, NEW G, NEW g,
         IsOffer(items, n, O, slots, z, C, m, stream, G, g), ValidBank(items, slots)
  PROVE  GivesPaper(items, slots, stream)
<1>1. /\ n \in 0..Words /\ n \in Nat /\ DOMAIN items = 1..n
      /\ O \in 1..Words /\ O \in Nat
      /\ \A i \in 1..n : items[i].id \in Int /\ items[i].options \in 0..O
      /\ z \in Nat /\ C \in Nat /\ Len(slots) = z /\ DOMAIN slots = 1..z
      /\ \A r \in 1..z : slots[r].count \in 0..C
      /\ m \in Nat /\ stream \in Streams(m) /\ IsSupply(g, G, stream, m) /\ G \in Nat
      /\ z * (C * O) <= G
  <2>1. n \in 0..Words /\ n \in Nat /\ O \in 1..Words /\ O \in Nat
    BY WordsAssumption DEF IsOffer
  <2>2. DOMAIN items = 1..n
    BY DEF IsOffer
  <2>3. /\ \A i \in 1..n : items[i].id \in Int /\ items[i].options \in 0..O
        /\ z \in Nat /\ C \in Nat /\ Len(slots) = z /\ DOMAIN slots = 1..z
        /\ \A r \in 1..z : slots[r].count \in 0..C
        /\ m \in Nat /\ stream \in Streams(m) /\ IsSupply(g, G, stream, m) /\ z * (C * O) <= G
    BY DEF IsOffer
  <2>4. G \in Nat
    BY <2>3 DEF IsSupply
  <2> QED BY <2>1, <2>2, <2>3, <2>4
<1>2. /\ \A i, j \in 1..n : items[i].id = items[j].id => i = j
      /\ \A i \in 1..n : items[i].options >= 2 /\ items[i].correct \in 0..(items[i].options - 1)
      /\ \A r \in 1..z :
           Cardinality({j \in 1..n : items[j].slot = slots[r].slot}) >= slots[r].count
  BY <1>1 DEF ValidBank
<1>3. IsSetting(items, n, O, m, stream, G, g)
  <2>1. \A i \in 1..n : items[i].options \in 1..O
    BY <1>1, <1>2
  <2> QED BY <1>1, <2>1 DEF IsSetting
<1>4. HaveIds(items, n)
  BY <1>1, <1>2 DEF HaveIds
<1>5. PICK content, c, T : /\ content = PaperContent(items, slots) /\ c = content.items
                           /\ T = {Plain(items[i]) : i \in 1..n}
  OBVIOUS
<1>6. IsContent(content, items, n, slots)
  <2>1. IsBank(items, n)
    BY <1>4 DEF IsBank, IsOffer
  <2> QED BY <1>1, <1>5, <2>1, ContentIs
<1>7. IsShelf(c, items, n, T) /\ AreItems(c, n, T)
  BY <1>5, <1>6 DEF IsContent, IsShelf, AreItems
<1>8. content.slots = slots
  BY <1>6 DEF IsContent
<1>9. PICK pools : pools = [i \in 1..z |-> Pool(content, slots[i].slot)]
  OBVIOUS
<1>10. Assemble(stream, content) = AddSlots(stream, slots, pools)
  BY <1>1, <1>8, <1>9 DEF Assemble
<1>11. PICK once \in BOOLEAN : once <=> \A x, y \in 1..z : slots[x].slot = slots[y].slot => x = y
  OBVIOUS
<1>12. IsPlan(slots, z, C, pools, c, n, T, once)
  <2>1. ASSUME NEW r \in 1..z
        PROVE  slots[r].count <= Cardinality(OfSlot(c, n, slots[r].slot))
    <3>1. \A j \in 1..n : c[j].slot = items[j].slot
      <4>1. \A j \in 1..n : c[j] = Plain(items[j])
        BY <1>7 DEF IsShelf
      <4>2. \A j \in 1..n : Plain(items[j]).slot = items[j].slot
        BY DEF Plain
      <4> QED BY <4>1, <4>2
    <3>2. OfSlot(c, n, slots[r].slot) = {j \in 1..n : items[j].slot = slots[r].slot}
      BY <3>1 DEF OfSlot
    <3>3. PICK l : l = Cardinality(OfSlot(c, n, slots[r].slot)) /\ l \in Nat
      <4>1. IsFiniteSet(1..n) /\ OfSlot(c, n, slots[r].slot) \subseteq 1..n
        BY <1>1, FS_Interval DEF OfSlot
      <4>2. IsFiniteSet(OfSlot(c, n, slots[r].slot))
        BY <4>1, FS_Subset
      <4> QED BY <4>2, FS_CardinalityType
    <3>4. l >= slots[r].count /\ slots[r].count \in 0..C
      BY <1>1, <1>2, <3>2, <3>3
    <3> QED BY <1>1, <3>3, <3>4
  <2>2. ASSUME NEW r \in 1..z PROVE IsPool(pools[r], c, OfSlot(c, n, slots[r].slot), T)
    <3>1. pools[r] = Pool(content, slots[r].slot)
      BY <1>9
    <3> QED BY <1>1, <1>5, <1>7, <3>1, PoolIs
  <2> QED BY <1>1, <1>11, <2>1, <2>2 DEF IsPlan
<1>13. PICK paper, t, ids : /\ paper = AddSlots(stream, slots, pools)
                            /\ paper \in Papers(items, n, m, g, t, ids, once)
  <2>1. AddSlots(stream, slots, pools) \in
          Papers(items, n, m, g, z * (C * O), IdsUpTo(slots, z, c, items, n), once)
    BY <1>1, <1>3, <1>4, <1>7, <1>12, AddSlotsIs
  <2> QED BY <2>1
<1>14. /\ paper \in [out : Seq(Questions(items, n)), used : 0..m]
       /\ once => \A x, y \in 1..Len(paper.out) : paper.out[x].item = paper.out[y].item => x = y
  BY <1>13 DEF Papers
<1>15. paper # Dry /\ paper # NoPaper
  <2>1. "used" \in DOMAIN paper /\ "used" \notin DOMAIN Dry /\ "used" \notin DOMAIN NoPaper
    BY <1>14 DEF Dry, NoPaper
  <2> QED BY <2>1
<1>16. \/ \A i, j \in DOMAIN paper.out : paper.out[i].item = paper.out[j].item => i = j
       \/ \E i, j \in DOMAIN slots : i # j /\ slots[i].slot = slots[j].slot
  <2>1. DOMAIN paper.out = 1..Len(paper.out)
    BY <1>14
  <2>2. CASE once
    BY <1>14, <2>1, <2>2
  <2>3. CASE ~once
    BY <1>1, <1>11, <2>3
  <2> QED BY <2>2, <2>3
<1>17. \A i \in DOMAIN paper.out : \E a \in DOMAIN AnswerContent(items) :
         /\ AnswerContent(items)[a].id = paper.out[i].item
         /\ Cardinality({k \in DOMAIN paper.out[i].order :
                          paper.out[i].order[k] = AnswerContent(items)[a].correct}) = 1
  <2>1. /\ \A i \in 1..n : items[i].options \in Nat
        /\ \A i \in 1..n : items[i].correct \in 0..(items[i].options - 1)
    <3>1. \A i \in 1..n : items[i].options \in 0..O
      BY <1>1
    <3>2. \A i \in 1..n : items[i].options \in Nat
      BY <1>1, <3>1
    <3> QED BY <1>2, <3>2
  <2>2. AreTold(paper.out, AnswerContent(items))
    BY <1>1, <1>13, <2>1, AnswersAreTold
  <2> QED BY <2>2, Zenon DEF AreTold
<1>18. paper = Assemble(stream, PaperContent(items, slots))
  BY <1>5, <1>10, <1>13
<1>19. paper \notin {NoPaper, Dry}
  BY <1>15
<1> QED BY <1>16, <1>17, <1>18, <1>19, Zenon DEF GivesPaper

-----------------------------------------------------------------------------
(* The bank of the audit's exam.                                           *)

LEMMA BankOfThree == IsBank(Bank, 3)
<1>1. /\ Bank[1].id = 1 /\ Bank[2].id = 2 /\ Bank[3].id = 3
      /\ Bank = [i \in 1..3 |-> Bank[i]]
  BY DEF Bank
<1>2. 1..3 = {1, 2, 3}
  OBVIOUS
<1>3. HaveIds(Bank, 3)
  BY <1>1, <1>2 DEF HaveIds
<1> QED BY <1>1, <1>3 DEF IsBank

LEMMA TwelveWords ==
  /\ [i \in 1..12 |-> i % 3] \in Streams(12)
  /\ \E g : IsSupply(g, 8, [i \in 1..12 |-> i % 3], 12)
<1>1. PICK s : s = [i \in 1..12 |-> i % 3]
  OBVIOUS
<1>2. /\ s[1] = 1 /\ s[3] = 0 /\ s[4] = 1 /\ s[6] = 0
      /\ s[7] = 1 /\ s[9] = 0 /\ s[10] = 1 /\ s[12] = 0
  BY <1>1
<1>3. s \in Streams(12)
  <2>1. \A i \in 1..12 : i % 3 \in 0..2
    OBVIOUS
  <2>2. \A i \in 1..12 : i % 3 \in 0..(Words - 1)
    BY <2>1, WordsAssumption, WordsSuffice
  <2> QED BY <1>1, <2>2 DEF Streams
<1>4. PICK g : g = [t \in 0..8 |-> IF t = 0 THEN 0 ELSE IF t = 1 THEN 1 ELSE IF t = 2 THEN 3
                                  ELSE IF t = 3 THEN 4 ELSE IF t = 4 THEN 6 ELSE IF t = 5 THEN 7
                                  ELSE IF t = 6 THEN 9 ELSE IF t = 7 THEN 10 ELSE 12]
  OBVIOUS
<1>5. /\ g[0] = 0 /\ g[1] = 1 /\ g[2] = 3 /\ g[3] = 4 /\ g[4] = 6
      /\ g[5] = 7 /\ g[6] = 9 /\ g[7] = 10 /\ g[8] = 12
  BY <1>4
<1>6. g \in [0..8 -> 0..12]
  BY <1>4
<1>7. 0..8 = {0, 1, 2, 3, 4, 5, 6, 7, 8}
  OBVIOUS
<1>8. \A t \in 0..8 : \A l \in 0..8 : t < l => g[t] < g[l]
  <2>1. \A t \in 1..8 : g[t - 1] < g[t]
    BY <1>5
  <2> QED BY <1>5, <1>7
<1>9. \A t \in 1..8 : 2 * s[g[t]] <= Words
  <2> TAKE t \in 1..8
  <2>1. s[g[t]] \in {0, 1}
    BY <1>2, <1>5
  <2> QED BY <2>1, WordsAssumption, WordsSuffice
<1>10. IsSupply(g, 8, s, 12)
  BY <1>5, <1>6, <1>8, <1>9 DEF IsSupply
<1> QED BY <1>1, <1>3, <1>10

LEMMA BanksAreOffered ==
  ASSUME NEW items \in Banks, NEW slots \in Blueprints, ValidBank(items, slots)
  PROVE  GivesPaper(items, slots, [i \in 1..12 |-> i % 3])
<1>1. PICK n \in 0..3 :
        items \in [1..n -> [id : 1..3, slot : {"x", "y"}, options : 1..2, correct : {1}]]
  BY DEF Banks
<1>2. PICK z \in 0..2 : slots \in [1..z -> [slot : {"x", "y"}, count : 0..2]]
  BY DEF Blueprints
<1>3. PICK stream, g : stream = [i \in 1..12 |-> i % 3] /\ stream \in Streams(12)
                       /\ IsSupply(g, 8, stream, 12)
  BY TwelveWords
<1>4. items = [i \in 1..n |-> items[i]]
  BY <1>1
<1>5. \A i \in 1..n : items[i].id \in Int /\ items[i].options \in 0..2
  BY <1>1
<1>6. Len(slots) = z /\ DOMAIN slots = 1..z /\ \A r \in 1..z : slots[r].count \in 0..2
  BY <1>2
<1>7. n \in 0..Words /\ 2 \in 1..Words /\ z * (2 * 2) <= 8
  BY WordsAssumption, WordsSuffice
<1>8. IsOffer(items, n, 2, slots, z, 2, 12, stream, 8, g)
  BY <1>3, <1>4, <1>5, <1>6, <1>7 DEF IsOffer
<1>9. GivesPaper(items, slots, stream)
  BY <1>8, AcceptedBanksAreAssembled
<1> QED BY <1>3, <1>9

LEMMA TheBankIsFair == BankIsFair
<1>1. DrawsAreUniform(3, 2, 3)
  <2>1. 3 \in 1..Words /\ 2 \in 0..3 /\ 3 \in Nat /\ 3 <= 3
    BY WordsAssumption, WordsSuffice
  <2> QED BY <2>1, DrawingIsUniform
<1>2. StorageHasNoPart(Bank, <<[slot |-> "x", count |-> 2]>>, 4)
  <2>1. 3 \in Nat /\ 4 \in Nat
    OBVIOUS
  <2> QED BY <2>1, BankOfThree, StorageIsIrrelevant
<1>3. AcceptedBanksGivePapers(Banks, Blueprints, [i \in 1..12 |-> i % 3])
  BY BanksAreOffered, Zenon DEF AcceptedBanksGivePapers
<1> QED BY <1>1, <1>2, <1>3 DEF BankIsFair

(* The papers of a provisioned exam are drawn fairly, do not depend on the *)
(* order its bank is stored in, and can be assembled and marked from every *)
(* bank that validateBank accepts (prng.ts, assemble.ts, bank.ts).  The    *)
(* theorems before say the same of any bank, any draw and any stream that  *)
(* lasts.                                                                  *)
THEOREM PapersAreDrawnFairly == Spec => []PapersAreFair
<1>1. PapersAreFair
  BY TheBankIsFair DEF PapersAreFair
<1> QED BY <1>1, PTL

=============================================================================
