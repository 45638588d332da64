------------------------ MODULE SecretSharingProofs ------------------------
(***************************************************************************)
(* Shamir's scheme is exact, for a field of any width with a generator:    *)
(* as many shares as the threshold, in any order, give back the byte, and  *)
(* fewer fit every byte.  From the digits up: the exclusive or, the tables *)
(* of powers, the field they make, the values of polynomials over it.      *)
(***************************************************************************)
EXTENDS SecretSharing, SequenceTheorems, NaturalsInduction, WellFoundedInduction, TLAPS

-----------------------------------------------------------------------------
(* Numbers and loops.                                                      *)

\* Some number of a set is the least.
LEMMA LeastNatural ==
  ASSUME NEW T, T \subseteq Nat, T # {}
  PROVE  \E m \in T : \A k \in T : m <= k
<1> DEFINE R == OpToRel(<, Nat)
<1>1. R = {ss \in Nat \X Nat : ss[1] < ss[2]}
  BY DEF OpToRel
<1>2. IsWellFoundedOn(R, Nat)
  BY NatLessThanWellFounded
<1> HIDE DEF R
<1>3. PICK x \in T : \A y \in T : ~(<<y, x>> \in R)
  BY <1>2, WFMin, Zenon
<1>4. \A y \in T : ~(y < x)
  BY <1>1, <1>3
<1> QED BY <1>4

\* A set that holds each number when it holds the smaller ones holds all.
LEMMA CompleteInduction ==
  ASSUME NEW S, \A m \in Nat : (\A j \in Nat : j < m => j \in S) => m \in S
  PROVE  \A m \in Nat : m \in S
<1> SUFFICES ASSUME Nat \ S # {} PROVE FALSE
  OBVIOUS
<1>1. PICK m \in Nat \ S : \A k \in Nat \ S : m <= k
  BY LeastNatural
<1>2. \A j \in Nat : j < m => j \in S
  BY <1>1
<1> QED BY <1>1, <1>2

\* The same, one number at a time.
LEMMA Induction ==
  ASSUME NEW S, 0 \in S, \A m \in Nat : m \in S => m + 1 \in S
  PROVE  \A m \in Nat : m \in S
<1>1. \A m \in Nat : (\A j \in Nat : j < m => j \in S) => m \in S
  <2> TAKE m \in Nat
  <2> HAVE \A j \in Nat : j < m => j \in S
  <2>1. CASE m = 0
    BY <2>1
  <2>2. CASE m > 0
    <3>1. m - 1 \in Nat /\ m - 1 \in S /\ (m - 1) + 1 = m
      BY <2>2
    <3> QED BY <3>1
  <2> QED BY <2>1, <2>2
<1> QED BY <1>1, CompleteInduction

\* A loop of n rounds, each of which makes a new value of the one before.
Rounds(f, first, step, n) ==
  f = [k \in 0..n |-> IF k = 0 THEN first ELSE step[k][f[k - 1]]]

LEMMA LoopIsDefined ==
  ASSUME NEW S, NEW first \in S, NEW step \in [Nat -> [S -> S]], NEW n \in Nat
  PROVE  \E f \in [0..n -> S] : Rounds(f, first, step, n)
<1> DEFINE G == {m \in Nat : \E f \in [0..m -> S] : Rounds(f, first, step, m)}
<1>1. 0 \in G
  <2>1. PICK f : f = [k \in 0..0 |-> first]
    OBVIOUS
  <2>2. f \in [0..0 -> S] /\ Rounds(f, first, step, 0)
    BY <2>1 DEF Rounds
  <2> QED BY <2>2
<1>2. ASSUME NEW m \in Nat, m \in G PROVE m + 1 \in G
  <2>1. PICK f \in [0..m -> S] : Rounds(f, first, step, m)
    BY <1>2
  <2>2. PICK g : g = [k \in 0..(m + 1) |-> IF k = m + 1 THEN step[m + 1][f[m]] ELSE f[k]]
    OBVIOUS
  <2>3. step[m + 1] \in [S -> S] /\ f[m] \in S
    OBVIOUS
  <2>4. g \in [0..(m + 1) -> S]
    BY <2>2, <2>3
  <2>5. \A k \in 0..(m + 1) : g[k] = IF k = 0 THEN first ELSE step[k][g[k - 1]]
    <3> TAKE k \in 0..(m + 1)
    <3>1. CASE k = m + 1
      BY <2>2, <3>1
    <3>2. CASE k # m + 1
      <4>1. k \in 0..m /\ g[k] = f[k] /\ (k # 0 => g[k - 1] = f[k - 1])
        BY <2>2, <3>2
      <4>2. f[k] = IF k = 0 THEN first ELSE step[k][f[k - 1]]
        BY <2>1, <4>1 DEF Rounds
      <4> QED BY <4>1, <4>2
    <3> QED BY <3>1, <3>2
  <2>6. Rounds(g, first, step, m + 1)
    BY <2>4, <2>5 DEF Rounds
  <2> QED BY <2>4, <2>6
<1>3. \A m \in Nat : m \in G
  <2> HIDE DEF G
  <2> QED BY <1>1, <1>2, Induction
<1> QED BY <1>3

LEMMA LoopsAgree ==
  ASSUME NEW S, NEW first \in S, NEW step \in [Nat -> [S -> S]],
         NEW n \in Nat, NEW m \in 0..n, NEW f, NEW g,
         Rounds(f, first, step, n), Rounds(g, first, step, m)
  PROVE  \A k \in 0..m : f[k] = g[k]
<1> DEFINE G == {k \in Nat : k <= m => f[k] = g[k]}
<1>1. 0 \in G
  BY DEF Rounds
<1>2. ASSUME NEW k \in Nat, k \in G PROVE k + 1 \in G
  <2> SUFFICES ASSUME k + 1 <= m PROVE f[k + 1] = g[k + 1]
    OBVIOUS
  <2>1. f[k] = g[k] /\ k + 1 \in 0..m /\ k + 1 \in 0..n /\ k + 1 # 0 /\ (k + 1) - 1 = k
    BY <1>2
  <2>2. f[k + 1] = step[k + 1][f[k]] /\ g[k + 1] = step[k + 1][g[k]]
    BY <2>1 DEF Rounds
  <2> QED BY <2>1, <2>2
<1>3. \A k \in Nat : k \in G
  <2> HIDE DEF G
  <2> QED BY <1>1, <1>2, Induction
<1> QED BY <1>3

\* A loop that never ends.
Endless(f, first, step) ==
  f[0] = first /\ \A k \in Nat : f[k + 1] = step[k + 1][f[k]]

LEMMA EndlessLoopIsDefined ==
  ASSUME NEW S, NEW first \in S, NEW step \in [Nat -> [S -> S]]
  PROVE  \E f \in [Nat -> S] : Endless(f, first, step)
<1> DEFINE after(n) == CHOOSE f \in [0..n -> S] : Rounds(f, first, step, n)
<1>1. \A n \in Nat : after(n) \in [0..n -> S] /\ Rounds(after(n), first, step, n)
  BY LoopIsDefined
<1>2. \A n \in Nat : \A k \in 0..n : after(n)[k] = after(k)[k]
  <2> HIDE DEF after
  <2> TAKE n \in Nat
  <2> TAKE k \in 0..n
  <2>1. Rounds(after(n), first, step, n) /\ Rounds(after(k), first, step, k)
    BY <1>1
  <2>2. k \in 0..k
    OBVIOUS
  <2> QED BY <2>1, <2>2, LoopsAgree
<1> HIDE DEF after
<1>3. PICK f : f = [n \in Nat |-> after(n)[n]]
  OBVIOUS
<1>4. f \in [Nat -> S]
  BY <1>1, <1>3
<1>5. f[0] = first
  BY <1>1, <1>3 DEF Rounds
<1>6. ASSUME NEW k \in Nat PROVE f[k + 1] = step[k + 1][f[k]]
  <2>1. after(k + 1)[k + 1] = step[k + 1][after(k + 1)[k]]
    BY <1>1 DEF Rounds
  <2>2. after(k + 1)[k] = after(k)[k]
    BY <1>2
  <2> QED BY <1>3, <2>1, <2>2
<1> QED BY <1>4, <1>5, <1>6 DEF Endless

-----------------------------------------------------------------------------
(* The exclusive or.                                                       *)

Row(f, a) ==
  [b \in Nat |-> IF a = 0 THEN b ELSE ((a + b) % 2) + 2 * f[a \div 2][b \div 2]]

LEMMA RowsAgree ==
  ASSUME NEW a \in Nat, NEW f, NEW g, a > 0 => f[a \div 2] = g[a \div 2]
  PROVE  Row(f, a) = Row(g, a)
<1>1. CASE a = 0
  <2>1. Row(f, a) = [b \in Nat |-> b] /\ Row(g, a) = [b \in Nat |-> b]
    BY <1>1 DEF Row
  <2> QED BY <2>1
<1>2. CASE a > 0
  <2>1. PICK row : row = f[a \div 2] /\ row = g[a \div 2]
    BY <1>2
  <2>2. a # 0
    BY <1>2
  <2>3. /\ Row(f, a) = [b \in Nat |-> ((a + b) % 2) + 2 * row[b \div 2]]
        /\ Row(g, a) = [b \in Nat |-> ((a + b) % 2) + 2 * row[b \div 2]]
    BY <2>1, <2>2, Zenon DEF Row
  <2> QED BY <2>3
<1> QED BY <1>1, <1>2

LEMMA Halves ==
  \A a \in Nat : /\ a \div 2 \in Nat /\ a % 2 \in {0, 1}
                 /\ a = 2 * (a \div 2) + (a % 2)
                 /\ a > 0 => a \div 2 < a
OBVIOUS

LEMMA RowIsTyped ==
  ASSUME NEW a \in Nat, NEW f, a > 0 => f[a \div 2] \in [Nat -> Nat]
  PROVE  Row(f, a) \in [Nat -> Nat]
<1> SUFFICES ASSUME NEW b \in Nat, a # 0
             PROVE  ((a + b) % 2) + 2 * f[a \div 2][b \div 2] \in Nat
  BY DEF Row
<1>1. a \div 2 \in Nat /\ b \div 2 \in Nat /\ (a + b) % 2 \in {0, 1}
  BY Halves
<1>2. f[a \div 2][b \div 2] \in Nat
  BY <1>1
<1> QED BY <1>1, <1>2

LEMMA XorIsDefined ==
  /\ XorWith \in [Nat -> [Nat -> Nat]]
  /\ \A a \in Nat : XorWith[a] = Row(XorWith, a)
<1> DEFINE S == [Nat -> [Nat -> Nat]]
           first == [a \in Nat |-> [b \in Nat |-> b]]
           step == [n \in Nat |-> [f \in S |-> [a \in Nat |-> Row(f, a)]]]
<1>1. first \in S
  OBVIOUS
<1>2. step \in [Nat -> [S -> S]]
  <2>1. ASSUME NEW f \in S PROVE [a \in Nat |-> Row(f, a)] \in S
    <3>1. ASSUME NEW a \in Nat PROVE Row(f, a) \in [Nat -> Nat]
      <4>1. a > 0 => f[a \div 2] \in [Nat -> Nat]
        BY Halves
      <4> QED BY <4>1, RowIsTyped
    <3> QED BY <3>1
  <2> HIDE DEF S
  <2> QED BY <2>1
<1>3. PICK G \in [Nat -> S] : G[0] = first /\ \A k \in Nat : G[k + 1] = step[k + 1][G[k]]
  <2> HIDE DEF S, first, step
  <2> QED BY <1>1, <1>2, EndlessLoopIsDefined DEF Endless
<1>4. /\ \A n \in Nat : \A a \in Nat : G[n + 1][a] = Row(G[n], a)
      /\ G[0][0] = [b \in Nat |-> b]
  <2>1. \A n \in Nat : G[n] \in S /\ G[n + 1] = [a \in Nat |-> Row(G[n], a)]
    <3> HIDE DEF S, first, step
    <3> TAKE n \in Nat
    <3>1. n + 1 \in Nat /\ G[n] \in S /\ G[n + 1] = step[n + 1][G[n]]
      BY <1>3
    <3>2. step[n + 1] = [f \in S |-> [a \in Nat |-> Row(f, a)]]
      BY <3>1 DEF step
    <3> QED BY <3>1, <3>2
  <2>2. G[0][0] = [b \in Nat |-> b]
    <3> HIDE DEF step
    <3>1. G[0] = [a \in Nat |-> [b \in Nat |-> b]]
      BY <1>3
    <3> QED BY <3>1
  <2>3. \A n, a \in Nat : G[n][a] \in [Nat -> Nat]
    <3> HIDE DEF step
    <3> QED BY <2>1
  <2>4. \A n \in Nat : \A a \in Nat : G[n + 1][a] = Row(G[n], a)
    <3> HIDE DEF S, step
    <3> QED BY <2>1
  <2> QED BY <2>2, <2>3, <2>4
<1> HIDE DEF S, first, step
<1>5. \A n \in Nat : \A a \in 0..n : G[n][a] = Row(G[n], a)
  <2> DEFINE C == {n \in Nat : \A a \in 0..n : G[n][a] = Row(G[n], a)}
  <2>1. 0 \in C
    <3>1. G[0][0] = [b \in Nat |-> b]
      BY <1>4
    <3>2. Row(G[0], 0) = [b \in Nat |-> b]
      BY DEF Row
    <3> QED BY <3>1, <3>2
  <2>2. ASSUME NEW n \in Nat, n \in C PROVE n + 1 \in C
    <3> SUFFICES ASSUME NEW a \in 0..(n + 1) PROVE G[n + 1][a] = Row(G[n + 1], a)
      OBVIOUS
    <3>1. G[n + 1][a] = Row(G[n], a)
      BY <1>4
    <3>2. ASSUME a > 0 PROVE G[n][a \div 2] = G[n + 1][a \div 2]
      <4>1. a \div 2 \in 0..n
        BY <3>2
      <4>2. G[n][a \div 2] = Row(G[n], a \div 2)
        BY <2>2, <4>1
      <4>3. G[n + 1][a \div 2] = Row(G[n], a \div 2)
        BY <1>4, <4>1
      <4> QED BY <4>2, <4>3
    <3>3. Row(G[n], a) = Row(G[n + 1], a)
      BY <3>2, RowsAgree
    <3> QED BY <3>1, <3>3
  <2>3. \A n \in Nat : n \in C
    <3> HIDE DEF C
    <3> QED BY <2>1, <2>2, Induction
  <2> QED BY <2>3
<1>6. \A n \in Nat : \A a \in 0..n : G[n + 1][a] = G[n][a]
  <2> TAKE n \in Nat
  <2> TAKE a \in 0..n
  <2>1. a \in Nat /\ G[n + 1][a] = Row(G[n], a)
    BY <1>4
  <2>2. G[n][a] = Row(G[n], a)
    BY <1>5
  <2> QED BY <2>1, <2>2
<1>7. \A d \in Nat : \A a \in Nat : G[a + d][a] = G[a][a]
  <2> DEFINE D == {d \in Nat : \A a \in Nat : G[a + d][a] = G[a][a]}
  <2>1. 0 \in D
    OBVIOUS
  <2>2. ASSUME NEW d \in Nat, d \in D PROVE d + 1 \in D
    <3> SUFFICES ASSUME NEW a \in Nat PROVE G[a + (d + 1)][a] = G[a][a]
      OBVIOUS
    <3>1. a + d \in Nat /\ a \in 0..(a + d) /\ a + (d + 1) = (a + d) + 1
      OBVIOUS
    <3>2. G[(a + d) + 1][a] = G[a + d][a]
      BY <1>6, <3>1
    <3>3. G[a + d][a] = G[a][a]
      BY <2>2
    <3> QED BY <3>1, <3>2, <3>3
  <2>3. \A d \in Nat : d \in D
    <3> HIDE DEF D
    <3> QED BY <2>1, <2>2, Induction
  <2> QED BY <2>3
<1>8. PICK f : f = [a \in Nat |-> G[a][a]]
  OBVIOUS
<1>9. ASSUME NEW a \in Nat PROVE f[a] = Row(f, a)
  <2>1. f[a] = Row(G[a], a)
    BY <1>5, <1>8
  <2>2. ASSUME a > 0 PROVE G[a][a \div 2] = f[a \div 2]
    <3>1. PICK h \in Nat : h = a \div 2 /\ h < a
      BY <2>2, Halves
    <3>2. PICK d \in Nat : d = a - h /\ h + d = a
      BY <3>1
    <3>3. G[h + d][h] = G[h][h]
      BY <1>7
    <3> QED BY <1>8, <3>1, <3>2, <3>3
  <2>3. Row(G[a], a) = Row(f, a)
    BY <2>2, RowsAgree
  <2> QED BY <2>1, <2>3
<1>10. f = [a \in Nat |-> Row(f, a)]
  BY <1>8, <1>9
<1>11. \E g : g = [a \in Nat |-> Row(g, a)]
  BY <1>10
<1>12. XorWith = [a \in Nat |-> Row(XorWith, a)]
  BY <1>11, Zenon DEF XorWith, Row
<1>13. DOMAIN XorWith = Nat /\ \A a \in Nat : XorWith[a] = Row(XorWith, a)
  BY <1>12
<1>14. \A a \in Nat : XorWith[a] \in [Nat -> Nat]
  <2> DEFINE T == {a \in Nat : XorWith[a] \in [Nat -> Nat]}
  <2>1. ASSUME NEW a \in Nat, \A k \in Nat : k < a => k \in T PROVE a \in T
    <3>1. a > 0 => XorWith[a \div 2] \in [Nat -> Nat]
      BY <2>1, Halves
    <3>2. Row(XorWith, a) \in [Nat -> Nat]
      BY <3>1, RowIsTyped
    <3> QED BY <1>13, <3>2
  <2>2. \A a \in Nat : a \in T
    <3> HIDE DEF T
    <3> QED BY <2>1, CompleteInduction
  <2> QED BY <2>2
<1>15. XorWith = [a \in Nat |-> XorWith[a]]
  BY <1>12
<1>16. XorWith \in [Nat -> [Nat -> Nat]]
  BY <1>14, <1>15
<1> QED BY <1>13, <1>16

LEMMA XorUnfolds ==
  ASSUME NEW a \in Nat, NEW b \in Nat
  PROVE  /\ Xor(a, b) \in Nat
         /\ a = 0 => Xor(a, b) = b
         /\ a # 0 => Xor(a, b) = ((a + b) % 2) + 2 * Xor(a \div 2, b \div 2)
<1>1. XorWith[a] \in [Nat -> Nat]
  BY XorIsDefined
<1>2. XorWith[a][b] = IF a = 0 THEN b ELSE ((a + b) % 2) + 2 * XorWith[a \div 2][b \div 2]
  BY XorIsDefined DEF Row
<1> QED BY <1>1, <1>2 DEF Xor

\* Digit by digit, the last one first.
Bit == {0, 1}

BitXor(i, j) == IF i = j THEN 0 ELSE 1

Number(a, i) == 2 * a + i

LEMMA Numbers ==
  ASSUME NEW a \in Nat, NEW i \in Bit
  PROVE  /\ Number(a, i) \in Nat
         /\ Number(a, i) \div 2 = a
         /\ Number(a, i) % 2 = i
         /\ Number(a, i) = 0 <=> a = 0 /\ i = 0
BY DEF Number, Bit

LEMMA BitXors ==
  \A i, j, k \in Bit :
    /\ BitXor(i, j) \in Bit
    /\ BitXor(i, j) = BitXor(j, i)
    /\ BitXor(0, i) = i /\ BitXor(i, 0) = i /\ BitXor(i, i) = 0
    /\ BitXor(BitXor(i, j), k) = BitXor(i, BitXor(j, k))
BY DEF Bit, BitXor

LEMMA XorOfDigits ==
  ASSUME NEW a \in Nat, NEW b \in Nat, NEW i \in Bit, NEW j \in Bit
  PROVE  Xor(Number(a, i), Number(b, j)) = Number(Xor(a, b), BitXor(i, j))
<1>1. PICK c \in Nat : c = Number(a, i)
  BY Numbers
<1>2. PICK d \in Nat : d = Number(b, j)
  BY Numbers
<1>3. (c + d) % 2 = BitXor(i, j)
  BY <1>1, <1>2 DEF Number, Bit, BitXor
<1>4. c \div 2 = a /\ d \div 2 = b
  BY <1>1, <1>2, Numbers
<1>5. Xor(a, b) \in Nat
  BY XorUnfolds
<1>6. CASE c = 0
  <2>1. a = 0 /\ i = 0
    BY <1>1, <1>6, Numbers
  <2>2. Xor(c, d) = d /\ Xor(a, b) = b /\ BitXor(i, j) = j
    BY <1>6, <2>1, XorUnfolds, BitXors
  <2> QED BY <1>1, <1>2, <2>2
<1>7. CASE c # 0
  <2>1. Xor(c, d) = ((c + d) % 2) + 2 * Xor(c \div 2, d \div 2)
    BY <1>7, XorUnfolds
  <2>2. Xor(c, d) = BitXor(i, j) + 2 * Xor(a, b)
    BY <1>3, <1>4, <2>1
  <2>3. Xor(c, d) = Number(Xor(a, b), BitXor(i, j))
    BY <1>5, <2>2 DEF Number, Bit, BitXor
  <2> QED BY <1>1, <1>2, <2>3
<1> QED BY <1>6, <1>7

\* Every number is its half and its last digit.
LEMMA Digits ==
  ASSUME NEW a \in Nat
  PROVE  \E h \in Nat, i \in Bit : a = Number(h, i) /\ (a # 0 => h < a)
<1>1. a \div 2 \in Nat /\ a % 2 \in Bit /\ a = Number(a \div 2, a % 2)
  BY Halves DEF Bit, Number
<1>2. a # 0 => a \div 2 < a
  BY Halves
<1> QED BY <1>1, <1>2

LEMMA XorIsTyped ==
  ASSUME NEW a \in Nat, NEW b \in Nat
  PROVE  Xor(a, b) \in Nat
BY XorUnfolds

LEMMA XorOfZero ==
  ASSUME NEW a \in Nat
  PROVE  Xor(0, a) = a /\ Xor(a, 0) = a
<1> DEFINE G == {n \in Nat : Xor(n, 0) = n}
<1>1. ASSUME NEW n \in Nat, \A k \in Nat : k < n => k \in G PROVE n \in G
  <2>1. CASE n = 0
    BY <2>1, XorUnfolds
  <2>2. CASE n # 0
    <3>1. PICK h \in Nat, i \in Bit : n = Number(h, i) /\ h < n
      BY <2>2, Digits
    <3>2. Xor(h, 0) = h
      BY <1>1, <3>1
    <3>3. 0 \in Bit /\ Number(0, 0) = 0 /\ BitXor(i, 0) = i
      BY BitXors DEF Bit, Number
    <3>4. Xor(Number(h, i), Number(0, 0)) = Number(Xor(h, 0), BitXor(i, 0))
      BY <3>3, XorOfDigits
    <3> QED BY <3>1, <3>2, <3>3, <3>4
  <2> QED BY <2>1, <2>2
<1>2. \A n \in Nat : n \in G
  <2> HIDE DEF G
  <2> QED BY <1>1, CompleteInduction
<1> QED BY <1>2, XorUnfolds

LEMMA XorOfItself ==
  ASSUME NEW a \in Nat
  PROVE  Xor(a, a) = 0
<1> DEFINE G == {n \in Nat : Xor(n, n) = 0}
<1>1. ASSUME NEW n \in Nat, \A k \in Nat : k < n => k \in G PROVE n \in G
  <2>1. CASE n = 0
    BY <2>1, XorUnfolds
  <2>2. CASE n # 0
    <3>1. PICK h \in Nat, i \in Bit : n = Number(h, i) /\ h < n
      BY <2>2, Digits
    <3>2. Xor(h, h) = 0 /\ BitXor(i, i) = 0 /\ Number(0, 0) = 0
      BY <1>1, <3>1, BitXors DEF Number
    <3>3. Xor(Number(h, i), Number(h, i)) = Number(Xor(h, h), BitXor(i, i))
      BY XorOfDigits
    <3> QED BY <3>1, <3>2, <3>3
  <2> QED BY <2>1, <2>2
<1>2. \A n \in Nat : n \in G
  <2> HIDE DEF G
  <2> QED BY <1>1, CompleteInduction
<1> QED BY <1>2

LEMMA XorCommutes ==
  ASSUME NEW a \in Nat, NEW b \in Nat
  PROVE  Xor(a, b) = Xor(b, a)
<1> DEFINE G == {n \in Nat : \A m \in Nat : Xor(n, m) = Xor(m, n)}
<1>1. ASSUME NEW n \in Nat, \A k \in Nat : k < n => k \in G PROVE n \in G
  <2> SUFFICES ASSUME NEW m \in Nat PROVE Xor(n, m) = Xor(m, n)
    OBVIOUS
  <2>1. CASE n = 0
    BY <2>1, XorOfZero
  <2>2. CASE n # 0
    <3>1. PICK h \in Nat, i \in Bit : n = Number(h, i) /\ h < n
      BY <2>2, Digits
    <3>2. PICK k \in Nat, j \in Bit : m = Number(k, j)
      BY Digits
    <3>3. Xor(h, k) = Xor(k, h) /\ BitXor(i, j) = BitXor(j, i)
      BY <1>1, <3>1, BitXors
    <3>4. /\ Xor(n, m) = Number(Xor(h, k), BitXor(i, j))
          /\ Xor(m, n) = Number(Xor(k, h), BitXor(j, i))
      BY <3>1, <3>2, XorOfDigits
    <3> QED BY <3>3, <3>4
  <2> QED BY <2>1, <2>2
<1>2. \A n \in Nat : n \in G
  <2> HIDE DEF G
  <2> QED BY <1>1, CompleteInduction
<1> QED BY <1>2

LEMMA XorAssociates ==
  ASSUME NEW a \in Nat, NEW b \in Nat, NEW c \in Nat
  PROVE  Xor(Xor(a, b), c) = Xor(a, Xor(b, c))
<1> DEFINE G == {n \in Nat : \A m, o \in Nat : Xor(Xor(n, m), o) = Xor(n, Xor(m, o))}
<1>1. ASSUME NEW n \in Nat, \A k \in Nat : k < n => k \in G PROVE n \in G
  <2> SUFFICES ASSUME NEW m \in Nat, NEW o \in Nat
               PROVE  Xor(Xor(n, m), o) = Xor(n, Xor(m, o))
    OBVIOUS
  <2>1. CASE n = 0
    <3>1. Xor(n, m) = m /\ Xor(m, o) \in Nat
      BY <2>1, XorOfZero, XorIsTyped
    <3>2. Xor(n, Xor(m, o)) = Xor(m, o)
      BY <2>1, <3>1, XorOfZero
    <3> QED BY <3>1, <3>2
  <2>2. CASE n # 0
    <3>1. PICK h \in Nat, i \in Bit : n = Number(h, i) /\ h < n
      BY <2>2, Digits
    <3>2. PICK k \in Nat, j \in Bit : m = Number(k, j)
      BY Digits
    <3>3. PICK l \in Nat, p \in Bit : o = Number(l, p)
      BY Digits
    <3>4. Xor(Xor(h, k), l) = Xor(h, Xor(k, l))
      BY <1>1, <3>1
    <3>5. PICK u \in Bit : u = BitXor(i, j)
      BY BitXors
    <3>6. PICK v \in Bit : v = BitXor(j, p)
      BY BitXors
    <3>7. PICK r \in Nat : r = Xor(h, k)
      BY XorIsTyped
    <3>8. PICK s \in Nat : s = Xor(k, l)
      BY XorIsTyped
    <3>9. Xor(n, m) = Number(r, u)
      BY <3>1, <3>2, <3>5, <3>7, XorOfDigits
    <3>10. Xor(m, o) = Number(s, v)
      BY <3>2, <3>3, <3>6, <3>8, XorOfDigits
    <3>11. Xor(Number(r, u), o) = Number(Xor(r, l), BitXor(u, p))
      BY <3>3, XorOfDigits
    <3>12. Xor(n, Number(s, v)) = Number(Xor(h, s), BitXor(i, v))
      BY <3>1, XorOfDigits
    <3>13. BitXor(u, p) = BitXor(i, v)
      BY <3>5, <3>6, BitXors
    <3>14. Xor(r, l) = Xor(h, s)
      BY <3>4, <3>7, <3>8
    <3> QED BY <3>9, <3>10, <3>11, <3>12, <3>13, <3>14
  <2> QED BY <2>1, <2>2
<1>2. \A n \in Nat : n \in G
  <2> HIDE DEF G
  <2> QED BY <1>1, CompleteInduction
<1> QED BY <1>2

LEMMA XorSwaps ==
  ASSUME NEW a \in Nat, NEW b \in Nat, NEW c \in Nat, NEW d \in Nat
  PROVE  Xor(Xor(a, b), Xor(c, d)) = Xor(Xor(a, c), Xor(b, d))
<1>1. PICK bd \in Nat : bd = Xor(b, d)
  BY XorIsTyped
<1>2. PICK cd \in Nat : cd = Xor(c, d)
  BY XorIsTyped
<1>3. Xor(b, cd) = Xor(c, bd)
  <2>1. Xor(b, Xor(c, d)) = Xor(Xor(b, c), d) /\ Xor(c, Xor(b, d)) = Xor(Xor(c, b), d)
    BY XorAssociates
  <2>2. Xor(b, c) = Xor(c, b)
    BY XorCommutes
  <2> QED BY <1>1, <1>2, <2>1, <2>2
<1>4. Xor(Xor(a, b), cd) = Xor(a, Xor(b, cd)) /\ Xor(Xor(a, c), bd) = Xor(a, Xor(c, bd))
  BY XorAssociates
<1> QED BY <1>1, <1>2, <1>3, <1>4

LEMMA PowersOfTwo ==
  TwoTo[0] = 1 /\ \A n \in Nat : TwoTo[n] \in Nat \ {0} /\ TwoTo[n + 1] = 2 * TwoTo[n]
<1> DEFINE IsPower(f) == f = [n \in Nat |-> IF n = 0 THEN 1 ELSE 2 * f[n - 1]]
           step == [n \in Nat |-> [v \in Nat |-> 2 * v]]
<1>1. step \in [Nat -> [Nat -> Nat]]
  OBVIOUS
<1>2. PICK f \in [Nat -> Nat] : f[0] = 1 /\ \A k \in Nat : f[k + 1] = step[k + 1][f[k]]
  <2> HIDE DEF step
  <2>1. PICK one \in Nat : one = 1
    OBVIOUS
  <2>2. PICK f \in [Nat -> Nat] : Endless(f, one, step)
    BY <1>1, EndlessLoopIsDefined, Zenon
  <2> QED BY <2>1, <2>2 DEF Endless
<1>3. \A n \in Nat : f[n] = IF n = 0 THEN 1 ELSE 2 * f[n - 1]
  <2> TAKE n \in Nat
  <2>1. CASE n # 0
    <3>1. PICK k \in Nat : k = n - 1 /\ k + 1 = n
      BY <2>1
    <3>2. f[k + 1] = step[k + 1][f[k]] /\ f[k] \in Nat
      <4> HIDE DEF step
      <4> QED BY <1>2
    <3> QED BY <2>1, <3>1, <3>2
  <2> QED BY <1>2, <2>1
<1>4. IsPower(f)
  <2>1. f = [n \in Nat |-> f[n]]
    OBVIOUS
  <2> QED BY <1>3, <2>1
<1>5. IsPower(TwoTo)
  BY <1>4, Zenon DEF TwoTo
<1>6. TwoTo[0] = 1 /\ \A n \in Nat : TwoTo[n + 1] = 2 * TwoTo[n]
  BY <1>5
<1> HIDE DEF IsPower
<1> DEFINE G == {n \in Nat : TwoTo[n] \in Nat \ {0}}
<1>7. 0 \in G
  BY <1>6
<1>8. ASSUME NEW n \in Nat, n \in G PROVE n + 1 \in G
  BY <1>6, <1>8
<1>9. \A n \in Nat : n \in G
  <2> HIDE DEF G
  <2> QED BY <1>7, <1>8, Induction
<1> QED BY <1>6, <1>9

\* What can be said of the numbers below p, of which p is a power of 2, and of
\* those p higher.
Bounded(p) == \A a, b \in 0..(p - 1) : Xor(a, b) \in 0..(p - 1)

Tops(p) == \A a, b \in 0..(p - 1) :
             Xor(p + a, b) = p + Xor(a, b) /\ Xor(p + a, p + b) = Xor(a, b)

LEMMA XorIsBounded == \A n \in Nat : Bounded(TwoTo[n])
<1> DEFINE G == {n \in Nat : Bounded(TwoTo[n])}
<1>1. 0 \in G
  <2>1. TwoTo[0] = 1
    BY PowersOfTwo
  <2>2. Xor(0, 0) = 0
    BY XorOfZero
  <2> QED BY <2>1, <2>2 DEF Bounded
<1>2. ASSUME NEW n \in Nat, n \in G PROVE n + 1 \in G
  <2>1. PICK p \in Nat \ {0} : p = TwoTo[n] /\ 2 * p = TwoTo[n + 1]
    BY PowersOfTwo
  <2>2. ASSUME NEW a \in 0..(2 * p - 1), NEW b \in 0..(2 * p - 1)
        PROVE  Xor(a, b) \in 0..(2 * p - 1)
    <3>1. PICK h \in Nat, i \in Bit : a = Number(h, i)
      BY Digits
    <3>2. PICK k \in Nat, j \in Bit : b = Number(k, j)
      BY Digits
    <3>3. h \in 0..(p - 1) /\ k \in 0..(p - 1)
      BY <3>1, <3>2 DEF Number, Bit
    <3>4. Xor(h, k) \in 0..(p - 1) /\ BitXor(i, j) \in Bit
      BY <1>2, <2>1, <3>3, BitXors DEF Bounded
    <3>5. Number(Xor(h, k), BitXor(i, j)) \in 0..(2 * p - 1)
      BY <3>4 DEF Number, Bit
    <3> QED BY <3>1, <3>2, <3>5, XorOfDigits
  <2>3. Bounded(2 * p)
    BY <2>2 DEF Bounded
  <2> QED BY <2>1, <2>3
<1>3. \A n \in Nat : n \in G
  <2> HIDE DEF G
  <2> QED BY <1>1, <1>2, Induction
<1> QED BY <1>3

LEMMA XorOfTops == \A n \in Nat : Tops(TwoTo[n])
<1> DEFINE G == {n \in Nat : Tops(TwoTo[n])}
<1>1. 0 \in G
  <2>1. TwoTo[0] = 1
    BY PowersOfTwo
  <2>2. Xor(0, 0) = 0 /\ Xor(1, 0) = 1 /\ Xor(1, 1) = 0
    BY XorOfZero, XorOfItself
  <2> QED BY <2>1, <2>2 DEF Tops
<1>2. ASSUME NEW n \in Nat, n \in G PROVE n + 1 \in G
  <2>1. PICK p \in Nat \ {0} : p = TwoTo[n] /\ 2 * p = TwoTo[n + 1]
    BY PowersOfTwo
  <2>2. ASSUME NEW a \in 0..(2 * p - 1), NEW b \in 0..(2 * p - 1)
        PROVE  /\ Xor(2 * p + a, b) = 2 * p + Xor(a, b)
               /\ Xor(2 * p + a, 2 * p + b) = Xor(a, b)
    <3>1. PICK h \in Nat, i \in Bit : a = Number(h, i)
      BY Digits
    <3>2. PICK k \in Nat, j \in Bit : b = Number(k, j)
      BY Digits
    <3>3. h \in 0..(p - 1) /\ k \in 0..(p - 1)
      BY <3>1, <3>2 DEF Number, Bit
    <3>4. Xor(p + h, k) = p + Xor(h, k) /\ Xor(p + h, p + k) = Xor(h, k)
      BY <1>2, <2>1, <3>3 DEF Tops
    <3>5. 2 * p + a = Number(p + h, i) /\ 2 * p + b = Number(p + k, j)
      BY <3>1, <3>2 DEF Number, Bit
    <3>6. p + h \in Nat /\ p + k \in Nat /\ Xor(h, k) \in Nat /\ BitXor(i, j) \in Bit
      BY XorIsTyped, BitXors
    <3>7. /\ Xor(a, b) = Number(Xor(h, k), BitXor(i, j))
          /\ Xor(2 * p + a, b) = Number(p + Xor(h, k), BitXor(i, j))
          /\ Xor(2 * p + a, 2 * p + b) = Number(Xor(h, k), BitXor(i, j))
      <4>1. Xor(Number(h, i), Number(k, j)) = Number(Xor(h, k), BitXor(i, j))
        BY XorOfDigits
      <4>2. Xor(Number(p + h, i), Number(k, j)) = Number(Xor(p + h, k), BitXor(i, j))
        BY <3>6, XorOfDigits
      <4>3. Xor(Number(p + h, i), Number(p + k, j)) = Number(Xor(p + h, p + k), BitXor(i, j))
        BY <3>6, XorOfDigits
      <4> QED BY <3>1, <3>2, <3>4, <3>5, <4>1, <4>2, <4>3
    <3>8. Number(p + Xor(h, k), BitXor(i, j)) = 2 * p + Number(Xor(h, k), BitXor(i, j))
      BY <3>6 DEF Number, Bit
    <3> QED BY <3>7, <3>8
  <2>3. Tops(2 * p)
    BY <2>2 DEF Tops
  <2> QED BY <2>1, <2>3
<1>3. \A n \in Nat : n \in G
  <2> HIDE DEF G
  <2> QED BY <1>1, <1>2, Induction
<1> QED BY <1>3

-----------------------------------------------------------------------------
(* The field: addition, and multiplication by the generator.               *)

\* The numbers below the top bit and those with it.
LEMMA FieldHalves ==
  \E p \in Nat \ {0} :
    /\ p = TwoTo[Width - 1] /\ 2 * p = TwoTo[Width] /\ 2 * (2 * p) = TwoTo[Width + 1]
    /\ Field = 0..(2 * p - 1) /\ Order = 2 * p - 1
    /\ Modulus \in (2 * p)..(4 * p - 1)
    /\ Bounded(p) /\ Bounded(2 * p) /\ Bounded(4 * p) /\ Tops(p) /\ Tops(2 * p)
<1>1. Width - 1 \in Nat /\ (Width - 1) + 1 = Width /\ Width \in Nat /\ Width + 1 \in Nat
  BY FieldAssumption
<1>2. PICK p \in Nat \ {0} : p = TwoTo[Width - 1]
  BY <1>1, PowersOfTwo
<1>3. 2 * p = TwoTo[Width] /\ 2 * (2 * p) = TwoTo[Width + 1]
  BY <1>1, <1>2, PowersOfTwo
<1>4. Bounded(p) /\ Bounded(2 * p) /\ Bounded(2 * (2 * p)) /\ Tops(p) /\ Tops(2 * p)
  BY <1>1, <1>2, <1>3, XorIsBounded, XorOfTops
<1>5. 2 * (2 * p) = 4 * p
  OBVIOUS
<1>6. Field = 0..(2 * p - 1) /\ Order = 2 * p - 1 /\ Modulus \in (2 * p)..(4 * p - 1)
  BY <1>3, <1>5, FieldAssumption DEF Field, Order
<1> QED BY <1>2, <1>3, <1>4, <1>5, <1>6

LEMMA FieldIsNat == Field \subseteq Nat /\ Order \in Nat \ {0} /\ Field = 0..Order
BY FieldHalves

LEMMA XorInField ==
  ASSUME NEW a \in Field, NEW b \in Field
  PROVE  Xor(a, b) \in Field
BY FieldHalves DEF Bounded

LEMMA Remainders ==
  ASSUME NEW p \in Nat \ {0}, NEW v \in 0..(p - 1)
  PROVE  v % p = v /\ (p + v) % p = v
OBVIOUS

\* Leaving out the top digit, of numbers with one more.
LEMMA XorOfRemainders ==
  ASSUME NEW p \in Nat \ {0}, Bounded(p), Tops(p),
         NEW u \in 0..(2 * p - 1), NEW v \in 0..(2 * p - 1)
  PROVE  Xor(u, v) % p = Xor(u % p, v % p)
<1> DEFINE low(x) == IF x < p THEN x ELSE x - p
<1>1. ASSUME NEW x \in 0..(2 * p - 1) PROVE low(x) \in 0..(p - 1) /\ x % p = low(x)
  <2>1. CASE x < p
    BY <2>1, Remainders
  <2>2. CASE x >= p
    <3>1. PICK z \in 0..(p - 1) : z = x - p /\ x = p + z
      BY <2>2
    <3>2. (p + z) % p = z
      BY Remainders
    <3> QED BY <2>2, <3>1, <3>2
  <2> QED BY <2>1, <2>2
<1>2. Xor(low(u), low(v)) \in 0..(p - 1) /\ Xor(low(v), low(u)) = Xor(low(u), low(v))
  <2>1. low(u) \in Nat /\ low(v) \in Nat
    BY <1>1
  <2> HIDE DEF low
  <2> QED BY <1>1, <2>1, XorCommutes DEF Bounded
<1>3. PICK a \in 0..(p - 1) : a = low(u)
  BY <1>1
<1>4. PICK b \in 0..(p - 1) : b = low(v)
  BY <1>1
<1>5. (u = a \/ u = p + a) /\ (v = b \/ v = p + b)
  BY <1>3, <1>4
<1> HIDE DEF low
<1>6. PICK x \in 0..(p - 1) : x = Xor(a, b) /\ x = Xor(b, a)
  BY <1>2, <1>3, <1>4
<1>7. Xor(p + a, b) = p + x /\ Xor(p + b, a) = p + x /\ Xor(p + a, p + b) = x
  BY <1>6 DEF Tops
<1>8. Xor(a, p + b) = Xor(p + b, a)
  BY XorCommutes
<1>9. Xor(u, v) = x \/ Xor(u, v) = p + x
  BY <1>5, <1>6, <1>7, <1>8
<1>10. x % p = x /\ (p + x) % p = x
  BY Remainders
<1>11. Xor(u, v) % p = x
  BY <1>9, <1>10
<1> QED BY <1>1, <1>3, <1>4, <1>6, <1>11

LEMMA XorOfDoubles ==
  ASSUME NEW a \in Nat, NEW b \in Nat
  PROVE  Xor(2 * a, 2 * b) = 2 * Xor(a, b)
<1>1. 0 \in Bit /\ BitXor(0, 0) = 0
  BY DEF Bit, BitXor
<1>2. Xor(Number(a, 0), Number(b, 0)) = Number(Xor(a, b), 0)
  BY <1>1, XorOfDigits
<1>3. Number(a, 0) = 2 * a /\ Number(b, 0) = 2 * b /\ Number(Xor(a, b), 0) = 2 * Xor(a, b)
  BY XorIsTyped DEF Number
<1> QED BY <1>2, <1>3

\* What is subtracted when the doubled number overflows.
Reduction(x) == IF x >= TwoTo[Width - 1] THEN Modulus ELSE 0

LEMMA ReductionIsLinear ==
  ASSUME NEW x \in Field, NEW y \in Field
  PROVE  Reduction(Xor(x, y)) = Xor(Reduction(x), Reduction(y))
<1>1. PICK p \in Nat \ {0} :
        p = TwoTo[Width - 1] /\ Field = 0..(2 * p - 1) /\ Bounded(p) /\ Tops(p)
  BY FieldHalves
<1>2. PICK a \in 0..(p - 1) : x = a \/ x = p + a
  <2>1. CASE x < p
    BY <1>1, <2>1
  <2>2. CASE x >= p
    <3>1. x - p \in 0..(p - 1) /\ x = p + (x - p)
      BY <1>1, <2>2
    <3> QED BY <3>1
  <2> QED BY <1>1, <2>1, <2>2
<1>3. PICK b \in 0..(p - 1) : y = b \/ y = p + b
  <2>1. CASE y < p
    BY <1>1, <2>1
  <2>2. CASE y >= p
    <3>1. y - p \in 0..(p - 1) /\ y = p + (y - p)
      BY <1>1, <2>2
    <3> QED BY <3>1
  <2> QED BY <1>1, <2>1, <2>2
<1>4. Xor(a, b) \in 0..(p - 1) /\ Xor(b, a) = Xor(a, b)
  BY <1>1, XorCommutes DEF Bounded
<1>5. PICK c \in 0..(p - 1) : c = Xor(a, b) /\ c = Xor(b, a)
  BY <1>4
<1>6. Xor(p + a, b) = p + c /\ Xor(p + b, a) = p + c /\ Xor(p + a, p + b) = c
  <2>1. Xor(p + a, b) = p + Xor(a, b) /\ Xor(p + a, p + b) = Xor(a, b)
    BY <1>1, Zenon DEF Tops
  <2>2. Xor(p + b, a) = p + Xor(b, a)
    BY <1>1, Zenon DEF Tops
  <2> QED BY <1>5, <2>1, <2>2
<1>7. Xor(a, p + b) = Xor(p + b, a)
  BY XorCommutes
<1>8. Modulus \in Nat
  BY FieldHalves
<1>9. Xor(Modulus, 0) = Modulus /\ Xor(0, Modulus) = Modulus /\ Xor(0, 0) = 0
      /\ Xor(Modulus, Modulus) = 0
  BY <1>8, XorOfZero, XorOfItself
<1>10. \A z \in 0..(p - 1) : Reduction(z) = 0 /\ Reduction(p + z) = Modulus
  BY <1>1 DEF Reduction
<1>11. CASE x = a /\ y = b
  BY <1>5, <1>9, <1>10, <1>11
<1>12. CASE x = p + a /\ y = b
  BY <1>6, <1>9, <1>10, <1>12
<1>13. CASE x = a /\ y = p + b
  BY <1>6, <1>7, <1>9, <1>10, <1>13
<1>14. CASE x = p + a /\ y = p + b
  BY <1>6, <1>9, <1>10, <1>14
<1> QED BY <1>2, <1>3, <1>11, <1>12, <1>13, <1>14

\* Before the remainder is taken.
Tripled(x) == Xor(Xor(2 * x, Reduction(x)), x)

LEMMA TripledIsTyped ==
  ASSUME NEW x \in Field
  PROVE  /\ Reduction(x) \in Nat /\ Xor(2 * x, Reduction(x)) \in Nat
         /\ Tripled(x) \in 0..(2 * TwoTo[Width] - 1)
<1>1. PICK p \in Nat \ {0} :
        /\ 2 * p = TwoTo[Width] /\ Field = 0..(2 * p - 1)
        /\ Modulus \in (2 * p)..(4 * p - 1) /\ Bounded(4 * p)
  BY FieldHalves
<1>2. 2 * x \in 0..(4 * p - 1) /\ Reduction(x) \in 0..(4 * p - 1) /\ x \in 0..(4 * p - 1)
  BY <1>1 DEF Reduction
<1>3. Xor(2 * x, Reduction(x)) \in 0..(4 * p - 1)
  BY <1>1, <1>2 DEF Bounded
<1>4. Xor(Xor(2 * x, Reduction(x)), x) \in 0..(4 * p - 1)
  BY <1>1, <1>2, <1>3 DEF Bounded
<1>5. 4 * p - 1 = 2 * TwoTo[Width] - 1
  BY <1>1
<1> QED BY <1>2, <1>3, <1>4, <1>5 DEF Tripled

LEMMA TripledIsLinear ==
  ASSUME NEW x \in Field, NEW y \in Field
  PROVE  Tripled(Xor(x, y)) = Xor(Tripled(x), Tripled(y))
<1>1. PICK z \in Field : z = Xor(x, y)
  BY XorInField
<1>2. x \in Nat /\ y \in Nat /\ 2 * x \in Nat /\ 2 * y \in Nat
  BY FieldIsNat
<1>3. PICK r \in Nat : r = Reduction(x)
  BY TripledIsTyped
<1>4. PICK s \in Nat : s = Reduction(y)
  BY TripledIsTyped
<1>5. 2 * z = Xor(2 * x, 2 * y) /\ Reduction(z) = Xor(r, s)
  BY <1>1, <1>2, <1>3, <1>4, XorOfDoubles, ReductionIsLinear
<1>6. Tripled(z) = Xor(Xor(Xor(2 * x, 2 * y), Xor(r, s)), Xor(x, y))
  BY <1>1, <1>5 DEF Tripled
<1>7. Xor(Xor(2 * x, 2 * y), Xor(r, s)) = Xor(Xor(2 * x, r), Xor(2 * y, s))
  BY <1>2, XorSwaps
<1>8. PICK u \in Nat : u = Xor(2 * x, r)
  BY <1>2, XorIsTyped
<1>9. PICK v \in Nat : v = Xor(2 * y, s)
  BY <1>2, XorIsTyped
<1>10. Xor(Xor(u, v), Xor(x, y)) = Xor(Xor(u, x), Xor(v, y))
  BY <1>2, XorSwaps
<1>11. Tripled(x) = Xor(u, x) /\ Tripled(y) = Xor(v, y)
  BY <1>3, <1>4, <1>8, <1>9 DEF Tripled
<1> QED BY <1>1, <1>6, <1>7, <1>8, <1>9, <1>10, <1>11

\* Multiplication by the generator is linear.
LEMMA GeneratorIsLinear ==
  ASSUME NEW x \in Field, NEW y \in Field
  PROVE  /\ TimesGenerator[x] \in Field
         /\ TimesGenerator[Xor(x, y)] = Xor(TimesGenerator[x], TimesGenerator[y])
<1>1. \A z \in Field : TimesGenerator[z] = Tripled(z) % TwoTo[Width]
  BY DEF TimesGenerator, Tripled, Reduction
<1>2. PICK p \in Nat \ {0} :
        p = TwoTo[Width] /\ Field = 0..(p - 1) /\ Bounded(p) /\ Tops(p)
  <2>1. PICK q \in Nat \ {0} :
          2 * q = TwoTo[Width] /\ Field = 0..(2 * q - 1) /\ Bounded(2 * q) /\ Tops(2 * q)
    BY FieldHalves
  <2>2. PICK p \in Nat \ {0} : p = 2 * q
    OBVIOUS
  <2> QED BY <2>1, <2>2
<1>3. PICK u \in 0..(2 * p - 1) : u = Tripled(x)
  BY <1>2, TripledIsTyped
<1>4. PICK v \in 0..(2 * p - 1) : v = Tripled(y)
  BY <1>2, TripledIsTyped
<1>5. Xor(x, y) \in Field /\ Tripled(Xor(x, y)) = Xor(u, v)
  BY <1>3, <1>4, XorInField, TripledIsLinear
<1>6. Xor(u, v) % p = Xor(u % p, v % p)
  BY <1>2, XorOfRemainders
<1>7. u % p \in Field
  <2>1. u % p \in 0..(p - 1)
    OBVIOUS
  <2> QED BY <1>2, <2>1
<1> QED BY <1>1, <1>2, <1>3, <1>4, <1>5, <1>6, <1>7

LEMMA OneInField == 1 \in Field /\ 0 \in Field /\ 1..Order \subseteq Field
BY FieldIsNat

LEMMA GeneratorOfZero == TimesGenerator[0] = 0
<1>1. 0 \in Field /\ Xor(0, 0) = 0
  BY OneInField, XorOfZero
<1>2. PICK z \in Nat : z = TimesGenerator[0]
  BY <1>1, GeneratorIsLinear, FieldIsNat
<1>3. z = Xor(z, z)
  BY <1>1, <1>2, GeneratorIsLinear
<1> QED BY <1>2, <1>3, XorOfItself

-----------------------------------------------------------------------------
(* The powers of the generator, and multiplication.                        *)

LEMMA PowersAreDefined ==
  /\ Powers[0] = 1
  /\ \A i \in Nat : Powers[i] \in Field /\ Powers[i + 1] = TimesGenerator[Powers[i]]
<1> DEFINE Fits(f) == f = [i \in Nat |-> IF i = 0 THEN 1 ELSE TimesGenerator[f[i - 1]]]
           step == [i \in Nat |-> [v \in Field |-> TimesGenerator[v]]]
<1>1. step \in [Nat -> [Field -> Field]]
  BY GeneratorIsLinear
<1>2. PICK f \in [Nat -> Field] :
        f[0] = 1 /\ \A k \in Nat : f[k + 1] = TimesGenerator[f[k]]
  <2>1. PICK f \in [Nat -> Field] : Endless(f, 1, step)
    <3> HIDE DEF step
    <3> QED BY <1>1, OneInField, EndlessLoopIsDefined, Zenon
  <2>2. ASSUME NEW k \in Nat PROVE f[k + 1] = TimesGenerator[f[k]]
    <3>1. f[k + 1] = step[k + 1][f[k]] /\ f[k] \in Field /\ k + 1 \in Nat
      <4> HIDE DEF step
      <4> QED BY <2>1 DEF Endless
    <3>2. step[k + 1] = [v \in Field |-> TimesGenerator[v]]
      BY <3>1
    <3> QED BY <3>1, <3>2
  <2> QED BY <2>1, <2>2 DEF Endless
<1>3. \A n \in Nat : f[n] = IF n = 0 THEN 1 ELSE TimesGenerator[f[n - 1]]
  <2> TAKE n \in Nat
  <2>1. CASE n # 0
    <3>1. PICK k \in Nat : k = n - 1 /\ k + 1 = n
      BY <2>1
    <3> QED BY <1>2, <2>1, <3>1
  <2> QED BY <1>2, <2>1
<1>4. Fits(f)
  <2>1. f = [n \in Nat |-> f[n]]
    OBVIOUS
  <2> QED BY <1>3, <2>1, Zenon
<1>5. Fits(Powers)
  BY <1>4, Zenon DEF Powers
<1>6. Powers[0] = 1 /\ \A n \in Nat : Powers[n + 1] = TimesGenerator[Powers[n]]
  BY <1>5
<1> DEFINE G == {n \in Nat : Powers[n] \in Field}
<1>7. 0 \in G
  BY <1>6, OneInField
<1>8. ASSUME NEW n \in Nat, n \in G PROVE n + 1 \in G
  BY <1>6, <1>8, GeneratorIsLinear
<1>9. \A n \in Nat : n \in G
  <2> HIDE DEF G
  <2> QED BY <1>7, <1>8, Induction
<1> QED BY <1>6, <1>9

\* Where two powers agree, all that follow agree.
LEMMA PowersAgree ==
  ASSUME NEW i \in Nat, NEW j \in Nat, Powers[i] = Powers[j], NEW k \in Nat
  PROVE  Powers[i + k] = Powers[j + k]
<1> DEFINE G == {n \in Nat : Powers[i + n] = Powers[j + n]}
<1>1. 0 \in G
  OBVIOUS
<1>2. ASSUME NEW n \in Nat, n \in G PROVE n + 1 \in G
  <2>1. i + n \in Nat /\ j + n \in Nat /\ i + (n + 1) = (i + n) + 1 /\ j + (n + 1) = (j + n) + 1
    OBVIOUS
  <2>2. Powers[(i + n) + 1] = TimesGenerator[Powers[i + n]]
    BY <2>1, PowersAreDefined
  <2>3. Powers[(j + n) + 1] = TimesGenerator[Powers[j + n]]
    BY <2>1, PowersAreDefined
  <2> QED BY <1>2, <2>1, <2>2, <2>3
<1>3. \A n \in Nat : n \in G
  <2> HIDE DEF G
  <2> QED BY <1>1, <1>2, Induction
<1> QED BY <1>3

\* They repeat after Order.
LEMMA PowersRepeat == \A i \in Nat : Powers[Order + i] = Powers[i]
<1>1. Powers[Order] = Powers[0]
  BY GeneratorAssumption, PowersAreDefined DEF IsGenerator
<1>2. Order \in Nat
  BY FieldIsNat
<1>3. ASSUME NEW i \in Nat PROVE Powers[Order + i] = Powers[0 + i]
  BY <1>1, <1>2, PowersAgree
<1> QED BY <1>3

LEMMA PowersAreNotZero == \A i \in Nat : Powers[i] \in 1..Order
<1>1. Order \in Nat \ {0}
  BY FieldIsNat
<1>2. {Powers[i] : i \in 0..(Order - 1)} = 1..Order /\ Powers[Order] = 1
  BY GeneratorAssumption DEF IsGenerator
<1> DEFINE G == {n \in Nat : \E k \in 0..(Order - 1) : Powers[n] = Powers[k]}
<1>3. 0 \in G
  BY <1>1
<1>4. ASSUME NEW n \in Nat, n \in G PROVE n + 1 \in G
  <2>1. PICK k \in 0..(Order - 1) : Powers[n] = Powers[k]
    BY <1>4
  <2>2. Powers[n + 1] = Powers[k + 1]
    BY <2>1, PowersAgree
  <2>3. CASE k + 1 = Order
    <3>1. Powers[n + 1] = Powers[0]
      BY <1>2, <2>2, <2>3, PowersAreDefined
    <3> QED BY <1>1, <3>1
  <2>4. CASE k + 1 # Order
    <3>1. k + 1 \in 0..(Order - 1)
      BY <1>1, <2>4
    <3> QED BY <2>2, <3>1
  <2> QED BY <2>3, <2>4
<1>5. \A n \in Nat : n \in G
  <2> HIDE DEF G
  <2> QED BY <1>3, <1>4, Induction
<1>6. \A k \in 0..(Order - 1) : Powers[k] \in 1..Order
  BY <1>2
<1> HIDE DEF G
<1>7. ASSUME NEW n \in Nat PROVE Powers[n] \in 1..Order
  <2>1. \E k \in 0..(Order - 1) : Powers[n] = Powers[k]
    BY <1>5 DEF G
  <2> QED BY <1>6, <2>1
<1> QED BY <1>7

\* The logarithm of an element other than 0 is the exponent of one power.
LEMMA LogIsExponent ==
  ASSUME NEW x \in 1..Order
  PROVE  LOG[x] \in 0..(Order - 1) /\ Powers[LOG[x]] = x
<1> DEFINE written == {i \in 0..(Order - 1) : Powers[i] = x}
<1>1. x \in Field /\ Order \in Nat \ {0}
  BY FieldIsNat
<1>2. written # {}
  BY GeneratorAssumption DEF IsGenerator
<1>3. \E i \in written : \A j \in written : j <= i
  <2> DEFINE above == {m \in Nat : \A j \in written : j <= m}
  <2>1. Order \in above
    BY <1>1
  <2>2. PICK m \in above : \A k \in above : m <= k
    <3> HIDE DEF above
    <3>1. above \subseteq Nat
      BY DEF above
    <3> QED BY <2>1, <3>1, LeastNatural
  <2>3. m \in written
    <3> SUFFICES ASSUME m \notin written PROVE FALSE
      OBVIOUS
    <3>1. \A j \in written : j < m
      BY <2>2
    <3>2. m # 0
      BY <1>2, <3>1
    <3>3. m - 1 \in above
      BY <3>1, <3>2
    <3> QED BY <2>2, <3>3
  <2> QED BY <2>2, <2>3
<1>4. LOG[x] = CHOOSE i \in written : \A j \in written : j <= i
  BY <1>1, <1>2 DEF LOG
<1>5. LOG[x] \in written
  <2> HIDE DEF written
  <2> QED BY <1>3, <1>4
<1> QED BY <1>5

LEMMA LogIsTyped ==
  ASSUME NEW x \in Field
  PROVE  LOG[x] \in 0..(Order - 1)
<1>1. Order \in Nat \ {0} /\ Field = 0..Order
  BY FieldIsNat
<1>2. CASE x = 0
  <2>1. {i \in 0..(Order - 1) : Powers[i] = x} = {}
    BY <1>2, PowersAreNotZero
  <2>2. LOG[x] = 0
    BY <2>1 DEF LOG
  <2> QED BY <1>1, <2>2
<1>3. CASE x \in 1..Order
  BY <1>3, LogIsExponent
<1> QED BY <1>1, <1>2, <1>3

LEMMA ExpIsPower ==
  ASSUME NEW i \in 0..(2 * Order - 1)
  PROVE  EXP[i] = Powers[i]
<1>1. Order \in Nat \ {0}
  BY FieldIsNat
<1>2. EXP[i] = Powers[i % Order]
  BY <1>1 DEF EXP
<1>3. CASE i < Order
  <2>1. i \in 0..(Order - 1)
    BY <1>1, <1>3
  <2>2. i % Order = i
    BY <1>1, <2>1, Remainders
  <2> QED BY <1>2, <2>2
<1>4. CASE i >= Order
  <2>1. PICK k \in 0..(Order - 1) : i = Order + k
    <3>1. i - Order \in 0..(Order - 1) /\ i = Order + (i - Order)
      BY <1>1, <1>4
    <3> QED BY <3>1
  <2>2. i % Order = k
    BY <1>1, <2>1, Remainders
  <2>3. Powers[Order + k] = Powers[k]
    BY PowersRepeat
  <2> QED BY <1>2, <2>1, <2>2, <2>3
<1> QED BY <1>1, <1>3, <1>4

\* Exponents add when powers are multiplied.
LEMMA ProductOfPowers ==
  ASSUME NEW i \in Nat, NEW j \in Nat
  PROVE  GfMul(Powers[i], Powers[j]) = Powers[i + j]
<1>1. PICK a \in 1..Order : a = Powers[i]
  BY PowersAreNotZero
<1>2. PICK b \in 1..Order : b = Powers[j]
  BY PowersAreNotZero
<1>3. PICK k \in 0..(Order - 1) : k = LOG[a] /\ Powers[k] = a
  BY LogIsExponent
<1>4. PICK l \in 0..(Order - 1) : l = LOG[b] /\ Powers[l] = b
  BY LogIsExponent
<1>5. Order \in Nat \ {0} /\ k \in Nat /\ l \in Nat /\ k + l \in 0..(2 * Order - 1)
  BY FieldIsNat
<1>6. GfMul(a, b) = Powers[k + l]
  <2>1. EXP[k + l] = Powers[k + l]
    BY <1>5, ExpIsPower
  <2>2. a # 0 /\ b # 0
    BY <1>5
  <2> QED BY <1>3, <1>4, <2>1, <2>2 DEF GfMul
<1>7. Powers[k + l] = Powers[i + l]
  BY <1>1, <1>3, <1>5, PowersAgree
<1>8. Powers[l + i] = Powers[j + i]
  BY <1>2, <1>4, <1>5, PowersAgree
<1>9. l + i = i + l /\ j + i = i + j
  BY <1>5
<1> QED BY <1>1, <1>2, <1>6, <1>7, <1>8, <1>9

LEMMA EachIsPower ==
  ASSUME NEW a \in Field, a # 0
  PROVE  \E k \in Nat : a = Powers[k]
<1>1. a \in 1..Order /\ Order \in Nat
  BY FieldIsNat
<1>2. LOG[a] \in 0..(Order - 1) /\ Powers[LOG[a]] = a
  BY <1>1, LogIsExponent
<1> QED BY <1>1, <1>2

LEMMA ProductWithZero ==
  ASSUME NEW a
  PROVE  GfMul(a, 0) = 0 /\ GfMul(0, a) = 0
BY DEF GfMul

LEMMA ProductInField ==
  ASSUME NEW a \in Field, NEW b \in Field
  PROVE  GfMul(a, b) \in Field /\ (GfMul(a, b) = 0 <=> a = 0 \/ b = 0)
<1>1. CASE a = 0 \/ b = 0
  BY <1>1, ProductWithZero, OneInField
<1>2. CASE a # 0 /\ b # 0
  <2>1. PICK i \in Nat : a = Powers[i]
    BY <1>2, EachIsPower
  <2>2. PICK j \in Nat : b = Powers[j]
    BY <1>2, EachIsPower
  <2>3. GfMul(a, b) = Powers[i + j]
    BY <2>1, <2>2, ProductOfPowers
  <2>4. Powers[i + j] \in 1..Order
    BY PowersAreNotZero
  <2> QED BY <1>2, <2>3, <2>4, FieldIsNat
<1> QED BY <1>1, <1>2

LEMMA ProductCommutes ==
  ASSUME NEW a \in Field, NEW b \in Field
  PROVE  GfMul(a, b) = GfMul(b, a)
<1>1. CASE a = 0 \/ b = 0
  BY <1>1, ProductWithZero
<1>2. CASE a # 0 /\ b # 0
  <2>1. PICK i \in Nat : a = Powers[i]
    BY <1>2, EachIsPower
  <2>2. PICK j \in Nat : b = Powers[j]
    BY <1>2, EachIsPower
  <2>3. GfMul(a, b) = Powers[i + j] /\ GfMul(b, a) = Powers[j + i]
    BY <2>1, <2>2, ProductOfPowers
  <2>4. i + j = j + i
    OBVIOUS
  <2> QED BY <2>3, <2>4
<1> QED BY <1>1, <1>2

LEMMA ProductAssociates ==
  ASSUME NEW a \in Field, NEW b \in Field, NEW c \in Field
  PROVE  GfMul(GfMul(a, b), c) = GfMul(a, GfMul(b, c))
<1>1. CASE a = 0 \/ b = 0 \/ c = 0
  BY <1>1, ProductWithZero
<1>2. CASE a # 0 /\ b # 0 /\ c # 0
  <2>1. PICK i \in Nat : a = Powers[i]
    BY <1>2, EachIsPower
  <2>2. PICK j \in Nat : b = Powers[j]
    BY <1>2, EachIsPower
  <2>3. PICK k \in Nat : c = Powers[k]
    BY <1>2, EachIsPower
  <2>4. PICK ij \in Nat : ij = i + j
    OBVIOUS
  <2>5. PICK jk \in Nat : jk = j + k
    OBVIOUS
  <2>6. GfMul(a, b) = Powers[ij] /\ GfMul(b, c) = Powers[jk]
    BY <2>1, <2>2, <2>3, <2>4, <2>5, ProductOfPowers
  <2>7. GfMul(Powers[ij], c) = Powers[ij + k] /\ GfMul(a, Powers[jk]) = Powers[i + jk]
    BY <2>1, <2>3, ProductOfPowers
  <2>8. ij + k = i + jk
    BY <2>4, <2>5
  <2> QED BY <2>6, <2>7, <2>8
<1> QED BY <1>1, <1>2

LEMMA ProductWithOne ==
  ASSUME NEW a \in Field
  PROVE  GfMul(a, 1) = a /\ GfMul(1, a) = a
<1>1. CASE a = 0
  BY <1>1, ProductWithZero
<1>2. CASE a # 0
  <2>1. PICK i \in Nat : a = Powers[i]
    BY <1>2, EachIsPower
  <2>2. Powers[0] = 1
    BY PowersAreDefined
  <2>3. GfMul(Powers[i], Powers[0]) = Powers[i + 0] /\ GfMul(Powers[0], Powers[i]) = Powers[0 + i]
    BY ProductOfPowers
  <2>4. i + 0 = i /\ 0 + i = i
    OBVIOUS
  <2> QED BY <2>1, <2>2, <2>3, <2>4
<1> QED BY <1>1, <1>2

\* Multiplication by one power more is multiplication by the generator.
LEMMA ProductWithNextPower ==
  ASSUME NEW x \in Field, NEW k \in Nat
  PROVE  GfMul(x, Powers[k + 1]) = TimesGenerator[GfMul(x, Powers[k])]
<1>1. CASE x = 0
  BY <1>1, ProductWithZero, GeneratorOfZero
<1>2. CASE x # 0
  <2>1. PICK i \in Nat : x = Powers[i]
    BY <1>2, EachIsPower
  <2>2. PICK m \in Nat : m = i + k /\ i + (k + 1) = m + 1
    OBVIOUS
  <2>3. GfMul(x, Powers[k]) = Powers[m] /\ GfMul(x, Powers[k + 1]) = Powers[m + 1]
    BY <2>1, <2>2, ProductOfPowers
  <2> QED BY <2>3, PowersAreDefined
<1> QED BY <1>1, <1>2

LEMMA ProductDistributes ==
  ASSUME NEW a \in Field, NEW b \in Field, NEW c \in Field
  PROVE  GfMul(Xor(a, b), c) = Xor(GfMul(a, c), GfMul(b, c))
<1> DEFINE G == {k \in Nat :
                   GfMul(Xor(a, b), Powers[k]) = Xor(GfMul(a, Powers[k]), GfMul(b, Powers[k]))}
<1>1. Xor(a, b) \in Field
  BY XorInField
<1>2. 0 \in G
  BY <1>1, PowersAreDefined, ProductWithOne
<1>3. ASSUME NEW k \in Nat, k \in G PROVE k + 1 \in G
  <2>1. PICK u \in Field : u = GfMul(a, Powers[k])
    BY PowersAreDefined, ProductInField
  <2>2. PICK v \in Field : v = GfMul(b, Powers[k])
    BY PowersAreDefined, ProductInField
  <2>3. /\ GfMul(a, Powers[k + 1]) = TimesGenerator[u]
        /\ GfMul(b, Powers[k + 1]) = TimesGenerator[v]
        /\ GfMul(Xor(a, b), Powers[k + 1]) = TimesGenerator[GfMul(Xor(a, b), Powers[k])]
    BY <1>1, <2>1, <2>2, ProductWithNextPower
  <2>4. GfMul(Xor(a, b), Powers[k]) = Xor(u, v)
    BY <1>3, <2>1, <2>2
  <2>5. TimesGenerator[Xor(u, v)] = Xor(TimesGenerator[u], TimesGenerator[v])
    BY GeneratorIsLinear
  <2> QED BY <2>3, <2>4, <2>5
<1>4. \A k \in Nat : k \in G
  <2> HIDE DEF G
  <2> QED BY <1>2, <1>3, Induction
<1>5. CASE c = 0
  <2>1. Xor(0, 0) = 0
    BY XorOfZero
  <2> QED BY <1>5, <2>1, ProductWithZero
<1>6. CASE c # 0
  <2>1. PICK k \in Nat : c = Powers[k]
    BY <1>6, EachIsPower
  <2> QED BY <1>4, <2>1
<1> QED BY <1>5, <1>6

LEMMA QuotientInField ==
  ASSUME NEW a \in Field, NEW b \in Field, b # 0
  PROVE  GfDiv(a, b) \in Field /\ GfMul(GfDiv(a, b), b) = a
<1>1. CASE a = 0
  BY <1>1, ProductWithZero, OneInField DEF GfDiv
<1>2. CASE a # 0
  <2>1. Order \in Nat \ {0} /\ a \in 1..Order /\ b \in 1..Order
    BY <1>2, FieldIsNat
  <2>2. PICK k \in 0..(Order - 1) : k = LOG[a] /\ Powers[k] = a
    BY <2>1, LogIsExponent
  <2>3. PICK l \in 0..(Order - 1) : l = LOG[b] /\ Powers[l] = b
    BY <2>1, LogIsExponent
  <2>4. PICK m \in 0..(2 * Order - 1) : m = k + Order - l
    BY <2>1
  <2>5. GfDiv(a, b) = EXP[m % Order]
    BY <1>2, <2>2, <2>3, <2>4 DEF GfDiv
  <2>6. m % Order \in 0..(Order - 1)
    BY <2>1
  <2>7. EXP[m % Order] = Powers[m % Order]
    BY <2>1, <2>6, ExpIsPower
  <2>8. Powers[m % Order] = Powers[m]
    <3>1. m \in 0..(2 * Order + 1)
      BY <2>1
    <3>2. EXP[m] = Powers[m % Order]
      BY <3>1 DEF EXP
    <3> QED BY <3>2, ExpIsPower
  <2>9. m \in Nat /\ l \in Nat /\ m + l = Order + k /\ k \in Nat
    BY <2>1, <2>4
  <2>10. GfMul(Powers[m], Powers[l]) = Powers[Order + k]
    BY <2>9, ProductOfPowers
  <2>11. Powers[Order + k] = a
    BY <2>2, <2>9, PowersRepeat
  <2>12. Powers[m] \in Field
    BY <2>9, PowersAreDefined
  <2> QED BY <2>3, <2>5, <2>7, <2>8, <2>10, <2>11, <2>12
<1> QED BY <1>1, <1>2

-----------------------------------------------------------------------------
(* The field's laws, in its own notation.                                  *)

a (+) b == Xor(a, b)
a (.) b == GfMul(a, b)

LEMMA Sums ==
  ASSUME NEW a \in Field, NEW b \in Field
  PROVE  /\ a (+) b \in Field
         /\ a (+) b = b (+) a
         /\ a (+) a = 0 /\ a (+) 0 = a /\ 0 (+) a = a
         /\ a (+) (a (+) b) = b
         /\ a (+) b = 0 => a = b
<1>1. a \in Nat /\ b \in Nat
  BY FieldIsNat
<1>2. Xor(a, b) \in Field /\ Xor(a, b) = Xor(b, a)
  BY <1>1, XorInField, XorCommutes
<1>3. Xor(a, a) = 0 /\ Xor(a, 0) = a /\ Xor(0, a) = a /\ Xor(0, b) = b
  BY <1>1, XorOfItself, XorOfZero
<1>4. Xor(a, Xor(a, b)) = b
  BY <1>1, <1>3, XorAssociates
<1>5. Xor(a, b) = 0 => a = b
  BY <1>3, <1>4
<1> QED BY <1>2, <1>3, <1>4, <1>5 DEF (+)

LEMMA SumsAssociate ==
  ASSUME NEW a \in Field, NEW b \in Field, NEW c \in Field
  PROVE  (a (+) b) (+) c = a (+) (b (+) c)
BY FieldIsNat, XorAssociates DEF (+)

LEMMA SumsSwap ==
  ASSUME NEW a \in Field, NEW b \in Field, NEW c \in Field, NEW d \in Field
  PROVE  (a (+) b) (+) (c (+) d) = (a (+) c) (+) (b (+) d)
BY FieldIsNat, XorSwaps DEF (+)

LEMMA Products ==
  ASSUME NEW a \in Field, NEW b \in Field
  PROVE  /\ a (.) b \in Field
         /\ a (.) b = b (.) a
         /\ a (.) 0 = 0 /\ 0 (.) a = 0 /\ a (.) 1 = a /\ 1 (.) a = a
         /\ a (.) b = 0 => a = 0 \/ b = 0
BY ProductInField, ProductCommutes, ProductWithZero, ProductWithOne DEF (.)

LEMMA ProductsAssociate ==
  ASSUME NEW a \in Field, NEW b \in Field, NEW c \in Field
  PROVE  (a (.) b) (.) c = a (.) (b (.) c)
BY ProductAssociates DEF (.)

LEMMA ProductsDistribute ==
  ASSUME NEW a \in Field, NEW b \in Field, NEW c \in Field
  PROVE  /\ (a (+) b) (.) c = (a (.) c) (+) (b (.) c)
         /\ c (.) (a (+) b) = (c (.) a) (+) (c (.) b)
<1>1. a (+) b \in Field
  BY Sums
<1>2. GfMul(Xor(a, b), c) = Xor(GfMul(a, c), GfMul(b, c))
  BY ProductDistributes
<1>3. c (.) (a (+) b) = (a (+) b) (.) c /\ c (.) a = a (.) c /\ c (.) b = b (.) c
  BY <1>1, Products
<1> QED BY <1>2, <1>3 DEF (+), (.)

LEMMA Quotients ==
  ASSUME NEW a \in Field, NEW b \in Field, b # 0
  PROVE  GfDiv(a, b) \in Field /\ GfDiv(a, b) (.) b = a /\ b (.) GfDiv(a, b) = a
BY QuotientInField, ProductCommutes DEF (.)

\* A quotient is a product with the inverse.
LEMMA QuotientIsProduct ==
  ASSUME NEW a \in Field, NEW b \in Field, b # 0
  PROVE  GfDiv(a, b) = a (.) GfDiv(1, b)
<1>1. PICK q \in Field : q = GfDiv(a, b) /\ q (.) b = a
  BY Quotients
<1>2. PICK i \in Field : i = GfDiv(1, b) /\ b (.) i = 1
  BY OneInField, Quotients
<1>3. (q (.) b) (.) i = q (.) (b (.) i)
  BY ProductsAssociate
<1>4. q (.) 1 = q
  BY OneInField, Products
<1> QED BY <1>1, <1>2, <1>3, <1>4

-----------------------------------------------------------------------------
(* Polynomials by their values.                                            *)

\* The rounds of Horner's rule.
Horner(y, coeffs, x) ==
  y = [k \in 0..Len(coeffs) |->
         IF k = 0 THEN 0 ELSE Xor(GfMul(y[k - 1], x), coeffs[Len(coeffs) - k + 1])]

LEMMA HornerIsDefined ==
  ASSUME NEW n \in Nat, NEW coeffs \in [1..n -> Field], NEW x \in Field
  PROVE  /\ Len(coeffs) = n
         /\ \E y \in [0..n -> Field] : Horner(y, coeffs, x) /\ GfPolyEval(coeffs, x) = y[n]
<1>1. Len(coeffs) = n
  OBVIOUS
<1> DEFINE step == [k \in Nat |-> [v \in Field |->
                      Xor(GfMul(v, x), IF k \in 1..n THEN coeffs[n - k + 1] ELSE 0)]]
<1>2. step \in [Nat -> [Field -> Field]]
  <2>1. ASSUME NEW k \in Nat, NEW v \in Field
        PROVE  Xor(GfMul(v, x), IF k \in 1..n THEN coeffs[n - k + 1] ELSE 0) \in Field
    <3>1. (IF k \in 1..n THEN coeffs[n - k + 1] ELSE 0) \in Field
      BY OneInField
    <3> QED BY <3>1, ProductInField, XorInField
  <2> QED BY <2>1
<1>3. PICK y \in [0..n -> Field] : Rounds(y, 0, step, n)
  <2> HIDE DEF step
  <2> QED BY <1>2, OneInField, LoopIsDefined
<1>4. ASSUME NEW k \in 0..n
      PROVE  y[k] = IF k = 0 THEN 0 ELSE Xor(GfMul(y[k - 1], x), coeffs[n - k + 1])
  <2>1. y[k] = IF k = 0 THEN 0 ELSE step[k][y[k - 1]]
    <3> HIDE DEF step
    <3> QED BY <1>3 DEF Rounds
  <2>2. ASSUME k # 0 PROVE step[k][y[k - 1]] = Xor(GfMul(y[k - 1], x), coeffs[n - k + 1])
    BY <2>2
  <2> QED BY <2>1, <2>2
<1> HIDE DEF step
<1>5. y = [k \in 0..n |-> y[k]]
  OBVIOUS
<1>6. Horner(y, coeffs, x)
  BY <1>1, <1>4, <1>5, Zenon DEF Horner
<1>7. PICK z : Horner(z, coeffs, x) /\ GfPolyEval(coeffs, x) = z[n]
  BY <1>1, <1>6, Zenon DEF GfPolyEval, Horner
<1>8. \A k \in 0..n : z[k] = IF k = 0 THEN 0 ELSE Xor(GfMul(z[k - 1], x), coeffs[n - k + 1])
  BY <1>1, <1>7 DEF Horner
<1> DEFINE G == {k \in Nat : k <= n => z[k] = y[k]}
<1>9. 0 \in G
  BY <1>4, <1>8
<1>10. ASSUME NEW k \in Nat, k \in G PROVE k + 1 \in G
  <2> SUFFICES ASSUME k + 1 <= n PROVE z[k + 1] = y[k + 1]
    OBVIOUS
  <2>1. PICK l \in 0..n : l = k + 1 /\ l # 0 /\ l - 1 = k
    OBVIOUS
  <2>2. z[k] = y[k]
    BY <1>10
  <2> QED BY <1>4, <1>8, <2>1, <2>2
<1>11. \A k \in Nat : k \in G
  <2> HIDE DEF G
  <2> QED BY <1>9, <1>10, Induction
<1>12. z[n] = y[n]
  BY <1>11
<1> QED BY <1>1, <1>6, <1>7, <1>12

LEMMA HornerInField ==
  ASSUME NEW n \in Nat, NEW coeffs \in [1..n -> Field], NEW x \in Field
  PROVE  GfPolyEval(coeffs, x) \in Field
<1>1. PICK y \in [0..n -> Field] : Horner(y, coeffs, x) /\ GfPolyEval(coeffs, x) = y[n]
  BY HornerIsDefined
<1>2. y[n] \in Field
  OBVIOUS
<1> QED BY <1>1, <1>2

\* The coefficients but the constant term.
Higher(coeffs, n) == [i \in 1..n |-> coeffs[i + 1]]

LEMMA HigherIsTyped ==
  ASSUME NEW n \in Nat, NEW coeffs \in [1..(n + 1) -> Field]
  PROVE  Higher(coeffs, n) \in [1..n -> Field]
<1>1. ASSUME NEW i \in 1..n PROVE coeffs[i + 1] \in Field
  <2>1. i + 1 \in 1..(n + 1)
    OBVIOUS
  <2> QED BY <2>1
<1> QED BY <1>1 DEF Higher

LEMMA HornerUnfolds ==
  ASSUME NEW n \in Nat, NEW coeffs \in [1..(n + 1) -> Field], NEW x \in Field
  PROVE  GfPolyEval(coeffs, x) = coeffs[1] (+) (x (.) GfPolyEval(Higher(coeffs, n), x))
<1>1. PICK h \in [1..n -> Field] : h = Higher(coeffs, n)
  BY HigherIsTyped
<1>2. Len(coeffs) = n + 1 /\ Len(h) = n /\ n + 1 \in Nat
  OBVIOUS
<1>3. PICK y \in [0..(n + 1) -> Field] :
        Horner(y, coeffs, x) /\ GfPolyEval(coeffs, x) = y[n + 1]
  BY <1>2, HornerIsDefined
<1>4. PICK z \in [0..n -> Field] : Horner(z, h, x) /\ GfPolyEval(h, x) = z[n]
  BY HornerIsDefined
<1>5. ASSUME NEW k \in 0..(n + 1)
      PROVE  y[k] = IF k = 0 THEN 0 ELSE Xor(GfMul(y[k - 1], x), coeffs[(n + 1) - k + 1])
  BY <1>2, <1>3 DEF Horner
<1>6. ASSUME NEW k \in 0..n
      PROVE  z[k] = IF k = 0 THEN 0 ELSE Xor(GfMul(z[k - 1], x), h[n - k + 1])
  BY <1>2, <1>4 DEF Horner
<1> DEFINE G == {k \in Nat : k <= n => y[k] = z[k]}
<1>7. 0 \in G
  BY <1>5, <1>6
<1>8. ASSUME NEW k \in Nat, k \in G PROVE k + 1 \in G
  <2> SUFFICES ASSUME k + 1 <= n PROVE y[k + 1] = z[k + 1]
    OBVIOUS
  <2>1. PICK l \in 1..n : l = k + 1 /\ l - 1 = k
    OBVIOUS
  <2>2. h[n - l + 1] = coeffs[(n + 1) - l + 1]
    BY <1>1 DEF Higher
  <2>3. y[l] = Xor(GfMul(y[l - 1], x), coeffs[(n + 1) - l + 1])
    BY <1>5
  <2>4. z[l] = Xor(GfMul(z[l - 1], x), h[n - l + 1])
    BY <1>6
  <2>5. y[k] = z[k]
    BY <1>8
  <2> QED BY <2>1, <2>2, <2>3, <2>4, <2>5
<1>9. \A k \in Nat : k \in G
  <2> HIDE DEF G
  <2> QED BY <1>7, <1>8, Induction
<1>10. y[n] = z[n]
  BY <1>9
<1>11. y[n + 1] = Xor(GfMul(y[n], x), coeffs[1])
  <2>1. n + 1 \in 0..(n + 1) /\ n + 1 # 0 /\ (n + 1) - 1 = n /\ (n + 1) - (n + 1) + 1 = 1
    OBVIOUS
  <2> QED BY <1>5, <2>1
<1>12. z[n] \in Field /\ coeffs[1] \in Field
  OBVIOUS
<1>13. (z[n] (.) x) (+) coeffs[1] = coeffs[1] (+) (x (.) z[n])
  BY <1>12, Products, Sums
<1>14. GfPolyEval(coeffs, x) = (z[n] (.) x) (+) coeffs[1]
  BY <1>3, <1>10, <1>11 DEF (+), (.)
<1> QED BY <1>1, <1>4, <1>13, <1>14

\* The polynomials with n coefficients.
Poly(n) == {[x \in Field |-> GfPolyEval(coeffs, x)] : coeffs \in [1..n -> Field]}

\* f is c plus x times g.
Shifted(f, c, g) == \A x \in Field : f[x] = c (+) (x (.) g[x])

LEMMA PolyIsTyped ==
  ASSUME NEW n \in Nat, NEW f \in Poly(n)
  PROVE  f \in [Field -> Field]
<1>1. PICK coeffs \in [1..n -> Field] : f = [x \in Field |-> GfPolyEval(coeffs, x)]
  BY DEF Poly
<1>2. ASSUME NEW x \in Field PROVE GfPolyEval(coeffs, x) \in Field
  BY HornerIsDefined
<1> QED BY <1>1, <1>2

LEMMA PolyOfNone ==
  ASSUME NEW f
  PROVE  f \in Poly(0) <=> f = [x \in Field |-> 0]
<1>1. ASSUME NEW coeffs \in [1..0 -> Field], NEW x \in Field
      PROVE  GfPolyEval(coeffs, x) = 0
  <2>1. PICK y \in [0..0 -> Field] : Horner(y, coeffs, x) /\ GfPolyEval(coeffs, x) = y[0]
    BY HornerIsDefined
  <2>2. Len(coeffs) = 0
    BY HornerIsDefined
  <2> QED BY <2>1, <2>2 DEF Horner
<1>2. ASSUME NEW coeffs \in [1..0 -> Field]
      PROVE  [x \in Field |-> GfPolyEval(coeffs, x)] = [x \in Field |-> 0]
  BY <1>1
<1>3. PICK none : none \in [1..0 -> Field]
  <2>1. [i \in 1..0 |-> 0] \in [1..0 -> Field]
    OBVIOUS
  <2> QED BY <2>1
<1> QED BY <1>2, <1>3 DEF Poly

LEMMA PolySplits ==
  ASSUME NEW n \in Nat, NEW f \in Poly(n + 1)
  PROVE  \E c \in Field, g \in Poly(n) : Shifted(f, c, g)
<1>1. PICK coeffs \in [1..(n + 1) -> Field] : f = [x \in Field |-> GfPolyEval(coeffs, x)]
  BY DEF Poly
<1>2. PICK h \in [1..n -> Field] : h = Higher(coeffs, n)
  BY HigherIsTyped
<1>3. PICK g : g = [x \in Field |-> GfPolyEval(h, x)]
  OBVIOUS
<1>4. g \in Poly(n)
  BY <1>3 DEF Poly
<1>5. PICK c \in Field : c = coeffs[1]
  OBVIOUS
<1>6. ASSUME NEW x \in Field PROVE f[x] = c (+) (x (.) g[x])
  <2>1. GfPolyEval(coeffs, x) = coeffs[1] (+) (x (.) GfPolyEval(Higher(coeffs, n), x))
    BY HornerUnfolds
  <2> QED BY <1>1, <1>2, <1>3, <1>5, <2>1
<1> QED BY <1>4, <1>6 DEF Shifted

LEMMA PolyJoins ==
  ASSUME NEW n \in Nat, NEW c \in Field, NEW g \in Poly(n),
         NEW f \in [Field -> Field], Shifted(f, c, g)
  PROVE  f \in Poly(n + 1)
<1>1. PICK h \in [1..n -> Field] : g = [x \in Field |-> GfPolyEval(h, x)]
  BY DEF Poly
<1>2. PICK coeffs : coeffs = [i \in 1..(n + 1) |-> IF i = 1 THEN c ELSE h[i - 1]]
  OBVIOUS
<1>3. coeffs \in [1..(n + 1) -> Field] /\ coeffs[1] = c
  BY <1>2
<1>4. Higher(coeffs, n) = h
  <2>1. ASSUME NEW i \in 1..n PROVE coeffs[i + 1] = h[i]
    BY <1>2
  <2>2. Higher(coeffs, n) = [i \in 1..n |-> h[i]]
    BY <2>1 DEF Higher
  <2> QED BY <2>2
<1>5. ASSUME NEW x \in Field PROVE f[x] = GfPolyEval(coeffs, x)
  <2>1. GfPolyEval(coeffs, x) = coeffs[1] (+) (x (.) GfPolyEval(Higher(coeffs, n), x))
    BY <1>3, HornerUnfolds
  <2>2. f[x] = c (+) (x (.) g[x])
    BY DEF Shifted
  <2> QED BY <1>1, <1>3, <1>4, <2>1, <2>2
<1>6. f = [x \in Field |-> GfPolyEval(coeffs, x)]
  BY <1>5
<1> QED BY <1>3, <1>6 DEF Poly

-----------------------------------------------------------------------------
(* What polynomials are closed under.                                      *)

Zero == [x \in Field |-> 0]

LEMMA ZeroIsPoly == \A n \in Nat : Zero \in Poly(n)
<1> DEFINE G == {n \in Nat : Zero \in Poly(n)}
<1>1. 0 \in G
  BY PolyOfNone DEF Zero
<1>2. ASSUME NEW n \in Nat, n \in G PROVE n + 1 \in G
  <2>1. Zero \in [Field -> Field] /\ 0 \in Field
    BY OneInField DEF Zero
  <2>2. Shifted(Zero, 0, Zero)
    BY OneInField, Products, Sums DEF Shifted, Zero
  <2> QED BY <1>2, <2>1, <2>2, PolyJoins
<1>3. \A n \in Nat : n \in G
  <2> HIDE DEF G
  <2> QED BY <1>1, <1>2, Induction
<1> QED BY <1>3

LEMMA ConstantIsPoly ==
  ASSUME NEW n \in Nat, NEW c \in Field
  PROVE  [x \in Field |-> c] \in Poly(n + 1)
<1>1. PICK f \in [Field -> Field] : f = [x \in Field |-> c]
  OBVIOUS
<1>2. Shifted(f, c, Zero)
  BY <1>1, OneInField, Products, Sums DEF Shifted, Zero
<1> QED BY <1>1, <1>2, ZeroIsPoly, PolyJoins

LEMMA PolyGrows == \A n \in Nat : Poly(n) \subseteq Poly(n + 1)
<1> DEFINE G == {n \in Nat : Poly(n) \subseteq Poly(n + 1)}
<1>1. 0 \in G
  <2>1. ASSUME NEW f \in Poly(0) PROVE f \in Poly(0 + 1)
    <3>1. f = Zero
      BY PolyOfNone DEF Zero
    <3>2. 0 + 1 \in Nat
      OBVIOUS
    <3> QED BY <3>1, <3>2, ZeroIsPoly
  <2> QED BY <2>1
<1>2. ASSUME NEW n \in Nat, n \in G PROVE n + 1 \in G
  <2>1. ASSUME NEW f \in Poly(n + 1) PROVE f \in Poly((n + 1) + 1)
    <3>1. PICK c \in Field, g \in Poly(n) : Shifted(f, c, g)
      BY PolySplits
    <3>2. g \in Poly(n + 1) /\ n + 1 \in Nat
      BY <1>2
    <3>3. f \in [Field -> Field]
      BY <3>2, PolyIsTyped
    <3> QED BY <3>1, <3>2, <3>3, PolyJoins
  <2> QED BY <2>1
<1>3. \A n \in Nat : n \in G
  <2> HIDE DEF G
  <2> QED BY <1>1, <1>2, Induction
<1> QED BY <1>3

SumOf(f, g)      == [x \in Field |-> f[x] (+) g[x]]
MultipleOf(c, f) == [x \in Field |-> c (.) f[x]]
TimesX(f)        == [x \in Field |-> x (.) f[x]]

LEMMA SumIsPoly == \A n \in Nat : \A f, g \in Poly(n) : SumOf(f, g) \in Poly(n)
<1> DEFINE G == {n \in Nat : \A f, g \in Poly(n) : SumOf(f, g) \in Poly(n)}
<1>1. 0 \in G
  <2>1. ASSUME NEW f \in Poly(0), NEW g \in Poly(0) PROVE SumOf(f, g) = [x \in Field |-> 0]
    <3>1. f = [x \in Field |-> 0] /\ g = [x \in Field |-> 0]
      BY PolyOfNone
    <3>2. 0 (+) 0 = 0
      BY OneInField, Sums
    <3> QED BY <3>1, <3>2 DEF SumOf
  <2> QED BY <2>1, PolyOfNone
<1>2. ASSUME NEW n \in Nat, n \in G PROVE n + 1 \in G
  <2> SUFFICES ASSUME NEW f \in Poly(n + 1), NEW g \in Poly(n + 1)
               PROVE  SumOf(f, g) \in Poly(n + 1)
    OBVIOUS
  <2>1. PICK c \in Field, p \in Poly(n) : Shifted(f, c, p)
    BY PolySplits
  <2>2. PICK d \in Field, q \in Poly(n) : Shifted(g, d, q)
    BY PolySplits
  <2>3. PICK s \in Poly(n) : s = SumOf(p, q)
    BY <1>2
  <2>4. p \in [Field -> Field] /\ q \in [Field -> Field]
    BY PolyIsTyped
  <2>5. n + 1 \in Nat
    OBVIOUS
  <2>6. f \in [Field -> Field] /\ g \in [Field -> Field]
    BY <2>5, PolyIsTyped
  <2>7. PICK r \in [Field -> Field] : r = SumOf(f, g)
    <3>1. SumOf(f, g) \in [Field -> Field]
      BY <2>6, Sums DEF SumOf
    <3> QED BY <3>1
  <2>8. ASSUME NEW x \in Field PROVE r[x] = (c (+) d) (+) (x (.) s[x])
    <3>1. PICK a \in Field : a = p[x]
      BY <2>4
    <3>2. PICK b \in Field : b = q[x]
      BY <2>4
    <3>3. r[x] = (c (+) (x (.) a)) (+) (d (+) (x (.) b))
      BY <2>1, <2>2, <2>7, <3>1, <3>2 DEF Shifted, SumOf
    <3>4. x (.) a \in Field /\ x (.) b \in Field
      BY Products
    <3>5. r[x] = (c (+) d) (+) ((x (.) a) (+) (x (.) b))
      BY <3>3, <3>4, SumsSwap
    <3>6. (x (.) a) (+) (x (.) b) = x (.) (a (+) b)
      BY ProductsDistribute
    <3>7. s[x] = a (+) b
      BY <2>3, <3>1, <3>2 DEF SumOf
    <3> QED BY <3>5, <3>6, <3>7
  <2>9. c (+) d \in Field /\ Shifted(r, c (+) d, s)
    BY <2>8, Sums DEF Shifted
  <2> QED BY <2>7, <2>9, PolyJoins
<1>3. \A n \in Nat : n \in G
  <2> HIDE DEF G
  <2> QED BY <1>1, <1>2, Induction
<1> QED BY <1>3

LEMMA MultipleIsPoly == \A n \in Nat : \A f \in Poly(n), c \in Field : MultipleOf(c, f) \in Poly(n)
<1> DEFINE G == {n \in Nat : \A f \in Poly(n), c \in Field : MultipleOf(c, f) \in Poly(n)}
<1>1. 0 \in G
  <2>1. ASSUME NEW f \in Poly(0), NEW c \in Field PROVE MultipleOf(c, f) = [x \in Field |-> 0]
    <3>1. f = [x \in Field |-> 0]
      BY PolyOfNone
    <3>2. c (.) 0 = 0
      BY Products
    <3> QED BY <3>1, <3>2 DEF MultipleOf
  <2> QED BY <2>1, PolyOfNone
<1>2. ASSUME NEW n \in Nat, n \in G PROVE n + 1 \in G
  <2> SUFFICES ASSUME NEW f \in Poly(n + 1), NEW c \in Field
               PROVE  MultipleOf(c, f) \in Poly(n + 1)
    OBVIOUS
  <2>1. PICK d \in Field, p \in Poly(n) : Shifted(f, d, p)
    BY PolySplits
  <2>2. PICK s \in Poly(n) : s = MultipleOf(c, p)
    BY <1>2
  <2>3. p \in [Field -> Field]
    BY PolyIsTyped
  <2>4. n + 1 \in Nat
    OBVIOUS
  <2>5. f \in [Field -> Field]
    BY <2>4, PolyIsTyped
  <2>6. PICK r \in [Field -> Field] : r = MultipleOf(c, f)
    <3>1. MultipleOf(c, f) \in [Field -> Field]
      BY <2>5, Products DEF MultipleOf
    <3> QED BY <3>1
  <2>7. ASSUME NEW x \in Field PROVE r[x] = (c (.) d) (+) (x (.) s[x])
    <3>1. PICK a \in Field : a = p[x]
      BY <2>3
    <3>2. r[x] = c (.) (d (+) (x (.) a))
      BY <2>1, <2>6, <3>1 DEF Shifted, MultipleOf
    <3>3. x (.) a \in Field
      BY Products
    <3>4. r[x] = (c (.) d) (+) (c (.) (x (.) a))
      BY <3>2, <3>3, ProductsDistribute
    <3>5. c (.) (x (.) a) = x (.) (c (.) a)
      <4>1. c (.) (x (.) a) = (c (.) x) (.) a /\ x (.) (c (.) a) = (x (.) c) (.) a
        BY ProductsAssociate
      <4> QED BY <4>1, Products
    <3>6. s[x] = c (.) a
      BY <2>2, <3>1 DEF MultipleOf
    <3> QED BY <3>4, <3>5, <3>6
  <2>8. c (.) d \in Field /\ Shifted(r, c (.) d, s)
    BY <2>7, Products DEF Shifted
  <2> QED BY <2>6, <2>8, PolyJoins
<1>3. \A n \in Nat : n \in G
  <2> HIDE DEF G
  <2> QED BY <1>1, <1>2, Induction
<1> QED BY <1>3

LEMMA TimesXIsPoly ==
  ASSUME NEW n \in Nat, NEW f \in Poly(n)
  PROVE  TimesX(f) \in Poly(n + 1)
<1>1. f \in [Field -> Field]
  BY PolyIsTyped
<1>2. TimesX(f) \in [Field -> Field]
  BY <1>1, Products DEF TimesX
<1>3. ASSUME NEW x \in Field PROVE TimesX(f)[x] = 0 (+) (x (.) f[x])
  <2>1. x (.) f[x] \in Field
    BY <1>1, Products
  <2> QED BY <2>1, OneInField, Sums DEF TimesX
<1> QED BY <1>2, <1>3, OneInField, PolyJoins DEF Shifted

\* The product with a factor that is zero at a.
WithRoot(a, f) == [x \in Field |-> f[x] (.) (a (+) x)]

LEMMA WithRootIsPoly ==
  ASSUME NEW n \in Nat, NEW f \in Poly(n), NEW a \in Field
  PROVE  WithRoot(a, f) \in Poly(n + 1)
<1>1. f \in [Field -> Field]
  BY PolyIsTyped
<1>2. PICK p \in Poly(n + 1) : p = MultipleOf(a, f)
  BY MultipleIsPoly, PolyGrows
<1>3. PICK q \in Poly(n + 1) : q = TimesX(f)
  BY TimesXIsPoly
<1>4. SumOf(p, q) \in Poly(n + 1)
  BY SumIsPoly
<1>5. ASSUME NEW x \in Field PROVE f[x] (.) (a (+) x) = p[x] (+) q[x]
  <2>1. PICK v \in Field : v = f[x]
    BY <1>1
  <2>2. v (.) (a (+) x) = (v (.) a) (+) (v (.) x)
    BY ProductsDistribute
  <2>3. p[x] = a (.) v /\ q[x] = x (.) v
    BY <1>2, <1>3, <2>1 DEF MultipleOf, TimesX
  <2> QED BY <2>1, <2>2, <2>3, Products
<1>6. WithRoot(a, f) = SumOf(p, q)
  BY <1>5 DEF WithRoot, SumOf
<1> QED BY <1>4, <1>6

-----------------------------------------------------------------------------
(* Roots.                                                                  *)

\* f is its value at y plus (x + y) times r.
Divides(f, y, r) == \A x \in Field : f[x] = f[y] (+) ((x (+) y) (.) r[x])

LEMMA Division ==
  ASSUME NEW n \in Nat, NEW f \in Poly(n + 1), NEW y \in Field
  PROVE  \E r \in Poly(n) : Divides(f, y, r)
<1> DEFINE G == {m \in Nat : \A h \in Poly(m + 1) : \E r \in Poly(m) : Divides(h, y, r)}
<1>1. 0 \in G
  <2>1. ASSUME NEW h \in Poly(0 + 1) PROVE \E r \in Poly(0) : Divides(h, y, r)
    <3>1. PICK c \in Field, g \in Poly(0) : Shifted(h, c, g)
      BY PolySplits
    <3>2. ASSUME NEW x \in Field PROVE h[x] = c
      <4>1. g[x] = 0
        BY PolyOfNone
      <4>2. h[x] = c (+) (x (.) 0) /\ x (.) 0 = 0 /\ c (+) 0 = c
        BY <3>1, <4>1, OneInField, Products, Sums DEF Shifted
      <4> QED BY <4>2
    <3>3. ASSUME NEW x \in Field PROVE h[x] = h[y] (+) ((x (+) y) (.) Zero[x])
      <4>1. x (+) y \in Field
        BY Sums
      <4>2. (x (+) y) (.) 0 = 0 /\ c (+) 0 = c
        BY <4>1, OneInField, Products, Sums
      <4> QED BY <3>2, <4>2 DEF Zero
    <3>4. Divides(h, y, Zero)
      BY <3>3 DEF Divides
    <3> QED BY <3>4, ZeroIsPoly
  <2> QED BY <2>1
<1>2. ASSUME NEW m \in Nat, m \in G PROVE m + 1 \in G
  <2> SUFFICES ASSUME NEW h \in Poly((m + 1) + 1)
               PROVE  \E r \in Poly(m + 1) : Divides(h, y, r)
    OBVIOUS
  <2>1. m + 1 \in Nat
    OBVIOUS
  <2>2. PICK c \in Field, g \in Poly(m + 1) : Shifted(h, c, g)
    BY <2>1, PolySplits
  <2>3. PICK r \in Poly(m) : Divides(g, y, r)
    BY <1>2
  <2>4. g \in [Field -> Field] /\ r \in [Field -> Field]
    BY <2>1, PolyIsTyped
  <2>5. PICK d \in Field : d = g[y]
    BY <2>4
  <2>6. PICK s : s = [x \in Field |-> d (+) (x (.) r[x])]
    OBVIOUS
  <2>7. s \in [Field -> Field]
    <3>1. ASSUME NEW x \in Field PROVE d (+) (x (.) r[x]) \in Field
      <4>1. x (.) r[x] \in Field
        BY <2>4, Products
      <4> QED BY <4>1, Sums
    <3> QED BY <2>6, <3>1
  <2>8. s \in Poly(m + 1)
    BY <2>6, <2>7, PolyJoins DEF Shifted
  <2>9. ASSUME NEW x \in Field PROVE h[x] = h[y] (+) ((x (+) y) (.) s[x])
    <3>1. PICK v \in Field : v = r[x]
      BY <2>4
    <3>2. PICK e \in Field : e = x (+) y
      BY Sums
    <3>3. PICK w \in Field : w = e (.) v
      BY Products
    <3>4. g[x] = d (+) w
      BY <2>3, <2>5, <3>1, <3>2, <3>3 DEF Divides
    <3>5. h[x] = c (+) (x (.) (d (+) w)) /\ h[y] = c (+) (y (.) d)
      BY <2>2, <2>5, <3>4 DEF Shifted
    <3>6. x (.) (d (+) w) = (x (.) d) (+) (x (.) w)
      BY ProductsDistribute
    <3>7. s[x] = d (+) (x (.) v)
      BY <2>6, <3>1
    <3>8. e (.) s[x] = (e (.) d) (+) (e (.) (x (.) v))
      <4>1. x (.) v \in Field
        BY Products
      <4> QED BY <3>7, <4>1, ProductsDistribute
    <3>9. e (.) (x (.) v) = x (.) w
      <4>1. e (.) (x (.) v) = (e (.) x) (.) v /\ x (.) (e (.) v) = (x (.) e) (.) v
        BY ProductsAssociate
      <4>2. e (.) x = x (.) e
        BY Products
      <4> QED BY <3>3, <4>1, <4>2
    <3>10. e (.) d = (x (.) d) (+) (y (.) d)
      BY <3>2, ProductsDistribute
    <3>11. PICK xd \in Field : xd = x (.) d
      BY Products
    <3>12. PICK yd \in Field : yd = y (.) d
      BY Products
    <3>13. PICK xw \in Field : xw = x (.) w
      BY Products
    <3>14. h[x] = c (+) (xd (+) xw) /\ h[y] = c (+) yd /\ e (.) s[x] = (xd (+) yd) (+) xw
      BY <3>5, <3>6, <3>8, <3>9, <3>10, <3>11, <3>12, <3>13
    <3>15. (c (+) yd) (+) ((xd (+) yd) (+) xw) = c (+) (xd (+) xw)
      <4>1. xd (+) yd \in Field /\ xd (+) xw \in Field /\ (xd (+) yd) (+) xw \in Field
        BY Sums
      <4>2. (c (+) yd) (+) ((xd (+) yd) (+) xw) = c (+) (yd (+) ((xd (+) yd) (+) xw))
        BY <4>1, SumsAssociate
      <4>3. (xd (+) yd) (+) xw = yd (+) (xd (+) xw)
        <5>1. xd (+) yd = yd (+) xd
          BY Sums
        <5> QED BY <5>1, SumsAssociate
      <4>4. yd (+) (yd (+) (xd (+) xw)) = xd (+) xw
        BY <4>1, Sums
      <4> QED BY <4>2, <4>3, <4>4
    <3> QED BY <3>2, <3>14, <3>15
  <2>10. Divides(h, y, s)
    BY <2>9 DEF Divides
  <2> QED BY <2>8, <2>10
<1>3. \A m \in Nat : m \in G
  <2> HIDE DEF G
  <2> QED BY <1>1, <1>2, Induction
<1> QED BY <1>3

\* No polynomial has as many roots as coefficients but the one that is zero.
LEMMA RootsDetermine ==
  \A n \in Nat : \A f \in Poly(n), xs \in [1..n -> Field] :
    /\ \A i, j \in 1..n : xs[i] = xs[j] => i = j
    /\ \A i \in 1..n : f[xs[i]] = 0
    => f = Zero
<1> DEFINE Distinct(xs, n) == \A i, j \in 1..n : xs[i] = xs[j] => i = j
           Roots(f, xs, n) == \A i \in 1..n : f[xs[i]] = 0
           G == {n \in Nat : \A f \in Poly(n), xs \in [1..n -> Field] :
                               Distinct(xs, n) /\ Roots(f, xs, n) => f = Zero}
<1>1. 0 \in G
  BY PolyOfNone DEF Zero
<1>2. ASSUME NEW n \in Nat, n \in G PROVE n + 1 \in G
  <2> SUFFICES ASSUME NEW f \in Poly(n + 1), NEW xs \in [1..(n + 1) -> Field],
                      Distinct(xs, n + 1), Roots(f, xs, n + 1)
               PROVE  f = Zero
    OBVIOUS
  <2>1. PICK y \in Field : y = xs[n + 1] /\ f[y] = 0
    <3>1. n + 1 \in 1..(n + 1)
      OBVIOUS
    <3> QED BY <3>1
  <2>2. PICK r \in Poly(n) : Divides(f, y, r)
    BY Division
  <2>3. r \in [Field -> Field]
    BY PolyIsTyped
  <2>4. ASSUME NEW x \in Field PROVE f[x] = (x (+) y) (.) r[x]
    <3>1. PICK v \in Field : v = (x (+) y) (.) r[x]
      BY <2>3, Sums, Products
    <3>2. f[x] = 0 (+) v
      BY <2>1, <2>2, <3>1 DEF Divides
    <3> QED BY <3>1, <3>2, OneInField, Sums
  <2>5. PICK ys \in [1..n -> Field] : ys = [i \in 1..n |-> xs[i]]
    <3>1. \A i \in 1..n : i \in 1..(n + 1)
      OBVIOUS
    <3> QED BY <3>1
  <2>6. Distinct(ys, n)
    <3>1. \A i \in 1..n : i \in 1..(n + 1)
      OBVIOUS
    <3> QED BY <2>5, <3>1
  <2>7. ASSUME NEW i \in 1..n PROVE r[ys[i]] = 0
    <3>1. i \in 1..(n + 1) /\ n + 1 \in 1..(n + 1) /\ i # n + 1
      OBVIOUS
    <3>2. PICK x \in Field : x = xs[i] /\ x = ys[i]
      BY <2>5, <3>1
    <3>3. x # y /\ f[x] = 0
      BY <2>1, <3>1, <3>2
    <3>4. x (+) y \in Field /\ x (+) y # 0
      BY <3>3, Sums
    <3>5. (x (+) y) (.) r[x] = 0 /\ r[x] \in Field
      BY <2>3, <2>4, <3>3
    <3> QED BY <3>2, <3>4, <3>5, Products
  <2>8. r = Zero
    BY <1>2, <2>6, <2>7
  <2>9. ASSUME NEW x \in Field PROVE f[x] = 0
    <3>1. x (+) y \in Field
      BY Sums
    <3> QED BY <2>4, <2>8, <3>1, Products DEF Zero
  <2>10. f \in [Field -> Field]
    <3>1. n + 1 \in Nat
      OBVIOUS
    <3> QED BY <3>1, PolyIsTyped
  <2> QED BY <2>9, <2>10 DEF Zero
<1>3. \A n \in Nat : n \in G
  <2> HIDE DEF G
  <2> QED BY <1>1, <1>2, Induction
<1> QED BY <1>3

-----------------------------------------------------------------------------
(* Products and totals of sequences.                                       *)

Prefix(s, n) == [m \in 1..n |-> s[m]]

LEMMA PrefixIsTyped ==
  ASSUME NEW n \in Nat, NEW s \in [1..(n + 1) -> Field]
  PROVE  /\ Prefix(s, n) \in [1..n -> Field]
         /\ s[n + 1] \in Field
         /\ \A m \in 1..n : m \in 1..(n + 1) /\ Prefix(s, n)[m] = s[m]
<1>1. \A m \in 1..n : m \in 1..(n + 1)
  OBVIOUS
<1>2. n + 1 \in 1..(n + 1)
  OBVIOUS
<1> QED BY <1>1, <1>2 DEF Prefix

\* The rounds of the product.
Product(p, factors, j) ==
  p = [m \in 0..Len(factors) |->
         IF m = 0 THEN 1
         ELSE IF m = j THEN p[m - 1] ELSE GfMul(p[m - 1], factors[m])]

IsProduct(p, factors, j, n) ==
  /\ p[0] = 1 /\ ProductBut(factors, j) = p[n]
  /\ \A m \in 1..n : p[m] = IF m = j THEN p[m - 1] ELSE p[m - 1] (.) factors[m]

LEMMA ProductIsDefined ==
  ASSUME NEW n \in Nat, NEW factors \in [1..n -> Field], NEW j
  PROVE  \E p \in [0..n -> Field] : IsProduct(p, factors, j, n)
<1>1. Len(factors) = n
  OBVIOUS
<1> DEFINE step == [k \in Nat |-> [v \in Field |->
                      IF k = j THEN v ELSE GfMul(v, IF k \in 1..n THEN factors[k] ELSE 0)]]
<1>2. step \in [Nat -> [Field -> Field]]
  <2>1. ASSUME NEW k \in Nat, NEW v \in Field
        PROVE  GfMul(v, IF k \in 1..n THEN factors[k] ELSE 0) \in Field
    <3>1. (IF k \in 1..n THEN factors[k] ELSE 0) \in Field
      BY OneInField
    <3> QED BY <3>1, ProductInField
  <2> QED BY <2>1
<1>3. PICK p \in [0..n -> Field] : Rounds(p, 1, step, n)
  <2> HIDE DEF step
  <2> QED BY <1>2, OneInField, LoopIsDefined
<1>4. ASSUME NEW k \in 0..n
      PROVE  p[k] = IF k = 0 THEN 1 ELSE IF k = j THEN p[k - 1] ELSE GfMul(p[k - 1], factors[k])
  <2>1. p[k] = IF k = 0 THEN 1 ELSE step[k][p[k - 1]]
    <3> HIDE DEF step
    <3> QED BY <1>3 DEF Rounds
  <2>2. ASSUME k # 0
        PROVE  step[k][p[k - 1]] = IF k = j THEN p[k - 1] ELSE GfMul(p[k - 1], factors[k])
    <3>1. p[k - 1] \in Field /\ k \in 1..n
      BY <2>2
    <3> QED BY <3>1
  <2> QED BY <2>1, <2>2
<1> HIDE DEF step
<1>5. p = [k \in 0..n |-> p[k]]
  OBVIOUS
<1>6. Product(p, factors, j)
  BY <1>1, <1>4, <1>5, Zenon DEF Product
<1>7. PICK q : Product(q, factors, j) /\ ProductBut(factors, j) = q[n]
  BY <1>1, <1>6, Zenon DEF ProductBut, Product
<1>8. \A k \in 0..n :
        q[k] = IF k = 0 THEN 1 ELSE IF k = j THEN q[k - 1] ELSE GfMul(q[k - 1], factors[k])
  BY <1>1, <1>7 DEF Product
<1> DEFINE G == {k \in Nat : k <= n => q[k] = p[k]}
<1>9. 0 \in G
  BY <1>4, <1>8
<1>10. ASSUME NEW k \in Nat, k \in G PROVE k + 1 \in G
  <2> SUFFICES ASSUME k + 1 <= n PROVE q[k + 1] = p[k + 1]
    OBVIOUS
  <2>1. PICK l \in 0..n : l = k + 1 /\ l # 0 /\ l - 1 = k
    OBVIOUS
  <2>2. q[k] = p[k]
    BY <1>10
  <2> QED BY <1>4, <1>8, <2>1, <2>2
<1>11. \A k \in Nat : k \in G
  <2> HIDE DEF G
  <2> QED BY <1>9, <1>10, Induction
<1>12. q[n] = p[n]
  BY <1>11
<1>13. p[0] = 1 /\ \A m \in 1..n : p[m] = IF m = j THEN p[m - 1] ELSE p[m - 1] (.) factors[m]
  BY <1>4 DEF (.)
<1> QED BY <1>7, <1>12, <1>13 DEF IsProduct

\* Two such loops agree as long as their factors do.
LEMMA ProductUnfolds ==
  ASSUME NEW n \in Nat, NEW factors \in [1..(n + 1) -> Field], NEW j
  PROVE  /\ ProductBut(Prefix(factors, n), j) \in Field
         /\ ProductBut(factors, j) =
              IF n + 1 = j THEN ProductBut(Prefix(factors, n), j)
              ELSE ProductBut(Prefix(factors, n), j) (.) factors[n + 1]
<1>1. PICK pre \in [1..n -> Field] :
        pre = Prefix(factors, n) /\ \A m \in 1..n : m \in 1..(n + 1) /\ pre[m] = factors[m]
  BY PrefixIsTyped
<1>2. PICK p \in [0..(n + 1) -> Field] :
        /\ p[0] = 1 /\ ProductBut(factors, j) = p[n + 1]
        /\ \A m \in 1..(n + 1) : p[m] = IF m = j THEN p[m - 1] ELSE p[m - 1] (.) factors[m]
  <2>1. n + 1 \in Nat
    OBVIOUS
  <2>2. PICK p \in [0..(n + 1) -> Field] : IsProduct(p, factors, j, n + 1)
    BY <2>1, ProductIsDefined
  <2> QED BY <2>2 DEF IsProduct
<1>3. PICK q \in [0..n -> Field] :
        /\ q[0] = 1 /\ ProductBut(pre, j) = q[n]
        /\ \A m \in 1..n : q[m] = IF m = j THEN q[m - 1] ELSE q[m - 1] (.) pre[m]
  <2>1. PICK q \in [0..n -> Field] : IsProduct(q, pre, j, n)
    BY ProductIsDefined
  <2> QED BY <2>1 DEF IsProduct
<1> DEFINE G == {k \in Nat : k <= n => q[k] = p[k]}
<1>4. 0 \in G
  BY <1>2, <1>3
<1>5. ASSUME NEW k \in Nat, k \in G PROVE k + 1 \in G
  <2> SUFFICES ASSUME k + 1 <= n PROVE q[k + 1] = p[k + 1]
    OBVIOUS
  <2>1. PICK l \in 1..n : l = k + 1 /\ l - 1 = k /\ l \in 1..(n + 1) /\ pre[l] = factors[l]
    BY <1>1
  <2>2. q[k] = p[k]
    BY <1>5
  <2> QED BY <1>2, <1>3, <2>1, <2>2
<1>6. \A k \in Nat : k \in G
  <2> HIDE DEF G
  <2> QED BY <1>4, <1>5, Induction
<1>7. q[n] = p[n] /\ q[n] \in Field
  BY <1>6
<1>8. n + 1 \in 1..(n + 1) /\ (n + 1) - 1 = n
  OBVIOUS
<1>9. p[n + 1] = IF n + 1 = j THEN p[n] ELSE p[n] (.) factors[n + 1]
  BY <1>2, <1>8
<1> QED BY <1>1, <1>2, <1>3, <1>7, <1>9

LEMMA ProductOfNone ==
  ASSUME NEW factors \in [1..0 -> Field], NEW j
  PROVE  ProductBut(factors, j) = 1
<1>1. PICK p \in [0..0 -> Field] : IsProduct(p, factors, j, 0)
  BY ProductIsDefined
<1> QED BY <1>1 DEF IsProduct

LEMMA ProductIsTyped ==
  ASSUME NEW n \in Nat, NEW factors \in [1..n -> Field], NEW j
  PROVE  ProductBut(factors, j) \in Field
<1>1. PICK p \in [0..n -> Field] : IsProduct(p, factors, j, n)
  BY ProductIsDefined
<1> QED BY <1>1 DEF IsProduct

\* A product is zero when a factor that is not left out is, and only then.
LEMMA ProductIsZero ==
  \A n \in Nat : \A factors \in [1..n -> Field], j \in Nat :
    ProductBut(factors, j) = 0 <=> \E m \in 1..n : m # j /\ factors[m] = 0
<1> DEFINE ZeroAt(factors, n, j) == \E m \in 1..n : m # j /\ factors[m] = 0
           G == {n \in Nat : \A factors \in [1..n -> Field], j \in Nat :
                               ProductBut(factors, j) = 0 <=> ZeroAt(factors, n, j)}
<1>1. 0 \in G
  BY ProductOfNone
<1>2. ASSUME NEW n \in Nat, n \in G PROVE n + 1 \in G
  <2> SUFFICES ASSUME NEW factors \in [1..(n + 1) -> Field], NEW j \in Nat
               PROVE  ProductBut(factors, j) = 0 <=> ZeroAt(factors, n + 1, j)
    OBVIOUS
  <2>1. PICK pre \in [1..n -> Field] :
          pre = Prefix(factors, n) /\ \A m \in 1..n : m \in 1..(n + 1) /\ pre[m] = factors[m]
    BY PrefixIsTyped
  <2>2. PICK a \in Field : a = ProductBut(pre, j)
    BY ProductIsTyped
  <2>3. PICK b \in Field : b = factors[n + 1]
    BY PrefixIsTyped
  <2>4. ProductBut(factors, j) = IF n + 1 = j THEN a ELSE a (.) b
    BY <2>1, <2>2, <2>3, ProductUnfolds
  <2>5. a = 0 <=> ZeroAt(pre, n, j)
    BY <1>2, <2>2
  <2>6. ZeroAt(factors, n + 1, j) <=> ZeroAt(pre, n, j) \/ (n + 1 # j /\ b = 0)
    <3>1. \A m \in 1..(n + 1) : m \in 1..n \/ m = n + 1
      OBVIOUS
    <3>2. n + 1 \in 1..(n + 1)
      OBVIOUS
    <3> QED BY <2>1, <2>3, <3>1, <3>2
  <2>7. a (.) b = 0 <=> a = 0 \/ b = 0
    BY Products
  <2> QED BY <2>4, <2>5, <2>6, <2>7
<1>3. \A n \in Nat : n \in G
  <2> HIDE DEF G
  <2> QED BY <1>1, <1>2, Induction
<1> QED BY <1>3

\* The rounds of a total.
TotalRounds(b, terms) ==
  b = [k \in 0..Len(terms) |-> IF k = 0 THEN 0 ELSE Xor(b[k - 1], terms[k])]

IsTotal(b, terms, n) ==
  /\ b[0] = 0 /\ Total(terms) = b[n]
  /\ \A m \in 1..n : b[m] = b[m - 1] (+) terms[m]

LEMMA TotalIsDefined ==
  ASSUME NEW n \in Nat, NEW terms \in [1..n -> Field]
  PROVE  \E b \in [0..n -> Field] : IsTotal(b, terms, n)
<1>1. Len(terms) = n
  OBVIOUS
<1> DEFINE step == [k \in Nat |-> [v \in Field |-> Xor(v, IF k \in 1..n THEN terms[k] ELSE 0)]]
<1>2. step \in [Nat -> [Field -> Field]]
  <2>1. ASSUME NEW k \in Nat, NEW v \in Field
        PROVE  Xor(v, IF k \in 1..n THEN terms[k] ELSE 0) \in Field
    <3>1. (IF k \in 1..n THEN terms[k] ELSE 0) \in Field
      BY OneInField
    <3> QED BY <3>1, XorInField
  <2> QED BY <2>1
<1>3. PICK b \in [0..n -> Field] : Rounds(b, 0, step, n)
  <2> HIDE DEF step
  <2> QED BY <1>2, OneInField, LoopIsDefined
<1>4. ASSUME NEW k \in 0..n
      PROVE  b[k] = IF k = 0 THEN 0 ELSE Xor(b[k - 1], terms[k])
  <2>1. b[k] = IF k = 0 THEN 0 ELSE step[k][b[k - 1]]
    <3> HIDE DEF step
    <3> QED BY <1>3 DEF Rounds
  <2>2. ASSUME k # 0 PROVE step[k][b[k - 1]] = Xor(b[k - 1], terms[k])
    <3>1. b[k - 1] \in Field /\ k \in 1..n
      BY <2>2
    <3> QED BY <3>1
  <2> QED BY <2>1, <2>2
<1> HIDE DEF step
<1>5. b = [k \in 0..n |-> b[k]]
  OBVIOUS
<1>6. TotalRounds(b, terms)
  BY <1>1, <1>4, <1>5, Zenon DEF TotalRounds
<1>7. PICK c : TotalRounds(c, terms) /\ Total(terms) = c[n]
  BY <1>1, <1>6, Zenon DEF Total, TotalRounds
<1>8. \A k \in 0..n : c[k] = IF k = 0 THEN 0 ELSE Xor(c[k - 1], terms[k])
  BY <1>1, <1>7 DEF TotalRounds
<1> DEFINE G == {k \in Nat : k <= n => c[k] = b[k]}
<1>9. 0 \in G
  BY <1>4, <1>8
<1>10. ASSUME NEW k \in Nat, k \in G PROVE k + 1 \in G
  <2> SUFFICES ASSUME k + 1 <= n PROVE c[k + 1] = b[k + 1]
    OBVIOUS
  <2>1. PICK l \in 0..n : l = k + 1 /\ l # 0 /\ l - 1 = k
    OBVIOUS
  <2>2. c[k] = b[k]
    BY <1>10
  <2> QED BY <1>4, <1>8, <2>1, <2>2
<1>11. \A k \in Nat : k \in G
  <2> HIDE DEF G
  <2> QED BY <1>9, <1>10, Induction
<1>12. c[n] = b[n]
  BY <1>11
<1>13. b[0] = 0 /\ \A m \in 1..n : b[m] = b[m - 1] (+) terms[m]
  BY <1>4 DEF (+)
<1> QED BY <1>7, <1>12, <1>13 DEF IsTotal

LEMMA TotalUnfolds ==
  ASSUME NEW n \in Nat, NEW terms \in [1..(n + 1) -> Field]
  PROVE  Total(terms) = Total(Prefix(terms, n)) (+) terms[n + 1]
<1>1. PICK pre \in [1..n -> Field] :
        pre = Prefix(terms, n) /\ \A m \in 1..n : m \in 1..(n + 1) /\ pre[m] = terms[m]
  BY PrefixIsTyped
<1>2. PICK b \in [0..(n + 1) -> Field] :
        /\ b[0] = 0 /\ Total(terms) = b[n + 1]
        /\ \A m \in 1..(n + 1) : b[m] = b[m - 1] (+) terms[m]
  <2>1. n + 1 \in Nat
    OBVIOUS
  <2>2. PICK b \in [0..(n + 1) -> Field] : IsTotal(b, terms, n + 1)
    BY <2>1, TotalIsDefined
  <2> QED BY <2>2 DEF IsTotal
<1>3. PICK c \in [0..n -> Field] :
        /\ c[0] = 0 /\ Total(pre) = c[n]
        /\ \A m \in 1..n : c[m] = c[m - 1] (+) pre[m]
  <2>1. PICK c \in [0..n -> Field] : IsTotal(c, pre, n)
    BY TotalIsDefined
  <2> QED BY <2>1 DEF IsTotal
<1> DEFINE G == {k \in Nat : k <= n => c[k] = b[k]}
<1>4. 0 \in G
  BY <1>2, <1>3
<1>5. ASSUME NEW k \in Nat, k \in G PROVE k + 1 \in G
  <2> SUFFICES ASSUME k + 1 <= n PROVE c[k + 1] = b[k + 1]
    OBVIOUS
  <2>1. PICK l \in 1..n : l = k + 1 /\ l - 1 = k /\ l \in 1..(n + 1) /\ pre[l] = terms[l]
    BY <1>1
  <2>2. c[k] = b[k]
    BY <1>5
  <2> QED BY <1>2, <1>3, <2>1, <2>2
<1>6. \A k \in Nat : k \in G
  <2> HIDE DEF G
  <2> QED BY <1>4, <1>5, Induction
<1>7. c[n] = b[n]
  BY <1>6
<1>8. n + 1 \in 1..(n + 1) /\ (n + 1) - 1 = n
  OBVIOUS
<1> QED BY <1>1, <1>2, <1>3, <1>7, <1>8

LEMMA TotalOfNone ==
  ASSUME NEW terms \in [1..0 -> Field]
  PROVE  Total(terms) = 0
<1>1. PICK b \in [0..0 -> Field] : IsTotal(b, terms, 0)
  BY TotalIsDefined
<1> QED BY <1>1 DEF IsTotal

LEMMA TotalIsTyped ==
  ASSUME NEW n \in Nat, NEW terms \in [1..n -> Field]
  PROVE  Total(terms) \in Field
<1>1. PICK b \in [0..n -> Field] : IsTotal(b, terms, n)
  BY TotalIsDefined
<1> QED BY <1>1 DEF IsTotal

\* The total of terms that are zero but one at most.
LEMMA TotalOfOne ==
  \A n \in Nat : \A terms \in [1..n -> Field], i \in Nat :
    (\A m \in 1..n : m # i => terms[m] = 0) =>
      Total(terms) = IF i \in 1..n THEN terms[i] ELSE 0
<1> DEFINE ZeroBut(terms, n, i) == \A m \in 1..n : m # i => terms[m] = 0
           G == {n \in Nat : \A terms \in [1..n -> Field], i \in Nat :
                   ZeroBut(terms, n, i) => Total(terms) = IF i \in 1..n THEN terms[i] ELSE 0}
<1>1. 0 \in G
  BY TotalOfNone
<1>2. ASSUME NEW n \in Nat, n \in G PROVE n + 1 \in G
  <2> SUFFICES ASSUME NEW terms \in [1..(n + 1) -> Field], NEW i \in Nat,
                      ZeroBut(terms, n + 1, i)
               PROVE  Total(terms) = IF i \in 1..(n + 1) THEN terms[i] ELSE 0
    OBVIOUS
  <2>1. PICK pre \in [1..n -> Field] :
          pre = Prefix(terms, n) /\ \A m \in 1..n : m \in 1..(n + 1) /\ pre[m] = terms[m]
    BY PrefixIsTyped
  <2>2. PICK b \in Field : b = terms[n + 1]
    BY PrefixIsTyped
  <2>3. ZeroBut(pre, n, i)
    BY <2>1
  <2>4. PICK a \in Field : a = Total(pre) /\ a = IF i \in 1..n THEN pre[i] ELSE 0
    BY <1>2, <2>3, TotalIsTyped
  <2>5. Total(terms) = a (+) b
    BY <2>1, <2>2, <2>4, TotalUnfolds
  <2>6. n + 1 \in 1..(n + 1)
    OBVIOUS
  <2>7. CASE i = n + 1
    <3>1. a = 0 /\ i \in 1..(n + 1) /\ terms[i] = b
      BY <2>2, <2>4, <2>6, <2>7
    <3> QED BY <2>5, <3>1, Sums
  <2>8. CASE i # n + 1
    <3>1. b = 0 /\ (i \in 1..(n + 1) <=> i \in 1..n)
      BY <2>2, <2>6, <2>8
    <3>2. a (+) b = a
      BY <3>1, Sums
    <3> QED BY <2>1, <2>4, <2>5, <3>1, <3>2
  <2> QED BY <2>7, <2>8
<1>3. \A n \in Nat : n \in G
  <2> HIDE DEF G
  <2> QED BY <1>1, <1>2, Induction
<1> QED BY <1>3

-----------------------------------------------------------------------------
(* Interpolation.                                                          *)

\* The factors of a Lagrange polynomial at z.
Factors(xs, n, z) == [m \in 1..n |-> xs[m] (+) z]

Numerator(xs, n, j) == [z \in Field |-> ProductBut(Factors(xs, n, z), j)]

LEMMA FactorsAreTyped ==
  ASSUME NEW n \in Nat, NEW xs \in [1..n -> Field], NEW z \in Field
  PROVE  Factors(xs, n, z) \in [1..n -> Field]
BY Sums DEF Factors

LEMMA NumeratorIsPoly ==
  \A n \in Nat : \A xs \in [1..n -> Field], j \in Nat :
    Numerator(xs, n, j) \in Poly(IF j \in 1..n THEN n ELSE n + 1)
<1> DEFINE G == {n \in Nat : \A xs \in [1..n -> Field], j \in Nat :
                   Numerator(xs, n, j) \in Poly(IF j \in 1..n THEN n ELSE n + 1)}
<1>1. 0 \in G
  <2>1. ASSUME NEW xs \in [1..0 -> Field], NEW j \in Nat
        PROVE  Numerator(xs, 0, j) \in Poly(0 + 1)
    <3>1. ASSUME NEW z \in Field PROVE ProductBut(Factors(xs, 0, z), j) = 1
      <4>1. Factors(xs, 0, z) \in [1..0 -> Field]
        BY FactorsAreTyped
      <4> QED BY <4>1, ProductOfNone
    <3>2. Numerator(xs, 0, j) = [z \in Field |-> 1]
      BY <3>1 DEF Numerator
    <3> QED BY <3>2, ConstantIsPoly, OneInField
  <2>2. \A j \in Nat : j \notin 1..0
    OBVIOUS
  <2> QED BY <2>1, <2>2
<1>2. ASSUME NEW n \in Nat, n \in G PROVE n + 1 \in G
  <2> SUFFICES ASSUME NEW xs \in [1..(n + 1) -> Field], NEW j \in Nat
               PROVE  Numerator(xs, n + 1, j)
                        \in Poly(IF j \in 1..(n + 1) THEN n + 1 ELSE (n + 1) + 1)
    OBVIOUS
  <2>1. PICK pre \in [1..n -> Field] :
          pre = Prefix(xs, n) /\ \A m \in 1..n : m \in 1..(n + 1) /\ pre[m] = xs[m]
    BY PrefixIsTyped
  <2>2. PICK a \in Field : a = xs[n + 1]
    BY PrefixIsTyped
  <2>3. PICK d \in Nat : d = IF j \in 1..n THEN n ELSE n + 1
    OBVIOUS
  <2>4. PICK g \in Poly(d) : g = Numerator(pre, n, j)
    BY <1>2, <2>3
  <2>5. ASSUME NEW z \in Field
        PROVE  ProductBut(Factors(xs, n + 1, z), j) =
                 IF n + 1 = j THEN g[z] ELSE g[z] (.) (a (+) z)
    <3>1. PICK fs \in [1..(n + 1) -> Field] : fs = Factors(xs, n + 1, z)
      <4>1. n + 1 \in Nat
        OBVIOUS
      <4> QED BY <4>1, FactorsAreTyped
    <3>2. n + 1 \in 1..(n + 1)
      OBVIOUS
    <3>3. fs[n + 1] = a (+) z
      BY <2>2, <3>1, <3>2 DEF Factors
    <3>4. Prefix(fs, n) = Factors(pre, n, z)
      <4>1. ASSUME NEW m \in 1..n PROVE fs[m] = pre[m] (+) z
        BY <2>1, <3>1 DEF Factors
      <4> QED BY <4>1 DEF Prefix, Factors
    <3>5. g[z] = ProductBut(Prefix(fs, n), j)
      BY <2>4, <3>4 DEF Numerator
    <3> QED BY <3>1, <3>3, <3>5, ProductUnfolds
  <2>6. CASE n + 1 = j
    <3>1. d = n + 1 /\ j \in 1..(n + 1)
      BY <2>3, <2>6
    <3>2. g \in [Field -> Field]
      BY PolyIsTyped
    <3>3. Numerator(xs, n + 1, j) = g
      BY <2>5, <2>6, <3>2 DEF Numerator
    <3> QED BY <3>1, <3>3
  <2>7. CASE n + 1 # j
    <3>1. Numerator(xs, n + 1, j) = WithRoot(a, g)
      BY <2>5, <2>7 DEF Numerator, WithRoot
    <3>2. WithRoot(a, g) \in Poly(d + 1)
      BY WithRootIsPoly
    <3>3. d + 1 = IF j \in 1..(n + 1) THEN n + 1 ELSE (n + 1) + 1
      BY <2>3, <2>7
    <3> QED BY <3>1, <3>2, <3>3
  <2> QED BY <2>6, <2>7
<1>3. \A n \in Nat : n \in G
  <2> HIDE DEF G
  <2> QED BY <1>1, <1>2, Induction
<1> QED BY <1>3

\* The total of polynomials.
TotalOf(parts, n) == [z \in Field |-> Total([j \in 1..n |-> parts[j][z]])]

LEMMA TotalIsPoly ==
  ASSUME NEW t \in Nat
  PROVE  \A n \in Nat : \A parts \in [1..n -> Poly(t)] : TotalOf(parts, n) \in Poly(t)
<1> DEFINE G == {n \in Nat : \A parts \in [1..n -> Poly(t)] : TotalOf(parts, n) \in Poly(t)}
<1>1. 0 \in G
  <2>1. ASSUME NEW parts \in [1..0 -> Poly(t)] PROVE TotalOf(parts, 0) \in Poly(t)
    <3>1. ASSUME NEW z \in Field PROVE Total([j \in 1..0 |-> parts[j][z]]) = 0
      <4>1. [j \in 1..0 |-> parts[j][z]] \in [1..0 -> Field]
        OBVIOUS
      <4> QED BY <4>1, TotalOfNone
    <3>2. TotalOf(parts, 0) = Zero
      BY <3>1 DEF TotalOf, Zero
    <3> QED BY <3>2, ZeroIsPoly
  <2> QED BY <2>1
<1>2. ASSUME NEW n \in Nat, n \in G PROVE n + 1 \in G
  <2> SUFFICES ASSUME NEW parts \in [1..(n + 1) -> Poly(t)]
               PROVE  TotalOf(parts, n + 1) \in Poly(t)
    OBVIOUS
  <2>1. \A m \in 1..n : m \in 1..(n + 1)
    OBVIOUS
  <2>2. PICK pre \in [1..n -> Poly(t)] : pre = [m \in 1..n |-> parts[m]]
    BY <2>1
  <2>3. PICK g \in Poly(t) : g = TotalOf(pre, n)
    BY <1>2
  <2>4. PICK h \in Poly(t) : h = parts[n + 1]
    <3>1. n + 1 \in 1..(n + 1)
      OBVIOUS
    <3> QED BY <3>1
  <2>5. ASSUME NEW z \in Field
        PROVE  Total([j \in 1..(n + 1) |-> parts[j][z]]) = g[z] (+) h[z]
    <3>1. PICK terms : terms = [j \in 1..(n + 1) |-> parts[j][z]]
      OBVIOUS
    <3>2. ASSUME NEW j \in 1..(n + 1) PROVE parts[j][z] \in Field
      <4>1. parts[j] \in [Field -> Field]
        BY PolyIsTyped
      <4> QED BY <4>1
    <3>3. terms \in [1..(n + 1) -> Field]
      BY <3>1, <3>2
    <3>4. Total(terms) = Total(Prefix(terms, n)) (+) terms[n + 1]
      BY <3>3, TotalUnfolds
    <3>5. Prefix(terms, n) = [j \in 1..n |-> pre[j][z]]
      <4>1. ASSUME NEW j \in 1..n PROVE terms[j] = pre[j][z]
        BY <2>1, <2>2, <3>1
      <4> QED BY <4>1 DEF Prefix
    <3>6. g[z] = Total([j \in 1..n |-> pre[j][z]])
      BY <2>3 DEF TotalOf
    <3>7. terms[n + 1] = h[z]
      <4>1. n + 1 \in 1..(n + 1)
        OBVIOUS
      <4> QED BY <2>4, <3>1, <4>1
    <3> QED BY <3>1, <3>4, <3>5, <3>6, <3>7
  <2>6. TotalOf(parts, n + 1) = SumOf(g, h)
    BY <2>5 DEF TotalOf, SumOf
  <2> QED BY <2>6, SumIsPoly
<1>3. \A n \in Nat : n \in G
  <2> HIDE DEF G
  <2> QED BY <1>1, <1>2, Induction
<1> QED BY <1>3

Distinct(xs, n) == \A i, j \in 1..n : xs[i] = xs[j] => i = j

\* Zero at all the places but the j-th.
LEMMA NumeratorVanishes ==
  ASSUME NEW t \in Nat, NEW xs \in [1..t -> Field], Distinct(xs, t),
         NEW i \in 1..t, NEW j \in 1..t
  PROVE  Numerator(xs, t, j)[xs[i]] \in Field /\ (Numerator(xs, t, j)[xs[i]] = 0 <=> i # j)
<1>1. PICK z \in Field : z = xs[i]
  OBVIOUS
<1>2. PICK fs \in [1..t -> Field] : fs = Factors(xs, t, z)
  BY FactorsAreTyped
<1>3. j \in Nat
  OBVIOUS
<1>4. ProductBut(fs, j) \in Field
  BY ProductIsTyped
<1>5. ProductBut(fs, j) = 0 <=> \E m \in 1..t : m # j /\ fs[m] = 0
  BY <1>3, ProductIsZero
<1>6. ASSUME NEW m \in 1..t PROVE fs[m] = 0 <=> m = i
  <2>1. fs[m] = xs[m] (+) z /\ xs[m] \in Field
    BY <1>2 DEF Factors
  <2>2. xs[m] (+) z = 0 <=> xs[m] = z
    BY <2>1, Sums
  <2>3. xs[m] = z <=> m = i
    BY <1>1 DEF Distinct
  <2> QED BY <2>1, <2>2, <2>3
<1>7. Numerator(xs, t, j)[z] = ProductBut(fs, j)
  BY <1>2 DEF Numerator
<1> QED BY <1>1, <1>4, <1>5, <1>6, <1>7

Weight(xs, t, j) == GfDiv(1, Numerator(xs, t, j)[xs[j]])

Part(f, xs, t, j) ==
  MultipleOf(f[xs[j]], MultipleOf(Weight(xs, t, j), Numerator(xs, t, j)))

\* The part is the polynomial's value at the j-th place and 0 at the others.
OneOf(xs, t, f, j) ==
  \A i \in 1..t : Part(f, xs, t, j)[xs[i]] = IF i = j THEN f[xs[j]] ELSE 0

\* Its value anywhere, as the scheme's weight of the j-th share.
Weighed(xs, t, f, j) ==
  \A z \in Field : Part(f, xs, t, j)[z] =
                     f[xs[j]] (.) (Weight(xs, t, j) (.) Numerator(xs, t, j)[z])

LEMMA PartIsPoly ==
  ASSUME NEW t \in Nat, NEW xs \in [1..t -> Field], Distinct(xs, t),
         NEW f \in Poly(t), NEW j \in 1..t
  PROVE  /\ Part(f, xs, t, j) \in Poly(t)
         /\ Weight(xs, t, j) \in Field
         /\ OneOf(xs, t, f, j)
         /\ Weighed(xs, t, f, j)
<1>1. PICK y \in Field : y = f[xs[j]]
  BY PolyIsTyped
<1>2. PICK g \in Poly(t) : g = Numerator(xs, t, j)
  <2>1. j \in Nat
    OBVIOUS
  <2> QED BY <2>1, NumeratorIsPoly
<1>3. g \in [Field -> Field]
  BY PolyIsTyped
<1>4. PICK d \in Field : d = g[xs[j]] /\ d # 0
  BY <1>2, NumeratorVanishes
<1>5. PICK w \in Field : w = Weight(xs, t, j) /\ w (.) d = 1
  BY <1>2, <1>4, OneInField, Quotients DEF Weight
<1>6. MultipleOf(w, g) \in Poly(t)
  BY MultipleIsPoly
<1>7. MultipleOf(y, MultipleOf(w, g)) \in Poly(t)
  BY <1>6, MultipleIsPoly
<1>8. Part(f, xs, t, j) = MultipleOf(y, MultipleOf(w, g))
  BY <1>1, <1>2, <1>5 DEF Part
<1>9. ASSUME NEW z \in Field PROVE Part(f, xs, t, j)[z] = y (.) (w (.) g[z])
  BY <1>8 DEF MultipleOf
<1>10. ASSUME NEW i \in 1..t PROVE Part(f, xs, t, j)[xs[i]] = IF i = j THEN y ELSE 0
  <2>1. PICK v \in Field : v = g[xs[i]] /\ (v = 0 <=> i # j)
    BY <1>2, NumeratorVanishes
  <2>2. Part(f, xs, t, j)[xs[i]] = y (.) (w (.) v)
    BY <1>9, <2>1
  <2>3. CASE i = j
    BY <1>4, <1>5, <2>1, <2>2, <2>3, Products
  <2>4. CASE i # j
    BY <2>1, <2>2, <2>4, Products
  <2> QED BY <2>3, <2>4
<1>11. OneOf(xs, t, f, j)
  BY <1>1, <1>10 DEF OneOf
<1>12. Weighed(xs, t, f, j)
  BY <1>1, <1>2, <1>5, <1>9 DEF Weighed
<1> QED BY <1>5, <1>7, <1>8, <1>11, <1>12

\* Polynomials that agree at as many places as they have coefficients.
LEMMA AgreementIsEquality ==
  ASSUME NEW t \in Nat, NEW xs \in [1..t -> Field], Distinct(xs, t),
         NEW f \in Poly(t), NEW g \in Poly(t), \A i \in 1..t : f[xs[i]] = g[xs[i]]
  PROVE  f = g
<1>1. f \in [Field -> Field] /\ g \in [Field -> Field]
  BY PolyIsTyped
<1>2. PICK d \in Poly(t) : d = SumOf(f, g)
  BY SumIsPoly
<1>3. ASSUME NEW i \in 1..t PROVE d[xs[i]] = 0
  <2>1. PICK z \in Field : z = xs[i]
    OBVIOUS
  <2>2. PICK y \in Field : y = f[z] /\ y = g[z]
    BY <1>1, <2>1
  <2>3. d[z] = y (+) y
    BY <1>2, <2>2 DEF SumOf
  <2> QED BY <2>1, <2>3, Sums
<1>4. d = Zero
  BY <1>3, RootsDetermine DEF Distinct
<1>5. ASSUME NEW z \in Field PROVE f[z] = g[z]
  <2>1. f[z] (+) g[z] = 0 /\ f[z] \in Field /\ g[z] \in Field
    BY <1>1, <1>2, <1>4 DEF SumOf, Zero
  <2> QED BY <2>1, Sums
<1> QED BY <1>1, <1>5

\* A polynomial is the total of its parts: both take the same values at as many
\* places as they have coefficients.
LEMMA Interpolation ==
  ASSUME NEW t \in Nat, NEW xs \in [1..t -> Field], Distinct(xs, t), NEW f \in Poly(t)
  PROVE  f = TotalOf([j \in 1..t |-> Part(f, xs, t, j)], t)
<1>1. PICK parts \in [1..t -> Poly(t)] : parts = [j \in 1..t |-> Part(f, xs, t, j)]
  BY PartIsPoly
<1>2. PICK q \in Poly(t) : q = TotalOf(parts, t)
  BY TotalIsPoly
<1>3. f \in [Field -> Field] /\ q \in [Field -> Field]
  BY PolyIsTyped
<1>4. ASSUME NEW i \in 1..t PROVE q[xs[i]] = f[xs[i]]
  <2>1. PICK terms : terms = [j \in 1..t |-> parts[j][xs[i]]]
    OBVIOUS
  <2>2. ASSUME NEW j \in 1..t PROVE terms[j] = IF i = j THEN f[xs[j]] ELSE 0
    <3>1. OneOf(xs, t, f, j)
      BY PartIsPoly
    <3>2. Part(f, xs, t, j)[xs[i]] = IF i = j THEN f[xs[j]] ELSE 0
      BY <3>1 DEF OneOf
    <3>3. parts[j] = Part(f, xs, t, j)
      BY <1>1
    <3>4. terms[j] = parts[j][xs[i]]
      BY <2>1
    <3> QED BY <3>2, <3>3, <3>4
  <2>3. ASSUME NEW j \in 1..t PROVE f[xs[j]] \in Field
    BY <1>3
  <2>4. terms \in [1..t -> Field]
    BY <2>1, <2>2, <2>3, OneInField
  <2>5. i \in Nat /\ \A m \in 1..t : m # i => terms[m] = 0
    BY <2>2
  <2>6. Total(terms) = terms[i]
    BY <2>4, <2>5, TotalOfOne
  <2>7. q[xs[i]] = Total(terms)
    BY <1>2, <2>1 DEF TotalOf
  <2> QED BY <2>2, <2>6, <2>7
<1>5. f = q
  BY <1>4, AgreementIsEquality
<1> QED BY <1>1, <1>2, <1>5

-----------------------------------------------------------------------------
(* The scheme.                                                             *)

\* Shares as the combination reads them: at t places other than 0, the values
\* of a polynomial.
Sampled(use, t, f) ==
  \A i \in 1..t : use[i].x \in 1..Order /\ use[i].y = f[use[i].x]

LEMMA LagrangeIsWeight ==
  ASSUME NEW t \in Nat, NEW use, DOMAIN use = 1..t, Len(use) = t,
         NEW f \in Poly(t), Sampled(use, t, f),
         NEW xs \in [1..t -> Field], xs = [i \in 1..t |-> use[i].x], Distinct(xs, t),
         NEW j \in 1..t
  PROVE  GfMul(use[j].y, Lagrange(use, j)) = Part(f, xs, t, j)[0]
<1>1. PICK w \in Field : w = Weight(xs, t, j)
  BY PartIsPoly
<1>2. PICK den \in Field : den = Numerator(xs, t, j)[xs[j]] /\ den # 0
  <2>1. /\ Numerator(xs, t, j)[xs[j]] \in Field
        /\ Numerator(xs, t, j)[xs[j]] = 0 <=> j # j
    BY NumeratorVanishes
  <2> QED BY <2>1
<1>3. PICK num \in Field : num = ProductBut(xs, j)
  BY ProductIsTyped
<1>4. 0 \in Field
  BY OneInField
<1>5. Numerator(xs, t, j)[0] = num
  <2>1. ASSUME NEW m \in 1..t PROVE xs[m] (+) 0 = xs[m]
    BY Sums
  <2>2. Factors(xs, t, 0) = xs
    BY <2>1 DEF Factors
  <2> QED BY <1>3, <1>4, <2>2 DEF Numerator
<1>6. [m \in 1..Len(use) |-> Xor(use[m].x, use[j].x)] = Factors(xs, t, xs[j])
  <2>1. ASSUME NEW m \in 1..t PROVE Xor(use[m].x, use[j].x) = xs[m] (+) xs[j]
    BY DEF (+)
  <2> QED BY <2>1 DEF Factors
<1>7. ProductBut([m \in 1..Len(use) |-> Xor(use[m].x, use[j].x)], j) = den
  BY <1>2, <1>6 DEF Numerator
<1>8. ProductBut([m \in 1..Len(use) |-> use[m].x], j) = num
  BY <1>3
<1>9. Lagrange(use, j) = GfDiv(num, den)
  BY <1>7, <1>8, Zenon DEF Lagrange
<1>10. GfDiv(num, den) = num (.) w
  BY <1>1, <1>2, QuotientIsProduct DEF Weight
<1>11. num (.) w = w (.) num
  BY Products
<1>12. use[j].y = f[xs[j]]
  BY DEF Sampled
<1>13. Part(f, xs, t, j)[0] = f[xs[j]] (.) (w (.) num)
  <2>1. Weighed(xs, t, f, j)
    BY PartIsPoly
  <2> QED BY <1>1, <1>4, <1>5, <2>1 DEF Weighed
<1> QED BY <1>9, <1>10, <1>11, <1>12, <1>13 DEF (.)

\* As many shares as the threshold give back the value at 0.
LEMMA CombinationIsValueAtZero ==
  ASSUME NEW t \in Nat, NEW use, DOMAIN use = 1..t, Len(use) = t,
         NEW f \in Poly(t), Sampled(use, t, f),
         \A i, j \in 1..t : use[i].x = use[j].x => i = j
  PROVE  Total([j \in 1..Len(use) |-> GfMul(use[j].y, Lagrange(use, j))]) = f[0]
<1>1. PICK xs : xs = [i \in 1..t |-> use[i].x]
  OBVIOUS
<1>2. xs \in [1..t -> Field] /\ Distinct(xs, t)
  BY <1>1, OneInField DEF Sampled, Distinct
<1>3. ASSUME NEW j \in 1..t
      PROVE  GfMul(use[j].y, Lagrange(use, j)) = Part(f, xs, t, j)[0]
  BY <1>1, <1>2, LagrangeIsWeight
<1>4. PICK parts : parts = [j \in 1..t |-> Part(f, xs, t, j)]
  OBVIOUS
<1>5. f = TotalOf(parts, t)
  BY <1>2, <1>4, Interpolation
<1>6. 0 \in Field
  BY OneInField
<1>7. f[0] = Total([j \in 1..t |-> parts[j][0]])
  BY <1>5, <1>6 DEF TotalOf
<1>8. [j \in 1..t |-> parts[j][0]] = [j \in 1..Len(use) |-> GfMul(use[j].y, Lagrange(use, j))]
  BY <1>3, <1>4
<1> QED BY <1>7, <1>8

\* f and g agree at n places.
Agree(f, g, xs, n) == \A i \in 1..n : f[xs[i]] = g[xs[i]]

\* Fewer shares fit every value at 0.
LEMMA FewerFitEveryByte ==
  ASSUME NEW n \in Nat, NEW xs \in [1..n -> 1..Order], NEW f \in Poly(n + 1), NEW s \in Field
  PROVE  \E g \in Poly(n + 1) : g[0] = s /\ Agree(g, f, xs, n)
<1>1. xs \in [1..n -> Field] /\ 0 \in Field
  BY OneInField
<1>2. PICK p \in Poly(n + 1) : p = Numerator(xs, n, 0)
  BY <1>1, NumeratorIsPoly
<1>3. ASSUME NEW z \in Field PROVE p[z] = 0 <=> \E m \in 1..n : xs[m] = z
  <2>1. PICK fs \in [1..n -> Field] : fs = Factors(xs, n, z)
    BY <1>1, FactorsAreTyped
  <2>2. p[z] = ProductBut(fs, 0)
    BY <1>2, <2>1 DEF Numerator
  <2>3. ProductBut(fs, 0) = 0 <=> \E m \in 1..n : m # 0 /\ fs[m] = 0
    BY ProductIsZero
  <2>4. ASSUME NEW m \in 1..n PROVE m # 0 /\ (fs[m] = 0 <=> xs[m] = z)
    <3>1. fs[m] = xs[m] (+) z /\ xs[m] \in Field
      BY <1>1, <2>1 DEF Factors
    <3> QED BY <3>1, Sums
  <2> QED BY <2>2, <2>3, <2>4
<1>4. p \in [Field -> Field] /\ f \in [Field -> Field]
  <2>1. n + 1 \in Nat
    OBVIOUS
  <2> QED BY <2>1, PolyIsTyped
<1>5. PICK d \in Field : d = p[0] /\ d # 0
  <2>1. \A m \in 1..n : xs[m] # 0
    BY FieldIsNat
  <2>2. p[0] \in Field /\ p[0] # 0
    BY <1>1, <1>3, <1>4, <2>1
  <2> QED BY <2>2
<1>6. PICK e \in Field : e = s (+) f[0]
  BY <1>1, <1>4, Sums
<1>7. PICK c \in Field : c (.) d = e
  BY <1>5, Quotients
<1>8. PICK h \in Poly(n + 1) : h = MultipleOf(c, p)
  <2>1. n + 1 \in Nat
    OBVIOUS
  <2> QED BY <2>1, MultipleIsPoly
<1>9. PICK g \in Poly(n + 1) : g = SumOf(f, h)
  <2>1. n + 1 \in Nat
    OBVIOUS
  <2> QED BY <2>1, SumIsPoly
<1>10. g[0] = s
  <2>1. PICK y \in Field : y = f[0]
    BY <1>1, <1>4
  <2>2. g[0] = y (+) (c (.) d)
    BY <1>1, <1>5, <1>8, <1>9, <2>1 DEF SumOf, MultipleOf
  <2>3. y (+) (s (+) y) = s
    <3>1. s (+) y = y (+) s
      BY Sums
    <3> QED BY <3>1, Sums
  <2> QED BY <1>6, <1>7, <2>1, <2>2, <2>3
<1>11. ASSUME NEW i \in 1..n PROVE g[xs[i]] = f[xs[i]]
  <2>1. PICK z \in Field : z = xs[i]
    BY <1>1
  <2>2. p[z] = 0
    BY <1>3, <2>1
  <2>3. PICK y \in Field : y = f[z]
    BY <1>4
  <2>4. g[z] = y (+) (c (.) 0)
    BY <1>8, <1>9, <2>2, <2>3 DEF SumOf, MultipleOf
  <2> QED BY <1>1, <2>1, <2>3, <2>4, Products, Sums
<1> QED BY <1>10, <1>11 DEF Agree

\* n shares of the value that f, of t coefficients, takes at 0.
SharesOfPoly(blobs, n, set, t, f) ==
  /\ DOMAIN blobs = 1..n /\ Len(blobs) = n
  /\ \A i \in 1..n :
       /\ blobs[i].set = set /\ blobs[i].threshold = t
       /\ blobs[i].x \in 1..Order /\ blobs[i].y = f[blobs[i].x]
  /\ \A i, j \in 1..n : blobs[i].x = blobs[j].x => i = j

LEMMA EnoughCombine ==
  ASSUME NEW t \in Nat \ {0}, NEW f \in Poly(t), NEW n \in Nat, n >= t,
         NEW set, NEW blobs, SharesOfPoly(blobs, n, set, t, f)
  PROVE  Combinable(blobs) /\ ShamirCombine(blobs) = f[0]
<1>1. 1 \in 1..n /\ 1 \in 1..t /\ 1..t \subseteq 1..n
  OBVIOUS
<1>2. blobs # <<>>
  BY <1>1 DEF SharesOfPoly
<1>3. Combinable(blobs)
  BY <1>1, <1>2 DEF SharesOfPoly, Combinable
<1>4. PICK use : use = SubSeq(blobs, 1, t)
  OBVIOUS
<1>5. Len(use) = t /\ DOMAIN use = 1..t /\ \A i \in 1..t : use[i] = blobs[i]
  <2> DEFINE S == {blobs[i] : i \in 1..t}
  <2>1. \A i \in 1..t : blobs[i] \in S
    OBVIOUS
  <2>2. 1 \in Int /\ t \in Int /\ 1 <= t /\ t - 1 + 1 = t /\ \A i \in 1..t : 1 + i - 1 = i
    OBVIOUS
  <2> HIDE DEF S
  <2>3. /\ use \in Seq(S)
        /\ Len(use) = t - 1 + 1
        /\ \A i \in 1..(t - 1 + 1) : use[i] = blobs[1 + i - 1]
    BY <1>4, <2>1, <2>2, SubSeqProperties
  <2>4. Len(use) = t /\ \A i \in 1..t : use[i] = blobs[i]
    BY <2>2, <2>3
  <2>5. DOMAIN use = 1..Len(use)
    BY <2>3, LenProperties
  <2> QED BY <2>4, <2>5
<1>6. Sampled(use, t, f)
  BY <1>1, <1>5 DEF SharesOfPoly, Sampled
<1>7. \A i, j \in 1..t : use[i].x = use[j].x => i = j
  BY <1>1, <1>5 DEF SharesOfPoly
<1>8. Total([j \in 1..Len(use) |-> GfMul(use[j].y, Lagrange(use, j))]) = f[0]
  BY <1>5, <1>6, <1>7, CombinationIsValueAtZero
<1>9. blobs[1].threshold = t
  BY <1>1 DEF SharesOfPoly
<1>10. ShamirCombine(blobs) = Total([j \in 1..Len(use) |-> GfMul(use[j].y, Lagrange(use, j))])
  BY <1>4, <1>9 DEF ShamirCombine
<1> QED BY <1>3, <1>8, <1>10

\* The secret first, then what is drawn: the polynomial of a split.
Drawn(secret, coeffs) == <<secret>> \o coeffs
SplitPoly(secret, coeffs) == [x \in Field |-> GfPolyEval(Drawn(secret, coeffs), x)]

IsDrawn(all, secret, coeffs, t) ==
  /\ all \in [1..t -> Field] /\ all[1] = secret
  /\ \A i \in 1..t : i # 1 => all[i] = coeffs[i - 1]

LEMMA DrawnIsTyped ==
  ASSUME NEW t \in Nat \ {0}, NEW secret \in Field, NEW coeffs \in [1..(t - 1) -> Field]
  PROVE  /\ Len(coeffs) + 1 = t
         /\ IsDrawn(Drawn(secret, coeffs), secret, coeffs, t)
<1>1. t - 1 \in Nat /\ (t - 1) + 1 = t
  OBVIOUS
<1>2. coeffs \in Seq(Field) /\ Len(coeffs) = t - 1
  <2>1. coeffs \in Seq(Field)
    BY <1>1, SeqDef
  <2>2. DOMAIN coeffs = 1..(t - 1)
    OBVIOUS
  <2> QED BY <1>1, <2>1, <2>2, LenProperties
<1>3. PICK all : all = Drawn(secret, coeffs)
  OBVIOUS
<1>4. <<secret>> \in Seq(Field) /\ Len(<<secret>>) = 1
  OBVIOUS
<1>5. /\ all \in Seq(Field) /\ Len(all) = t
      /\ \A i \in 1..t : all[i] = IF i <= 1 THEN <<secret>>[i] ELSE coeffs[i - 1]
  BY <1>1, <1>2, <1>3, <1>4, ConcatProperties DEF Drawn
<1>6. all \in [1..t -> Field] /\ all[1] = secret
  <2>1. all \in [1..Len(all) -> Field]
    BY <1>5, LenProperties
  <2> QED BY <1>5, <2>1
<1>7. ASSUME NEW i \in 1..t, i # 1 PROVE all[i] = coeffs[i - 1]
  BY <1>5, <1>7
<1>8. IsDrawn(all, secret, coeffs, t)
  BY <1>6, <1>7 DEF IsDrawn
<1> QED BY <1>1, <1>2, <1>3, <1>8

LEMMA SplitPolyFacts ==
  ASSUME NEW t \in Nat \ {0}, NEW secret \in Field, NEW coeffs \in [1..(t - 1) -> Field]
  PROVE  /\ Len(coeffs) + 1 = t
         /\ SplitPoly(secret, coeffs) \in Poly(t)
         /\ SplitPoly(secret, coeffs)[0] = secret
<1>1. t - 1 \in Nat /\ (t - 1) + 1 = t
  OBVIOUS
<1>2. Len(coeffs) + 1 = t
  BY DrawnIsTyped
<1>3. PICK all \in [1..t -> Field] : all = Drawn(secret, coeffs) /\ all[1] = secret
  BY DrawnIsTyped DEF IsDrawn
<1>4. SplitPoly(secret, coeffs) = [x \in Field |-> GfPolyEval(all, x)]
  BY <1>3 DEF SplitPoly
<1>5. SplitPoly(secret, coeffs) \in Poly(t)
  BY <1>4 DEF Poly
<1>6. GfPolyEval(all, 0) = secret
  <2>1. 0 \in Field
    BY OneInField
  <2>2. all \in [1..((t - 1) + 1) -> Field]
    BY <1>1
  <2>3. GfPolyEval(all, 0) = all[1] (+) (0 (.) GfPolyEval(Higher(all, t - 1), 0))
    BY <1>1, <2>1, <2>2, HornerUnfolds
  <2>4. GfPolyEval(Higher(all, t - 1), 0) \in Field
    <3>1. PICK h \in [1..(t - 1) -> Field] : h = Higher(all, t - 1)
      BY <1>1, <2>2, HigherIsTyped
    <3>2. PICK n \in Nat : n = t - 1
      BY <1>1
    <3>3. h \in [1..n -> Field]
      BY <3>1, <3>2
    <3>4. GfPolyEval(h, 0) \in Field
      BY <2>1, <3>3, HornerInField, Zenon
    <3> QED BY <3>1, <3>4
  <2>5. PICK y \in Field : y = GfPolyEval(Higher(all, t - 1), 0)
    BY <2>4
  <2>6. 0 (.) y = 0
    BY <2>1, <2>5, Products
  <2>7. secret (+) 0 = secret
    BY Sums
  <2> QED BY <1>3, <2>3, <2>5, <2>6, <2>7
<1>7. SplitPoly(secret, coeffs)[0] = secret
  BY <1>4, <1>6, OneInField
<1> QED BY <1>1, <1>2, <1>5, <1>7

Share(set, j, t, y) == [set |-> set, x |-> j, threshold |-> t, y |-> y]

LEMMA ShareFields ==
  ASSUME NEW set, NEW j, NEW t, NEW y
  PROVE  /\ Share(set, j, t, y).set = set /\ Share(set, j, t, y).x = j
         /\ Share(set, j, t, y).threshold = t /\ Share(set, j, t, y).y = y
BY DEF Share

LEMMA ShareFacts ==
  ASSUME NEW t \in Nat \ {0}, NEW secret \in Field, NEW coeffs \in [1..(t - 1) -> Field],
         NEW set, NEW n \in 0..Order, NEW j \in 1..n
  PROVE  ShamirSplit(set, secret, coeffs, n)[j] =
           Share(set, j, t, SplitPoly(secret, coeffs)[j])
<1>1. Len(coeffs) + 1 = t
  BY DrawnIsTyped
<1>2. j \in Field
  BY FieldIsNat
<1>3. SplitPoly(secret, coeffs)[j] = GfPolyEval(<<secret>> \o coeffs, j)
  BY <1>2 DEF SplitPoly, Drawn
<1>4. ShamirSplit(set, secret, coeffs, n)[j] =
        [set |-> set, x |-> j, threshold |-> Len(coeffs) + 1,
         y |-> GfPolyEval(<<secret>> \o coeffs, j)]
  BY DEF ShamirSplit
<1> QED BY <1>1, <1>3, <1>4 DEF Share

\* Every polynomial is that of a split, of its value at 0.
LEMMA PolyIsSplit ==
  ASSUME NEW t \in Nat \ {0}, NEW g \in Poly(t), NEW s \in Field, g[0] = s
  PROVE  \E coeffs \in [1..(t - 1) -> Field] : g = SplitPoly(s, coeffs)
<1>1. PICK n \in Nat : n = t - 1 /\ n + 1 = t
  OBVIOUS
<1>2. PICK all \in [1..t -> Field] : g = [x \in Field |-> GfPolyEval(all, x)]
  BY DEF Poly
<1>3. PICK coeffs \in [1..n -> Field] : coeffs = Higher(all, n)
  BY <1>1, HigherIsTyped
<1>4. all[1] = s
  <2>1. 0 \in Field
    BY OneInField
  <2>2. all \in [1..(n + 1) -> Field]
    BY <1>1
  <2>3. GfPolyEval(all, 0) = all[1] (+) (0 (.) GfPolyEval(coeffs, 0))
    BY <1>3, <2>1, <2>2, HornerUnfolds
  <2>4. GfPolyEval(coeffs, 0) \in Field
    BY <2>1, HornerInField, Zenon
  <2>5. PICK y \in Field : y = GfPolyEval(coeffs, 0)
    BY <2>4
  <2>6. PICK c \in Field : c = all[1]
    BY <1>1
  <2>7. 0 (.) y = 0 /\ c (+) 0 = c
    BY <2>1, Products, Sums
  <2> QED BY <1>2, <2>1, <2>3, <2>5, <2>6, <2>7
<1>5. /\ coeffs \in Seq(Field) /\ Len(coeffs) = n
      /\ all \in Seq(Field) /\ Len(all) = t
  BY <1>1, SeqDef, LenProperties
<1>6. PICK drawn : drawn = Drawn(s, coeffs)
  OBVIOUS
<1>7. /\ drawn \in Seq(Field) /\ Len(drawn) = 1 + n
      /\ \A i \in 1..(1 + n) : drawn[i] = IF i <= 1 THEN <<s>>[i] ELSE coeffs[i - 1]
  <2>1. <<s>> \in Seq(Field) /\ Len(<<s>>) = 1
    OBVIOUS
  <2> QED BY <1>5, <1>6, <2>1, ConcatProperties DEF Drawn
<1>8. ASSUME NEW i \in 1..t PROVE drawn[i] = all[i]
  <2>1. CASE i = 1
    BY <1>1, <1>4, <1>7, <2>1
  <2>2. CASE i # 1
    <3>1. i - 1 \in 1..n /\ (i - 1) + 1 = i /\ ~(i <= 1) /\ i \in 1..(1 + n)
      BY <1>1, <2>2
    <3>2. drawn[i] = coeffs[i - 1]
      BY <1>7, <3>1
    <3>3. coeffs[i - 1] = all[(i - 1) + 1]
      BY <1>3, <3>1 DEF Higher
    <3> QED BY <3>1, <3>2, <3>3
  <2> QED BY <2>1, <2>2
<1>9. drawn = all
  <2>1. drawn \in [1..t -> Field]
    BY <1>1, <1>7, LenProperties
  <2> QED BY <1>8, <2>1
<1>10. g = SplitPoly(s, coeffs)
  BY <1>2, <1>6, <1>9 DEF SplitPoly
<1> QED BY <1>1, <1>10

\* Of two lists with the same values the first coefficients are the same, and
\* the others have the same values.
LEMMA HigherAreEqual ==
  ASSUME NEW n \in Nat, n <= Order,
         NEW a \in [1..(n + 1) -> Field], NEW b \in [1..(n + 1) -> Field],
         \A x \in Field : GfPolyEval(a, x) = GfPolyEval(b, x)
  PROVE  /\ a[1] = b[1]
         /\ \A x \in Field : GfPolyEval(Higher(a, n), x) = GfPolyEval(Higher(b, n), x)
<1>1. PICK p \in [1..n -> Field] : p = Higher(a, n)
  BY HigherIsTyped
<1>2. PICK q \in [1..n -> Field] : q = Higher(b, n)
  BY HigherIsTyped
<1>3. PICK f : f = [x \in Field |-> GfPolyEval(p, x)]
  OBVIOUS
<1>4. PICK g : g = [x \in Field |-> GfPolyEval(q, x)]
  OBVIOUS
<1>5. f \in Poly(n) /\ g \in Poly(n)
  BY <1>3, <1>4 DEF Poly
<1>6. f \in [Field -> Field] /\ g \in [Field -> Field]
  BY <1>5, PolyIsTyped
<1>7. PICK c \in Field, d \in Field : c = a[1] /\ d = b[1]
  OBVIOUS
<1>8. ASSUME NEW x \in Field PROVE c (+) (x (.) f[x]) = d (+) (x (.) g[x])
  <2>1. GfPolyEval(a, x) = a[1] (+) (x (.) GfPolyEval(p, x))
    BY <1>1, HornerUnfolds
  <2>2. GfPolyEval(b, x) = b[1] (+) (x (.) GfPolyEval(q, x))
    BY <1>2, HornerUnfolds
  <2>3. f[x] = GfPolyEval(p, x) /\ g[x] = GfPolyEval(q, x)
    BY <1>3, <1>4
  <2> QED BY <1>7, <2>1, <2>2, <2>3
<1>9. c = d
  <2>1. PICK z \in Field : z = 0
    BY OneInField
  <2>2. PICK u \in Field, v \in Field : u = f[z] /\ v = g[z]
    BY <1>6
  <2>3. z (.) u = 0 /\ z (.) v = 0
    BY <2>1, Products
  <2>4. c (+) 0 = d (+) 0
    BY <1>8, <2>1, <2>2, <2>3
  <2> QED BY <2>4, Sums
<1>10. ASSUME NEW x \in Field, x # 0 PROVE f[x] = g[x]
  <2>1. PICK u \in Field, v \in Field : u = f[x] /\ v = g[x]
    BY <1>6
  <2>2. PICK s \in Field, t \in Field : s = x (.) u /\ t = x (.) v
    BY Products
  <2>3. c (+) s = c (+) t
    BY <1>8, <1>9, <2>1, <2>2
  <2>4. s = t
    <3>1. c (+) (c (+) s) = s /\ c (+) (c (+) t) = t
      BY Sums
    <3> QED BY <2>3, <3>1
  <2>5. s (+) t = 0
    BY <2>4, Sums
  <2>6. x (.) (u (+) v) = 0
    BY <2>2, <2>5, ProductsDistribute
  <2>7. u (+) v \in Field
    BY Sums
  <2>8. u (+) v = 0
    BY <1>10, <2>6, <2>7, Products
  <2> QED BY <2>1, <2>8, Sums
<1>11. f = g
  <2>1. PICK xs : xs = [i \in 1..n |-> i]
    OBVIOUS
  <2>2. \A i \in 1..n : xs[i] = i /\ i \in Field /\ i # 0
    BY <2>1, FieldIsNat
  <2>3. xs \in [1..n -> Field] /\ Distinct(xs, n)
    BY <2>1, <2>2 DEF Distinct
  <2>4. \A i \in 1..n : f[xs[i]] = g[xs[i]]
    BY <1>10, <2>2
  <2> QED BY <1>5, <2>3, <2>4, AgreementIsEquality
<1>12. ASSUME NEW x \in Field PROVE GfPolyEval(p, x) = GfPolyEval(q, x)
  BY <1>3, <1>4, <1>11
<1> QED BY <1>1, <1>2, <1>7, <1>9, <1>12

\* Two lists of coefficients with the same values are the same.
Determined(n) ==
  \A a, b \in [1..n -> Field] :
    (\A x \in Field : GfPolyEval(a, x) = GfPolyEval(b, x)) => a = b

LEMMA CoefficientsAreDetermined == \A n \in Nat : n <= Order + 1 => Determined(n)
<1> DEFINE G == {n \in Nat : n <= Order + 1 => Determined(n)}
<1>1. 0 \in G
  BY DEF Determined
<1>2. ASSUME NEW n \in Nat, n \in G PROVE n + 1 \in G
  <2> SUFFICES ASSUME n + 1 <= Order + 1 PROVE Determined(n + 1)
    OBVIOUS
  <2>1. Order \in Nat /\ n <= Order
    BY FieldIsNat
  <2>2. Determined(n)
    BY <1>2, <2>1
  <2> SUFFICES ASSUME NEW a \in [1..(n + 1) -> Field], NEW b \in [1..(n + 1) -> Field],
                      \A x \in Field : GfPolyEval(a, x) = GfPolyEval(b, x)
               PROVE  a = b
    BY DEF Determined
  <2>3. /\ a[1] = b[1]
        /\ \A x \in Field : GfPolyEval(Higher(a, n), x) = GfPolyEval(Higher(b, n), x)
    BY <2>1, HigherAreEqual
  <2>4. Higher(a, n) \in [1..n -> Field] /\ Higher(b, n) \in [1..n -> Field]
    BY HigherIsTyped
  <2>5. Higher(a, n) = Higher(b, n)
    BY <2>2, <2>3, <2>4 DEF Determined
  <2>6. ASSUME NEW i \in 1..(n + 1) PROVE a[i] = b[i]
    <3>1. CASE i = 1
      BY <2>3, <3>1
    <3>2. CASE i # 1
      <4>1. i - 1 \in 1..n /\ (i - 1) + 1 = i
        BY <3>2
      <4>2. Higher(a, n)[i - 1] = a[(i - 1) + 1] /\ Higher(b, n)[i - 1] = b[(i - 1) + 1]
        BY <4>1 DEF Higher
      <4> QED BY <2>5, <4>1, <4>2
    <3> QED BY <3>1, <3>2
  <2> QED BY <2>6
<1>3. \A n \in Nat : n \in G
  <2> HIDE DEF G
  <2> QED BY <1>1, <1>2, Induction
<1> QED BY <1>3

LEMMA FewerFit ==
  ASSUME NEW t \in Nat \ {0}, NEW xs \in [1..(t - 1) -> 1..Order],
         NEW f \in Poly(t), NEW s \in Field
  PROVE  \E g \in Poly(t) : g[0] = s /\ Agree(g, f, xs, t - 1)
<1>1. PICK n \in Nat : n = t - 1 /\ n + 1 = t
  OBVIOUS
<1>2. xs \in [1..n -> 1..Order] /\ f \in Poly(n + 1)
  BY <1>1
<1>3. PICK g \in Poly(n + 1) : g[0] = s /\ Agree(g, f, xs, n)
  BY <1>2, FewerFitEveryByte
<1> QED BY <1>1, <1>3

\* Two draws for a secret that agree at fewer places than the threshold, none of
\* them 0, are the same: they agree at 0 as well.
LEMMA DrawIsDetermined ==
  ASSUME NEW t \in 1..(Order + 1), NEW s \in Field,
         NEW us \in [1..(t - 1) -> Field], NEW vs \in [1..(t - 1) -> Field],
         NEW xs \in [1..(t - 1) -> 1..Order], Distinct(xs, t - 1),
         Agree(SplitPoly(s, us), SplitPoly(s, vs), xs, t - 1)
  PROVE  us = vs
<1>1. /\ Order \in Nat /\ t \in Nat \ {0} /\ t <= Order + 1
      /\ 0 \in Field /\ 1..Order \subseteq Field
  BY FieldIsNat, OneInField
<1>2. PICK f \in Poly(t) : f = SplitPoly(s, us) /\ f[0] = s
  <2>1. SplitPoly(s, us) \in Poly(t) /\ SplitPoly(s, us)[0] = s
    BY <1>1, SplitPolyFacts
  <2> QED BY <2>1
<1>3. PICK g \in Poly(t) : g = SplitPoly(s, vs) /\ g[0] = s
  <2>1. SplitPoly(s, vs) \in Poly(t) /\ SplitPoly(s, vs)[0] = s
    BY <1>1, SplitPolyFacts
  <2> QED BY <2>1
<1>4. PICK ys : ys = [i \in 1..t |-> IF i = t THEN 0 ELSE xs[i]]
  OBVIOUS
<1>5. ASSUME NEW i \in 1..t
      PROVE  /\ i = t => ys[i] = 0
             /\ i # t => i \in 1..(t - 1) /\ ys[i] = xs[i] /\ ys[i] \in 1..Order
  BY <1>1, <1>4
<1>6. ys \in [1..t -> Field]
  BY <1>1, <1>4, <1>5
<1>7. Distinct(ys, t)
  <2>1. ASSUME NEW i \in 1..t, NEW j \in 1..t, ys[i] = ys[j] PROVE i = j
    <3>1. CASE i = t /\ j = t
      BY <3>1
    <3>2. CASE i # t /\ j # t
      BY <1>5, <2>1, <3>2 DEF Distinct
    <3>3. CASE i = t /\ j # t
      BY <1>1, <1>5, <2>1, <3>3
    <3>4. CASE i # t /\ j = t
      BY <1>1, <1>5, <2>1, <3>4
    <3> QED BY <3>1, <3>2, <3>3, <3>4
  <2> QED BY <2>1 DEF Distinct
<1>8. ASSUME NEW i \in 1..t PROVE f[ys[i]] = g[ys[i]]
  BY <1>2, <1>3, <1>5 DEF Agree
<1>9. f = g
  BY <1>1, <1>6, <1>7, <1>8, AgreementIsEquality
<1>10. PICK a \in [1..t -> Field] :
         a = Drawn(s, us) /\ \A i \in 1..t : i # 1 => a[i] = us[i - 1]
  <2>1. IsDrawn(Drawn(s, us), s, us, t)
    BY <1>1, DrawnIsTyped
  <2> QED BY <2>1 DEF IsDrawn
<1>11. PICK b \in [1..t -> Field] :
         b = Drawn(s, vs) /\ \A i \in 1..t : i # 1 => b[i] = vs[i - 1]
  <2>1. IsDrawn(Drawn(s, vs), s, vs, t)
    BY <1>1, DrawnIsTyped
  <2> QED BY <2>1 DEF IsDrawn
<1>12. ASSUME NEW x \in Field PROVE GfPolyEval(a, x) = GfPolyEval(b, x)
  <2>1. f[x] = GfPolyEval(a, x) /\ g[x] = GfPolyEval(b, x)
    BY <1>2, <1>3, <1>10, <1>11 DEF SplitPoly
  <2> QED BY <1>9, <2>1
<1>13. a = b
  <2>1. Determined(t)
    BY <1>1, CoefficientsAreDetermined
  <2> QED BY <1>12, <2>1 DEF Determined
<1>14. ASSUME NEW i \in 1..(t - 1) PROVE us[i] = vs[i]
  <2>1. i + 1 \in 1..t /\ (i + 1) - 1 = i /\ i + 1 # 1
    BY <1>1
  <2>2. a[i + 1] = us[(i + 1) - 1] /\ b[i + 1] = vs[(i + 1) - 1]
    BY <1>10, <1>11, <2>1
  <2> QED BY <1>13, <2>1, <2>2
<1>15. us = [i \in 1..(t - 1) |-> us[i]] /\ vs = [i \in 1..(t - 1) |-> vs[i]]
  OBVIOUS
<1> QED BY <1>14, <1>15

\* Shares of a split, in the order they are brought.
Collected(set, secret, coeffs, n, order, k) ==
  [i \in 1..k |-> ShamirSplit(set, secret, coeffs, n)[order[i]]]

LEMMA CollectedCombine ==
  ASSUME NEW t \in Nat \ {0}, NEW secret \in Field, NEW coeffs \in [1..(t - 1) -> Field],
         NEW set, NEW n \in t..Order, NEW k \in t..n,
         NEW order \in [1..k -> 1..n], \A i, j \in 1..k : order[i] = order[j] => i = j
  PROVE  LET blobs == Collected(set, secret, coeffs, n, order, k)
         IN Combinable(blobs) /\ ShamirCombine(blobs) = secret
<1> DEFINE blobs == [i \in 1..k |-> ShamirSplit(set, secret, coeffs, n)[order[i]]]
<1>1. /\ Order \in Nat /\ t \in Nat \ {0} /\ n \in 0..Order /\ n \in Nat /\ k \in Nat /\ k >= t
  BY FieldIsNat
<1>2. PICK f \in Poly(t) : f = SplitPoly(secret, coeffs) /\ f[0] = secret
  BY SplitPolyFacts
<1>3. ASSUME NEW i \in 1..k
      PROVE  /\ blobs[i].set = set /\ blobs[i].threshold = t
             /\ blobs[i].x = order[i] /\ blobs[i].x \in 1..Order /\ blobs[i].y = f[blobs[i].x]
  <2>1. PICK j \in 1..n : j = order[i]
    OBVIOUS
  <2>2. PICK b : b = ShamirSplit(set, secret, coeffs, n)[j]
    OBVIOUS
  <2>3. ShamirSplit(set, secret, coeffs, n)[j] = Share(set, j, t, SplitPoly(secret, coeffs)[j])
    BY <1>1, ShareFacts
  <2>4. b = Share(set, j, t, f[j]) /\ j \in 1..Order
    BY <1>1, <1>2, <2>2, <2>3
  <2>5. blobs[i] = b
    BY <2>1, <2>2
  <2> HIDE DEF blobs
  <2> QED BY <2>1, <2>4, <2>5, ShareFields
<1>4. DOMAIN blobs = 1..k /\ Len(blobs) = k
  <2>1. PICK S : S = {blobs[i] : i \in 1..k}
    OBVIOUS
  <2>2. blobs \in [1..k -> S]
    BY <2>1
  <2> HIDE DEF blobs
  <2>3. blobs \in Seq(S)
    BY <1>1, <2>2, SeqDef
  <2>4. DOMAIN blobs = 1..k
    BY <2>2
  <2> QED BY <1>1, <2>3, <2>4, LenProperties
<1> HIDE DEF blobs
<1>5. SharesOfPoly(blobs, k, set, t, f)
  BY <1>3, <1>4 DEF SharesOfPoly
<1>6. Combinable(blobs) /\ ShamirCombine(blobs) = secret
  BY <1>1, <1>2, <1>5, EnoughCombine
<1> QED BY <1>6 DEF blobs, Collected

-----------------------------------------------------------------------------
(* Shares of a split, as many as its threshold or more and in any order,   *)
(* are combined to the secret: for any field with a generator, any secret, *)
(* any coefficients and any number of shares the code allows (shamir.ts,   *)
(* shamirSplit and shamirCombine).                                         *)
THEOREM EnoughSharesCombine ==
  ASSUME NEW t \in Nat \ {0}, NEW secret \in Field, NEW coeffs \in [1..(t - 1) -> Field],
         NEW set, NEW n \in t..Order, NEW k \in t..n,
         NEW order \in [1..k -> 1..n], \A i, j \in 1..k : order[i] = order[j] => i = j
  PROVE  LET split == ShamirSplit(set, secret, coeffs, n)
             blobs == [i \in 1..k |-> split[order[i]]]
         IN Combinable(blobs) /\ ShamirCombine(blobs) = secret
<1>1. LET blobs == Collected(set, secret, coeffs, n, order, k)
      IN Combinable(blobs) /\ ShamirCombine(blobs) = secret
  BY CollectedCombine
<1> QED BY <1>1 DEF Collected

(* Fewer shares than the threshold reveal nothing: of any other secret,    *)
(* exactly one draw of the coefficients makes the same shares, so every    *)
(* secret is as likely as before (shamir.ts, "t-1 reveal nothing").        *)
THEOREM FewerSharesTellNothing ==
  ASSUME NEW t \in Nat \ {0}, NEW secret \in Field, NEW coeffs \in [1..(t - 1) -> Field],
         NEW set, NEW n \in t..Order,
         NEW few \in [1..(t - 1) -> 1..n], \A i, j \in 1..(t - 1) : few[i] = few[j] => i = j,
         NEW other \in Field
  PROVE  \E cs \in [1..(t - 1) -> Field] : \A ds \in [1..(t - 1) -> Field] :
           ds = cs <=> \A i \in 1..(t - 1) :
                         ShamirSplit(set, other, ds, n)[few[i]] =
                         ShamirSplit(set, secret, coeffs, n)[few[i]]
<1>1. /\ Order \in Nat /\ t \in 1..(Order + 1) /\ n \in 0..Order
      /\ t - 1 \in Nat /\ (t - 1) + 1 = t /\ 1..n \subseteq 1..Order
  BY FieldIsNat
<1>2. PICK f \in Poly(t) : f = SplitPoly(secret, coeffs)
  BY SplitPolyFacts
<1>3. few \in [1..(t - 1) -> 1..Order]
  BY <1>1
<1>4. PICK g \in Poly(t) : g[0] = other /\ Agree(g, f, few, t - 1)
  BY <1>3, FewerFit
<1>5. PICK cs \in [1..(t - 1) -> Field] : g = SplitPoly(other, cs)
  BY <1>4, PolyIsSplit
<1>6. ASSUME NEW ds \in [1..(t - 1) -> Field]
      PROVE  (\A i \in 1..(t - 1) : ShamirSplit(set, other, ds, n)[few[i]] =
                                    ShamirSplit(set, secret, coeffs, n)[few[i]])
               <=> Agree(SplitPoly(other, ds), f, few, t - 1)
  <2>1. ASSUME NEW j \in 1..n
        PROVE  ShamirSplit(set, other, ds, n)[j] = ShamirSplit(set, secret, coeffs, n)[j]
                 <=> SplitPoly(other, ds)[j] = SplitPoly(secret, coeffs)[j]
    <3>1. t \in Nat \ {0} /\ n \in 0..Order
      BY <1>1
    <3>2. ShamirSplit(set, other, ds, n)[j] = Share(set, j, t, SplitPoly(other, ds)[j])
      BY <3>1, ShareFacts
    <3>3. ShamirSplit(set, secret, coeffs, n)[j] = Share(set, j, t, SplitPoly(secret, coeffs)[j])
      BY <3>1, ShareFacts
    <3> QED BY <3>2, <3>3, ShareFields
  <2> QED BY <1>2, <2>1 DEF Agree
<1>7. ASSUME NEW ds \in [1..(t - 1) -> Field], Agree(SplitPoly(other, ds), f, few, t - 1)
      PROVE  ds = cs
  <2>1. Agree(SplitPoly(other, ds), SplitPoly(other, cs), few, t - 1)
    BY <1>4, <1>5, <1>7 DEF Agree
  <2>2. Distinct(few, t - 1)
    BY DEF Distinct
  <2> QED BY <1>1, <1>3, <2>1, <2>2, DrawIsDetermined
<1>8. Agree(SplitPoly(other, cs), f, few, t - 1)
  BY <1>4, <1>5
<1>9. ASSUME NEW ds \in [1..(t - 1) -> Field]
      PROVE  ds = cs <=> Agree(SplitPoly(other, ds), f, few, t - 1)
  BY <1>7, <1>8
<1> QED BY <1>6, <1>9

=============================================================================
