--------------------------- MODULE SecretSharing ---------------------------
(***************************************************************************)
(* Shamir's secret sharing of one byte over GF(2^8) (crypto/src/gf256.ts,  *)
(* crypto/src/shamir.ts).  The code shares a secret of several bytes by    *)
(* sharing each of them alone; the coefficients are drawn by the caller.   *)
(* A share is [set, x, threshold, y]: set names the split it comes from.   *)
(* The field has 2^Width elements; the code's is Width = 8, Modulus = 283. *)
(* A loop is a function of the rounds it has made.                         *)
(***************************************************************************)
EXTENDS Integers, Sequences, FiniteSets

CONSTANTS
  Width,   \* bits of a field element
  Modulus  \* the reduction polynomial, as a number

\* 2^n
TwoTo[n \in Nat] == IF n = 0 THEN 1 ELSE 2 * TwoTo[n - 1]

ASSUME FieldAssumption ==
  Width \in Nat \ {0} /\ Modulus \in TwoTo[Width]..(TwoTo[Width + 1] - 1)

Order == TwoTo[Width] - 1  \* elements other than 0
Field == 0..Order

\* The exclusive or of two numbers, digit by digit.
XorWith[a \in Nat] ==
  [b \in Nat |-> IF a = 0 THEN b ELSE ((a + b) % 2) + 2 * XorWith[a \div 2][b \div 2]]

Xor(a, b) == XorWith[a][b]

\* x times the generator 3: doubled and reduced, plus x.
TimesGenerator[x \in Field] ==
  Xor(Xor(2 * x, IF x >= TwoTo[Width - 1] THEN Modulus ELSE 0), x) % TwoTo[Width]

Powers[i \in Nat] == IF i = 0 THEN 1 ELSE TimesGenerator[Powers[i - 1]]

\* The powers of 3 are the elements other than 0.
IsGenerator ==
  {Powers[i] : i \in 0..(Order - 1)} = 1..Order /\ Powers[Order] = 1

ASSUME GeneratorAssumption == IsGenerator

\* The tables: 3^i, twice over, and its inverse, each entry the last one written.
EXP == [i \in 0..(2 * Order + 1) |-> Powers[i % Order]]
LOG == [x \in Field |->
          LET written == {i \in 0..(Order - 1) : Powers[i] = x}
          IN IF written = {} THEN 0
             ELSE CHOOSE i \in written : \A j \in written : j <= i]

GfMul(a, b) == IF a = 0 \/ b = 0 THEN 0 ELSE EXP[LOG[a] + LOG[b]]

\* Defined for b # 0.
GfDiv(a, b) == IF a = 0 THEN 0 ELSE EXP[(LOG[a] + Order - LOG[b]) % Order]

\* Horner: coeffs[1] is the constant term.
GfPolyEval(coeffs, x) ==
  LET y[k \in 0..Len(coeffs)] ==
        IF k = 0 THEN 0 ELSE Xor(GfMul(y[k - 1], x), coeffs[Len(coeffs) - k + 1])
  IN y[Len(coeffs)]

\* Mutant: the first share is the value at 0, the secret itself.
ShamirSplitFromZero(set, secret, coeffs, n) ==
  [j \in 1..n |-> [set |-> set, x |-> j - 1, threshold |-> Len(coeffs) + 1,
                   y |-> GfPolyEval(<<secret>> \o coeffs, j - 1)]]

\* The shares of a secret for a threshold of Len(coeffs) + 1; at most Order.
ShamirSplit(set, secret, coeffs, n) ==
  [j \in 1..n |-> [set |-> set, x |-> j, threshold |-> Len(coeffs) + 1,
                   y |-> GfPolyEval(<<secret>> \o coeffs, j)]]

\* The product of all factors but the j-th.
ProductBut(factors, j) ==
  LET product[m \in 0..Len(factors)] ==
        IF m = 0 THEN 1
        ELSE IF m = j THEN product[m - 1] ELSE GfMul(product[m - 1], factors[m])
  IN product[Len(factors)]

\* Mutant: numerator and denominator are swapped.
LagrangeInverted(use, j) ==
  GfDiv(ProductBut([m \in 1..Len(use) |-> Xor(use[m].x, use[j].x)], j),
        ProductBut([m \in 1..Len(use) |-> use[m].x], j))

\* The Lagrange basis at 0 of the j-th of the shares used.
Lagrange(use, j) ==
  GfDiv(ProductBut([m \in 1..Len(use) |-> use[m].x], j),
        ProductBut([m \in 1..Len(use) |-> Xor(use[m].x, use[j].x)], j))

\* What shamirCombine insists on before it interpolates.
Combinable(blobs) ==
  /\ blobs # <<>>
  /\ Len(blobs) >= blobs[1].threshold
  /\ \A i \in DOMAIN blobs :
       /\ blobs[i].set = blobs[1].set
       /\ blobs[i].threshold = blobs[1].threshold
       /\ blobs[i].x \in 1..Order
       /\ \A j \in DOMAIN blobs \ {i} : blobs[j].x # blobs[i].x

\* The exclusive or of all terms.
Total(terms) ==
  LET b[j \in 0..Len(terms)] == IF j = 0 THEN 0 ELSE Xor(b[j - 1], terms[j])
  IN b[Len(terms)]

\* The secret, from the first threshold shares in the order given.
ShamirCombine(blobs) ==
  LET use == SubSeq(blobs, 1, blobs[1].threshold)
  IN Total([j \in 1..Len(use) |-> GfMul(use[j].y, Lagrange(use, j))])

=============================================================================
