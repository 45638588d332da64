----------------------------- MODULE MerkleTree -----------------------------
(***************************************************************************)
(* The Merkle trees of the log's checkpoints and the inclusion proofs over *)
(* them (log/src/merkle.ts).  Hashes are collision free: a node is its two *)
(* children, a leaf the entry hash it is made from, and the two are never  *)
(* equal (the prefixes 0x00 and 0x01).  A recursion over slices of a list  *)
(* is a function of the slice: its size, and how many leaves come first.   *)
(***************************************************************************)
EXTENDS Integers, Sequences

EmptyRoot      == [kind |-> "empty"]
LeafHash(h)    == [kind |-> "leaf", of |-> h]
NodeHash(l, r) == [kind |-> "node", left |-> l, right |-> r]

\* The loop of largestPowerOfTwoBelow: how it ends, from each k.
Doublings(n) ==
  LET from[k \in 1..n] == IF k * 2 < n THEN from[k * 2] ELSE k
  IN from

LargestPowerOfTwoBelow(n) == Doublings(n)[1]

\* rootOf each slice.
Nodes(hashes) ==
  LET n == Len(hashes)
      node[size \in 1..n] ==
        IF size = 1 THEN [first \in 0..(n - 1) |-> LeafHash(hashes[first + 1])]
        ELSE LET k == LargestPowerOfTwoBelow(size)
             IN [first \in 0..(n - size) |-> NodeHash(node[k][first], node[size - k][first + k])]
  IN node

MerkleRoot(hashes) == IF hashes = <<>> THEN EmptyRoot ELSE Nodes(hashes)[Len(hashes)][0]

\* The siblings of a leaf of each slice, the deepest first.
Siblings(hashes) ==
  LET n == Len(hashes)
      node == Nodes(hashes)
      built[size \in 1..n] ==
        IF size = 1 THEN [first \in 0..(n - 1) |-> [index \in {0} |-> <<>>]]
        ELSE LET k == LargestPowerOfTwoBelow(size)
             IN [first \in 0..(n - size) |-> [index \in 0..(size - 1) |->
                   IF index < k THEN Append(built[k][first][index], node[size - k][first + k])
                   ELSE Append(built[size - k][first + k][index - k], node[k][first])]]
  IN built

\* Defined for 0 <= index < Len(hashes).
InclusionProof(hashes, index) == Siblings(hashes)[Len(hashes)][0][index]

\* The verifier does not get that far: the proof is too short or too long.
NoHash == [kind |-> "none"]

\* The hash above a leaf's, which is on the left or on the right of its sibling.
Above(sub, sibling, onLeft) ==
  IF sub = NoHash THEN NoHash
  ELSE IF onLeft THEN NodeHash(sub, sibling) ELSE NodeHash(sibling, sub)

\* Mutant: a proof that is too long is consumed in part.
RecomputeInPart(hash, index, size, proof) ==
  LET computed[n \in 1..size] ==
        IF n = 1 THEN [at \in {0} |-> [p \in 0..Len(proof) |-> hash]]
        ELSE LET k == LargestPowerOfTwoBelow(n)
             IN [at \in 0..(n - 1) |-> [p \in 0..Len(proof) |->
                   IF p = 0 THEN NoHash
                   ELSE IF at < k THEN Above(computed[k][at][p - 1], proof[p], TRUE)
                   ELSE Above(computed[n - k][at - k][p - 1], proof[p], FALSE)]]
  IN computed[size][index][Len(proof)]

\* What is computed of the leaf at each place of a tree of each size, with the
\* first p hashes of the proof: its siblings are taken from the end.
Computed(hash, size, proof) ==
  LET computed[n \in 1..size] ==
        IF n = 1 THEN [at \in {0} |-> [p \in 0..Len(proof) |-> IF p = 0 THEN hash ELSE NoHash]]
        ELSE LET k == LargestPowerOfTwoBelow(n)
             IN [at \in 0..(n - 1) |-> [p \in 0..Len(proof) |->
                   IF p = 0 THEN NoHash
                   ELSE IF at < k THEN Above(computed[k][at][p - 1], proof[p], TRUE)
                   ELSE Above(computed[n - k][at - k][p - 1], proof[p], FALSE)]]
  IN computed

Recompute(hash, index, size, proof) == Computed(hash, size, proof)[size][index][Len(proof)]

VerifyInclusion(hash, index, size, proof, expectedRoot) ==
  /\ index \in 0..(size - 1)
  /\ Recompute(LeafHash(hash), index, size, proof) = expectedRoot

-----------------------------------------------------------------------------
PowersOfTwo(n) ==
  LET power[i \in 0..n] == IF i = 0 THEN 1 ELSE 2 * power[i - 1]
  IN {power[i] : i \in 0..n}

\* The proof of an entry verifies at its own index and at no other, for no other
\* entry, and not with a sibling missing or added at either end.
IsExact(hashes, root, index, proof) ==
  LET n == Len(hashes)
      Accepts(hash, at, p) == VerifyInclusion(hash, at, n, p, root)
  IN /\ \A hash \in 1..(n + 1), at \in -1..n :
          Accepts(hash, at, proof) <=> at = index /\ hash = hashes[index + 1]
     /\ \A extra \in {root, LeafHash(1)} :
          /\ ~Accepts(hashes[index + 1], index, <<extra>> \o proof)
          /\ ~Accepts(hashes[index + 1], index, Append(proof, extra))
     /\ proof # <<>> =>
          /\ ~Accepts(hashes[index + 1], index, Tail(proof))
          /\ ~Accepts(hashes[index + 1], index, SubSeq(proof, 1, Len(proof) - 1))

(* A tree of any size is split where RFC 6962 says, and its proofs are     *)
(* exact.                                                                  *)
ProofsAreExact(n) ==
  LET hashes == [i \in 1..n |-> i]
      k      == LargestPowerOfTwoBelow(n)
  IN /\ n > 1 => k \in PowersOfTwo(n) /\ k < n /\ n <= 2 * k
     /\ \A index \in 0..(n - 1) :
          IsExact(hashes, MerkleRoot(hashes), index, InclusionProof(hashes, index))

=============================================================================
