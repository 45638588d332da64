--------------------------- MODULE AuditEvidence ---------------------------
(***************************************************************************)
(* What the audit of an exam (ExamAudit) takes for granted: of the logs it *)
(* is given, the anchors of every checkpoint that this exam may have       *)
(* (TimeStamp) and the inclusion proofs of its entries (MerkleTree); and   *)
(* that its papers are what the seeds make of the bank (PaperAssembly).    *)
(***************************************************************************)
EXTENDS ExamAudit, TimeStamp, MerkleTree, PaperAssembly

CONSTANT MaxTree  \* the largest tree whose inclusion proofs are computed

ASSUME MaxTreeAssumption == MaxTree \in Nat

\* For the bank of three items; the code's words are far more.
ASSUME WordsSuffice == Words >= 3

Roots == {"root", "another"}
Tsas  == {"tsa1", "tsa2", "tsa3"}

\* Clocks that go wrong by just too much, and by just not too much.
Skews == {-61, -60, 86400, 86401}

AnchoredTimes ==
  {at \in 0..MaxTime :
     /\ AnswersAreMatched(Roots)
     /\ StoredAnchorsVerify(Roots, {at, at + 1})
     /\ AnchoringIsEnough(Tsas, {"root"}, at, Skews)}

(* A checkpoint made now can be anchored: an anchor is the answer to its   *)
(* own request and verifies for its own root only, and what anchorToAll    *)
(* returns is enough for the audit.                                        *)
AnchorsVerify == now \in AnchoredTimes

ExactSizes == {n \in 1..MaxTree : ProofsAreExact(n)}

Size(a) == MapThenSumSet(LAMBDA t : Len(EntriesOf(log[a], t)), Types)

(* In the tree of any checkpoint of the logs an inclusion proof verifies   *)
(* for its entry, at its place, and for no other.                          *)
InclusionProofsAreExact ==
  \A a \in Logs : (1..Size(a)) \intersect (1..MaxTree) \subseteq ExactSizes

-----------------------------------------------------------------------------
Bank == <<[id |-> 1, slot |-> "x", options |-> 2, correct |-> 1],
          [id |-> 2, slot |-> "x", options |-> 2, correct |-> 0],
          [id |-> 3, slot |-> "x", options |-> 2, correct |-> 1]>>

Banks == UNION {[1..n -> [id : 1..3, slot : {"x", "y"}, options : 1..2, correct : {1}]] : n \in 0..3}
Blueprints == UNION {[1..n -> [slot : {"x", "y"}, count : 0..2]] : n \in 0..2}

BankIsFair ==
  /\ DrawsAreUniform(3, 2, 3)
  /\ StorageHasNoPart(Bank, <<[slot |-> "x", count |-> 2]>>, 4)
  /\ AcceptedBanksGivePapers(Banks, Blueprints, [i \in 1..12 |-> i % 3])

(* The papers of a provisioned exam are drawn fairly, whatever the order   *)
(* its bank is stored in, and a bank that validateBank accepts never makes *)
(* assemblePaper fail or print a question from which its answer cannot be  *)
(* told.                                                                   *)
PapersAreFair == provisioned => BankIsFair

=============================================================================
